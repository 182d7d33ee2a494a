SPECIFICATION Spec
CONSTANTS
  AgentList <- TwoAgents
  HasGate = TRUE
  HasSynthesis = FALSE
  MaxConcurrency = 2
  MaxAttempts = 3
  LaterModes = {"resume", "replay"}
  EditSets <- Unedited
  MayInterrupt = TRUE
  MayCrash = TRUE
  MayRaise = FALSE
INVARIANTS
  LandedIsRecorded
  ReplayReproduces
  NeverSpins
  VerdictIsFresh
  ResumeKeepsAnswers
PROPERTY
  InjectsWhenSettled
CHECK_DEADLOCK FALSE
