SPECIFICATION Spec
CONSTANTS
  AgentList <- TwoAgents
  HasGate = TRUE
  HasSynthesis = FALSE
  MaxConcurrency = 2
  MaxAttempts = 2
  LaterModes = {"resume", "replay"}
  EditSets <- OneEdit
  MayInterrupt = FALSE
  MayCrash = TRUE
  MayRaise = FALSE
INVARIANTS
  CompletedIsEarned
PROPERTY
  KeepsPromise
CHECK_DEADLOCK FALSE
