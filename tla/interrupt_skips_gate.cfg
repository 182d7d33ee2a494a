SPECIFICATION Spec
CONSTANTS
  AgentList <- TwoAgents
  HasGate = TRUE
  HasSynthesis = FALSE
  MaxConcurrency = 2
  MaxAttempts = 1
  LaterModes = {}
  EditSets <- Unedited
  MayInterrupt = TRUE
  MayCrash = FALSE
  MayRaise = FALSE
INVARIANT CompletedIsEarned
CHECK_DEADLOCK FALSE
