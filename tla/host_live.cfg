SPECIFICATION Spec
CONSTANTS
  AgentList <- ThreeAgents
  HasGate = TRUE
  HasSynthesis = TRUE
  MaxConcurrency = 2
  MaxAttempts = 1
  LaterModes = {}
  EditSets <- Unedited
  MayInterrupt = FALSE
  MayCrash = FALSE
  MayRaise = TRUE
INVARIANTS
  TypeOK
  OneAnswerPerCall
  EachCallInOnePlace
  EffectsInsideTheirCall
  WavesInOrder
  IdleMeansAnswered
  SlotsAreUsed
PROPERTY
  Terminates
CHECK_DEADLOCK FALSE
