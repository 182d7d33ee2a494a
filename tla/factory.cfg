SPECIFICATION Spec
CONSTANTS
  Specs <- TwoWaves
  Runners = {r1, r2}
  Handlers = {h1, h2}
  Cap = 2
  Ids = {1}
  MaxStarts = 3
  None = None
SYMMETRY Interchangeable
INVARIANTS
  TypeOK
  StateIsEarned
  WaveAfterWave
  InterruptStops
PROPERTY
  PassedIsNotRerun
CHECK_DEADLOCK FALSE
