SPECIFICATION Spec
CONSTANTS
  Runs = {a, b}
  Watched = {a}
  Clients = {c}
  Nobody = Nobody
  Handlers = {h1, h2}
  Cap = 1
  MaxThreads = 2
  MaxRequests = 3
  MaxEvents = 0
  Asked <- AllRequests
SYMMETRY Interchangeable
INVARIANTS
  TypeOK
  CapOvershoot
  TrackedAndAlone
  MirrorIsPrefix
  NoGhostRows
  StreamFollows
  ToldTheTruth
PROPERTY
  StaleMeansDead
CHECK_DEADLOCK FALSE
