SPECIFICATION Spec
CONSTANTS
  Repos = {"repo"}
  Ecosystem = "eco"
  Schedules <- Two
  Urls = {u1, u2}
  Listed = {u1}
  Shown = {"repo"}
  Tabs = {b1}
  MaxTime = 1
  MaxRequests = 2
  MaxCrashes = 1
  None = None
  Bare = Bare
  Hidden = Hidden
  Cut = Cut
  Garbled = Garbled
INVARIANTS
  TypeOK
  NothingLost
  OneRunPerRepo
PROPERTY
  OncePerMoment
CHECK_DEADLOCK FALSE
CONSTRAINT UntilMixed
