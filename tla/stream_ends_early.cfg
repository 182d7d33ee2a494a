SPECIFICATION Spec
CONSTANTS
  Runs = {a}
  Watched = {a}
  Clients = {c}
  Nobody = Nobody
  Handlers = {h1}
  Cap = 1
  MaxThreads = 1
  MaxRequests = 1
  MaxEvents = 1
  Asked = {"launch"}
INVARIANT CompleteComesLast
CHECK_DEADLOCK FALSE
