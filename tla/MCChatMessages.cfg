CONSTANTS
  c1 = c1
  c2 = c2
  Clients = {c1, c2}
  Uploader = h
  Rooms = {ra}
  NoRoom = NoRoom
  None = None
  Ids = {i1}
  Requests = 2
  Window = 2
  HistoryLimit = 2
  Workloads <- MCWorkloads
SPECIFICATION Spec
CHECK_DEADLOCK FALSE
INVARIANTS JoinedMissNothing PairedFresh SharedIsKept RateBound RefusedWithCause
