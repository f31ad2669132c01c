SPECIFICATION BusySpec
CONSTANTS
  Callers = {c1, c2, c3}
  Workers = {w1, w2, w3}
  Tuners = {}
  MaxCalls = 1
  Size = 1
  TuneSizes = {}
  PreAlloc = FALSE
  DisablePurge = TRUE
  Nonblocking = FALSE
  MaxBlockingTasks = 0
  ChanCap = 1
  Outcomes = {"ok", "stop", "panic"}
  MayRelease = TRUE
  Finish = Finish
  None = None
INVARIANTS
  TypeOK
  CapacityRespected
  RunningIsLive
  LockExclusive
  WaitingExact
  NoStrayToken
  ClosedQueueEmpty
  LatchCloses
PROPERTIES
  ReleaseFreesWaiters
CHECK_DEADLOCK FALSE
