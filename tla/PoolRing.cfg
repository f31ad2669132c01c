SPECIFICATION Spec
CONSTANTS
  Callers = {c1, c2, c3}
  Workers = {w1, w2, w3}
  Tuners = {}
  MaxCalls = 1
  Size = 1
  TuneSizes = {}
  PreAlloc = TRUE
  DisablePurge = FALSE
  Nonblocking = FALSE
  MaxBlockingTasks = 1
  ChanCap = 0
  Outcomes = {"ok", "panic"}
  MayRelease = TRUE
  Finish = Finish
  None = None
INVARIANTS
  NeverFull
  SendsNeverWait
  WaitingBounded
PROPERTIES
  ImplementsExecutor
CHECK_DEADLOCK FALSE
