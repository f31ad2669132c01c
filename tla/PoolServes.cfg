SPECIFICATION FairSpec
CONSTANTS
  Callers = {c1, c2, c3}
  Workers = {w1, w2, w3}
  Tuners = {}
  MaxCalls = 1
  Size = 1
  TuneSizes = {}
  PreAlloc = FALSE
  DisablePurge = FALSE
  Nonblocking = FALSE
  MaxBlockingTasks = 0
  ChanCap = 1
  Outcomes = {"ok", "panic"}
  MayRelease = FALSE
  Finish = Finish
  None = None
PROPERTIES
  SubmitReturns
CHECK_DEADLOCK FALSE
