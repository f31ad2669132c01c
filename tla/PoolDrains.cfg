SPECIFICATION FairSpec
CONSTANTS
  Callers = {c1, c2}
  Workers = {w1, w2}
  Tuners = {t1}
  MaxCalls = 1
  Size = 1
  TuneSizes = {2}
  PreAlloc = FALSE
  DisablePurge = FALSE
  Nonblocking = FALSE
  MaxBlockingTasks = 0
  ChanCap = 1
  Outcomes = {"ok", "panic"}
  MayRelease = TRUE
  Finish = Finish
  None = None
INVARIANTS
  SoleOwner
  ExactlyOnce
PROPERTIES
  AcceptedRuns
  ServedWhileOpen
  PoolDrains
CHECK_DEADLOCK FALSE
