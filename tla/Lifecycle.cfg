SPECIFICATION FairSpec
CONSTANTS
  Controllers = {a}
  MaxCalls = 4
  MaxGen = 2
  Ops = {"release", "live", "deadline", "reboot"}
  Workers = {w1, w2}
  DisablePurge = FALSE
  None = None
INVARIANTS
  LifecycleTypeOK
  OneBackground
  BackgroundServes
PROPERTIES
  CleanShutdown
  RebootReturns
  ReleaseReturns
CHECK_DEADLOCK FALSE
