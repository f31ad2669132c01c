SPECIFICATION FairSpec
CONSTANTS
  I32Max = 99
  CleanInterval = 1
  Requests <- MCRequests
  IndexWrap = 3
  Clients = {c1, c2}
  MaxCalls = 3
  Controllers = {k1}
  MaxOps = 2
  Contexts = {"nil", "live"}
  TuneSizes = {2}
INVARIANTS
  MultiPoolTypeOK
  PoolsAgree
  RotationFair
PROPERTIES
  ClosedTakesNothing
  OkMeansDrained
  ControlReturns
CHECK_DEADLOCK FALSE
