SPECIFICATION FairSpec
CONSTANTS
  Controllers = {a, b}
  MaxCalls = 2
  MaxGen = 2
  Ops = {"release", "reboot"}
  Workers = {}
  DisablePurge = TRUE
  None = None
PROPERTIES
  RebootReturns
CHECK_DEADLOCK FALSE
