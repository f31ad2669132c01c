SPECIFICATION FairSpec
CONSTANTS
  Threads = {s1, s2}
  Lifetimes = {2, None}
  Timeouts = {1, 3}
  MaxCalls = 1
  Horizon = 3
  None = None
INVARIANTS
  NothingMissed
  NeverEarly
PROPERTIES
  ImplementsSignal
  CancelWakes
  TimeEnds
CHECK_DEADLOCK FALSE
