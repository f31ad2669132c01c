SPECIFICATION Spec
CONSTANTS
  Workers = {w1, w2, w3, w4, w5}
  Times = {1, 2, 3}
  Size = 4
  QueueTypes = {0, 1, 2}
  LoopType = 2
  None = None
INVARIANTS
  QueueTypeOK
  RingExact
PROPERTIES
  RingImplementsQueue
  StackImplementsQueue
CHECK_DEADLOCK FALSE
