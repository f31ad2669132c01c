SPECIFICATION Spec
CONSTANTS
  Workers = {w1, w2, w3}
  Times = {1, 2, 3, 4}
  ExpiryDuration = 2
  MaxTime = 4
PROPERTIES
  RefreshFindsExpired
CHECK_DEADLOCK FALSE
