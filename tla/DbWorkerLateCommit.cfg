SPECIFICATION Spec
CONSTANTS
  ServerOrigin = na
  Peers = {eu}
  QueueMax = 1
  MaxBatch = 2
  BackoffCap = 3
  Refused = {}
  MaxLines = 1
  MaxForeign = 4
  MaxOpen = 1
  MaxFaults = 2
  MaxRestarts = 1
INVARIANT NothingSkipped
CHECK_DEADLOCK FALSE
