SPECIFICATION Spec
CONSTANTS
  ServerOrigin = na
  Peers = {eu}
  QueueMax = 2
  MaxBatch = 2
  BackoffCap = 3
  Refused = {}
  MaxLines = 3
  MaxForeign = 2
  MaxOpen = 1
  MaxFaults = 2
  MaxRestarts = 1
INVARIANT TypeOK
INVARIANT NoReplay
INVARIANT FlagsAreTrue
INVARIANT NoLineLost
INVARIANT DuplicateOnlyAfterLostAck
INVARIANT ReorderOnlyByRequeue
PROPERTY CursorNeverRewinds
CHECK_DEADLOCK FALSE
