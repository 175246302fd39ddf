SPECIFICATION FairSpec
CONSTANTS
  ServerOrigin = na
  Peers = {eu}
  QueueMax = 2
  MaxBatch = 2
  BackoffCap = 3
  Refused = {2}
  MaxLines = 3
  MaxForeign = 3
  MaxOpen = 0
  MaxFaults = 1
  MaxRestarts = 0
PROPERTY FeedSpec
PROPERTY LineReachesTable
PROPERTY RowReachesGame
PROPERTY StopCompletes
CHECK_DEADLOCK FALSE
