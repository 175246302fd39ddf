SPECIFICATION Spec
CONSTANTS
  Files <- MCFiles
  FirstHookId = 0
  QueueMax = 2
  MaxReports = 4
CHECK_DEADLOCK FALSE
INVARIANTS
  NothingUsedAfterFree
  UnloadPostsOnce
PROPERTIES
  ReportsServed
  UnloadEnds
