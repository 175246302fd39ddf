SPECIFICATION FairSpec
CONSTANTS
  Players = {p1}
  Xbox = {p1}
  AccountName <- MCAccountName
  NetId <- MCNetId
  SoftReady = 1
  MaxWait = 2
  JoinHook = TRUE
  Filled = {FALSE}
  MaxVisits = 1
  Nobody = Nobody
  Kinds = {"row", "tagged"}
  Cap = 1
  DeferredMax = 2
  QueueMax = 2
  FindFaultsMax = 2
  Senders = {p1, Nobody}
  MaxMessages = 2
  MaxFaults = 0
CHECK_DEADLOCK FALSE
INVARIANTS
  RowsInOnePlace
  RowOrder
PROPERTIES
  JoinIsListed
  RowIsTaken
