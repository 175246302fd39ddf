SPECIFICATION GameSpec
CONSTANTS
  Players = {p1, p2}
  Xbox = {p1}
  AccountName <- MCAccountName
  NetId <- MCNetId
  SoftReady = 1
  MaxWait = 1
  JoinHook = FALSE
  Filled = {TRUE}
  MaxVisits = 2
  Kinds = {"row", "tagged", "private", "screen"}
  Cap = 2
  DeferredMax = 2
  QueueMax = 1
  FindFaultsMax = 1
  Senders = {p2}
  MaxMessages = 1
  MaxFaults = 1
  Unknown = Unknown
  MuteTimes = {1}
  NoticeGap = 0
  ShowLocalServerTag = TRUE
  LinksMax = 1
  PendingMax = 1
  MaxLines = 2
  Nobody = Nobody
  Inputs <- MCInputs
CHECK_DEADLOCK FALSE
INVARIANTS
  GameTypeOK
  ShownTwiceOnlyByRetry
  ClearedLineComesBack
PROPERTIES
  LinesReachTheOnline
  XboxLinesAreAttributed
  OnlyTheGoneLeave
