SPECIFICATION Spec
CONSTANTS
  Players = {p1, p2}
  Unknown = Unknown
  Inputs <- MCInputs
  MuteTimes = {0, 3}
  NoticeGap = 2
  ShowLocalServerTag = TRUE
  LinksMax = 1
  PendingMax = 1
  MaxLines = 4
  MaxTime = 3
SYMMETRY Symmetry
CHECK_DEADLOCK FALSE
INVARIANTS
  SenderOrder
  LocalAndRemoteAgree
  NoLineForgotten
  OnlyPublicChatLeaves
  MuteIsPersonal
  NoticesSpaced
