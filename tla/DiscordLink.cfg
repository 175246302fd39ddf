SPECIFICATION FairSpec
CONSTANTS
  Servers = {na, eu}
  Players = {p1, p2}
  Discords = {d1}
  Nobody = Nobody
  PendingMax = 1
  QueueMax = 1
  MaxCommands = 2
  MaxFaults = 1
INVARIANTS
  TypeOK
  SuccessIsTrue
  CodeUsedOnce
PROPERTIES
  ResultIsHandedOn
  JobsAnswered
CHECK_DEADLOCK FALSE
