SPECIFICATION Spec
CONSTANTS
  Servers = {na,eu}
  Players = {p1}
  Discords = {d1,d2}
  Nobody = Nobody
  PendingMax = 1
  QueueMax = 1
  MaxCommands = 2
  MaxFaults = 0
INVARIANT OneDiscordPerAccount
CHECK_DEADLOCK FALSE
