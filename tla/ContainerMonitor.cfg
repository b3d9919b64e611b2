SPECIFICATION PartsSpec
CONSTANTS
  c1 = c1
  c2 = c2
  c3 = c3
  Containers = {c1}
  Envs <- AllEnvs
  MaxAlive = 1
  Kills = TRUE
  Jobs = {j1, j2}
  Issues = {i1, i2}
  MaxVersion = 2
  None = None
INVARIANTS
  ServerMatchesProfile PasswordFileConfined
  MonitorTypeOK OneDashboard
PROPERTIES
  ForeignUntouched SignalEndsContainer
  NoticeNeverOlder UpdateNoticed
