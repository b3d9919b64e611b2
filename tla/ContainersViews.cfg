SPECIFICATION PartsSpec
CONSTANTS
  c1 = c1
  c2 = c2
  c3 = c3
  Containers = {c1, c2, c3}
  Envs <- BusyEnv
  MaxAlive = 3
  Kills = TRUE
  p1 = p1
  p2 = p2
  Processes = {p1, p2}
  Options <- MCOptions
  OscalDrafts = {"good", "return", "twice", "number"}
  SourceDrafts <- MCSources
  ExceptionDrafts <- MCExceptions
  Document <- MCDocument
  Conforms <- MCConforms
  RepositoryPaths = {"docs/A.md"}
  Digests = {"sha"}
  Malformed = Malformed
  Blank = Blank
  Return = Return
  Line = Line
  Garbage = Garbage
  Absent = Absent
  Truncated = Truncated
  Torn = Torn
  Edited = Edited
  MaxEdits = 1
INVARIANTS
  TypeOK OneInitializer LockInv
  ViewsTypeOK GreenIsCurrent RedHasReason
PROPERTIES
  StaleLockOrigin AbandonedOrigin DataPreserved ImplementsLifecycle
