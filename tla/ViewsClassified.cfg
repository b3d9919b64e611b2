SPECIFICATION ViewsSpec
CONSTANTS
  p1 = p1
  p2 = p2
  Processes = {p1}
  Options <- MCOptions
  OscalDrafts = {"renamed"}
  SourceDrafts <- MCSources
  ExceptionDrafts <- MCExceptions
  Document <- MCDocument
  Conforms <- MCConforms
  RepositoryPaths = {"docs/A.md"}
  Digests = {"sha"}
  Malformed = Malformed
  Blank = Blank
  Return = Return
  Line = Line
  Garbage = Garbage
  Absent = Absent
  Truncated = Truncated
  Torn = Torn
  Edited = Edited
  MaxEdits = 0
INVARIANT ClassifiedOnce
