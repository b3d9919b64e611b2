SPECIFICATION Spec
CONSTANTS
  Runs = {r1}
  Tags = {t1}
  t1 = t1
  t2 = t2
  u1 = u1
  v1 = v1
  Date <- MCDate
  Seq <- MCSeq
  Agrees <- OneVersion
  LastCommit = 1
  LastDay = 1
  Variants = {x, y}
  Outcomes <- MCOutcomes
  x = x
  y = y
  None = None
  TagsProtected = {t1}
  FailedOnly = {t1}
INVARIANT ProvenanceMatchesDigest
CHECK_DEADLOCK FALSE
