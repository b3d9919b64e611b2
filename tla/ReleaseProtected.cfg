SPECIFICATION Spec
CONSTANTS
  Runs = {r1, r2}
  Tags = {t1, t2, u1, v1}
  t1 = t1
  t2 = t2
  u1 = u1
  v1 = v1
  Date <- MCDate
  Seq <- MCSeq
  Agrees <- MCAgrees
  LastCommit = 2
  LastDay = 2
  Variants = {x, y}
  Outcomes <- MCOutcomes
  x = x
  y = y
  None = None
  TagsProtected = {t1, t2, u1}
  FailedOnly = {t1, t2, u1}
SYMMETRY Symmetry
INVARIANTS TypeOK OneCandidate SequenceUnique SignedWasGated CommitTagFits EvidenceFits
PROPERTY ImplementsPublication
CHECK_DEADLOCK FALSE
