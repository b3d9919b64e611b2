SPECIFICATION Spec
CONSTANTS
  Rank <- MCRank
  SafeNames <- MCSafeNames
  RpmNames <- MCRpmNames
  SrpmNames <- MCSrpmNames
  PgNames = {"postgresql18", "postgresql18-libs", "postgresql18-server"}
  PgSrpms <- MCPgSrpms
  Fingerprints <- MCFingerprints
  Malformed = Malformed
  Garbage = Garbage
  Absent = Absent
  Rpms <- MCRpms
  Meta <- MCMeta
  LastState = 2
  Closure <- MCClosure
  Listed <- MCListed
  KeyId <- MCKeyId
  InputDrafts <- MCInputDrafts
  LockDrafts <- MCLockDrafts
  MaxChanges = 2
  MaxRetained = 2
INVARIANTS TypeOK CandidateReviewed CandidateFits ReleaseAgrees
