SPECIFICATION FairSpec
CONSTANTS
  r1 = r1
  r2 = r2
  c1 = c1
  a = a
  b = b
  Runs <- MCRuns
  Checkouts = {c1}
  Dir <- MCDir
  Corrupt = corrupt
  None = None
  Remains = Remains
  Files <- MCFiles
  Inventory <- MCInventory
  Versions <- MCVersions
  Valid <- MCValid
INVARIANTS TypeOK AcquireInv
PROPERTIES ImplementsAdmission StepsBounded AcquireEnds
