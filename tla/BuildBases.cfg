SPECIFICATION BuildSpec
CONSTANTS
  b1 = b1
  b2 = b2
  c1 = c1
  c2 = c2
  v1 = v1
  v2 = v2
  Runs <- MCRuns
  Checkouts = {c1, c2}
  Dir <- TwoDirs
  Versions <- MCVersions
  Valid <- MCVersions
  Files <- MCVersions
  Inventory <- MCInventory
  Corrupt = corrupt
  None = None
  Remains = Remains
INVARIANTS BasesMatchLabel
