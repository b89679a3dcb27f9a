SPECIFICATION FairSpec
CONSTANTS
  c1 = c1
  c2 = c2
  Clients = {c1, c2}
  Ops <- TwoStarts
  Syncer = Syncer
  Scans = {}
  Failures = TRUE
  Crashes = FALSE
  MaxVersion = 2
  MaxSnap = 1
PROPERTIES QuietCatchesUp
CHECK_DEADLOCK FALSE
