SPECIFICATION FairSpec
CONSTANTS
  Scanner = Scanner
  Requests = {r}
  f1 = f1
  f2 = f2
  Files = {f1, f2}
  Roots <- SomeRoots
  Free = Free
  Calls = {c}
  Replicates = TRUE
INVARIANTS TypeOK ClosedWhenUnused NoScanAfterStop
PROPERTIES ScansTellTheTruth ShutdownEnds
CHECK_DEADLOCK FALSE
