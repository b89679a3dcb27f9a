SPECIFICATION Spec
CONSTANTS
  c1 = c1
  c2 = c2
  Clients = {c1, c2}
  Ops <- EveryRequest
  Syncer = Syncer
  Scans = {"gui", "cli"}
  Failures = TRUE
  Crashes = TRUE
  MaxVersion = 2
  MaxSnap = 2
INVARIANTS TypeOK CleanMeansCurrent SnapshotsRestorable
PROPERTIES ReplicaMonotone ReplicatingHasState SnapshotsStay
