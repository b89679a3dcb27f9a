SPECIFICATION Spec
CONSTANTS
  c1 = c1
  c2 = c2
  Clients = {c1, c2}
  Ops <- StartStop
  Syncer = Syncer
  Scans = {}
  Failures = FALSE
  Crashes = FALSE
  MaxVersion = 2
  MaxSnap = 1
INVARIANT EveryChangeReplicated
