SPECIFICATION Spec
CONSTANTS
  Names = {n1, n2}
  Clients = {c1, c2}
  Entries = {e1, e2, e3, e4}
  Nil = Nil
  MaxDBs = 1
  Timeout = 0
  MaxFiles = 2
  CloseMayFail = TRUE
SYMMETRY Symmetry
INVARIANTS TypeOK OneHandlePerFile HandleIsCurrent
PROPERTY ImplementsManagedFiles
