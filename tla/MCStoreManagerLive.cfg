SPECIFICATION FairSpec
CONSTANTS
  Names = {n1}
  Clients = {c1, c2}
  Entries = {e1, e2, e3}
  Nil = Nil
  MaxDBs = 1
  Timeout = 1
  MaxFiles = 2
  CloseMayFail = TRUE
PROPERTY QuietGoesDormant
