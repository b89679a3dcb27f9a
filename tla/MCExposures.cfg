SPECIFICATION Spec
CONSTANTS
  Clients = {c1, c2}
  Names = {m}
  Others = {x}
  None = None
  MaxFiles = 3
  MaxRows = 2
  Aliases = {a}
  rw = rw
  read = read
  write = write
  Scopes = {rw}
  Accesses = {read, write}
  Permits <- Permissions
  NoApi = NoApi
  NoCall = NoCall
  MaxTokens = 2
SYMMETRY Symmetry
INVARIANTS
  TypeOK
  CatalogMatchesFiles
  ServesItsDatabase
  ApiServesItsFile
  RevokedForever
