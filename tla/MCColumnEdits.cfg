SPECIFICATION FairSpec
CONSTANTS
  Editors = {e}
  Writers = {w}
  Names = {a, b}
  First = a
  Values = {v}
  Null = Null
  Objects = {i}
  None = None
  Stale = Stale
  MaxRow = 2
  MaxSchema = 1
INVARIANTS TypeOK 
PROPERTIES EditIsExact RecordChangesOneRow ConnectionReturned
