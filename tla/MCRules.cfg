SPECIFICATION Spec
CONSTANTS
  Inputs <- AllInputs
  FileName <- FileNames
  Hash <- PathHashes
  Numerals <- NumberTexts
  Encodings = {"AAE="}
  Times <- TimeTexts
  DefaultLimit = 2
  MaxLimit = 3
INVARIANTS ReadsTheGeneration VersionsHoldTheSchema DiffExplainsTheChange ScanListsWhatIsThere
INVARIANTS PagesPartitionTheRows RecordsAreFound
PROPERTIES NamesTellDatabasesApart
