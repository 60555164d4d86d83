CONSTANTS
  Relations <- MCRelationsAndTables
  Values <- MCValues
  Mutators <- MCMutators
  Keys <- MCKeys
  OvsdbTables <- MCOvsdbTables
  ColumnValues <- MCColumnValues
  Uuids = {7, 400}
  NumberBits = 8
  UuidBits = 16
  Prefixed <- MCPrefixed
SPECIFICATION SyncSpec
INVARIANTS
  TypeOK
  CopyFollows
  DifferencesApply
  ServersAgree
