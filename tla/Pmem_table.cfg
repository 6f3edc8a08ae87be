CONSTANTS
  Libs <- BothLibs
  Counts <- Counts12348
  Bases <- BasesBy16
  MaxTables = 2
SPECIFICATION Spec
INVARIANTS TypeOK InitializedIsDurable RootNamesWholeTable LastTableKept OpensLatestTable
CHECK_DEADLOCK FALSE
