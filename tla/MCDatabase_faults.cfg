SPECIFICATION Spec
CONSTANTS
  NodeTables = {A}
  RelTables = {R}
  Endpoints <- MCEndpoints
  Keys = {k1, k2}
  RowShapes = {"complete", "incomplete"}
  LargeRows = TRUE
  MultiPage = {"catalog", "rels"}
  TornTails = {"partial", "stub"}
  MaxStmts = 3
  MaxImports = 1
  MaxCrashes = 2
INVARIANTS TypeOK DurabilityInv
PROPERTY TruncatesOnlySaved
CHECK_DEADLOCK FALSE
