SPECIFICATION Spec
CONSTANTS
  NodeTables = {A}
  RelTables = {R}
  Endpoints <- MCEndpoints
  Keys = {k1, k2}
  RowShapes = {"complete"}
  LargeRows = FALSE
  MultiPage = {}
  TornTails = {}
  MaxStmts = 5
  MaxImports = 0
  MaxCrashes = 2
INVARIANTS UniqueKeys AckedNodesVisible EdgesRecovered ReopenRestores
PROPERTY CallsReturn
CHECK_DEADLOCK FALSE
