SPECIFICATION Spec
CONSTANTS
  Variables = {"a", "b"}
  Schemas <- MCSchemas
  RelTypes = {"KNOWS"}
  Labels = {"Person", "Missing"}
  RelNames = {"KNOWS", "LIKES"}
  PathBounds <- MCPathBounds
  Expressions <- MCExpressions
  Depth <- MCDepth
  Clauses <- MCClauses
  Infinity = 2
  MaxNodes = 2
  MaxRels = 2
INVARIANTS DefiniteRowsKept ColumnsKept
PROPERTY FixedPoint
CHECK_DEADLOCK FALSE
