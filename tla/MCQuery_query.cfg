SPECIFICATION Spec
CONSTANTS
  Inputs <- MCInputs
  IntLimit = 8
  FloatExact = 4
  AsFloat <- MCAsFloat
  Bounds <- MCBounds
  TwoTables <- MCOneTable
  PathFilters <- MCNoFilter
  MaxRows = 3
  OrderValues <- MCOrderValues
INVARIANTS PathsExact WindowOfSorted AggregatesSound
PROPERTY QueryReturns
