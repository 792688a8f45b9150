SPECIFICATION Spec
CONSTANTS
  Inputs <- MCInputs
  BatchSize = 2
  BlockSize = 4
  Paths = {"parallel"}
  RowLens = {2, 3}
  Styles = {"lf"}
  MaxRecords = 3
  MaxRows = 4
INVARIANTS AllRowsRead
