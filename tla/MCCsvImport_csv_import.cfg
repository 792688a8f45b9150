SPECIFICATION Spec
CONSTANTS
  Inputs <- MCInputs
  BatchSize = 2
  BlockSize = 4
  Paths = {"streaming", "sequential", "parallel"}
  RowLens = {1, 2}
  Styles = {"lf", "crlf", "blank", "cr"}
  MaxRecords = 3
  MaxRows = 4
INVARIANTS LoadsFile FailureLeavesPrefix CountsAddUp
PROPERTY LoadReturns
