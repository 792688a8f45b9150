SPECIFICATION Spec
CONSTANTS
  GroupSize = 2
  NumNodes = 3
  Columns = 1
  PropLists <- MCPropLists
  MaxEdges = 3
  MaxBatch = 2
INVARIANTS CsrValid DirectionsAgree
PROPERTIES BatchNeverHalf ImplementsEdgeList
