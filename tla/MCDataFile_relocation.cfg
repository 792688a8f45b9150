SPECIFICATION Spec
CONSTANTS
  PageSize = 8
  Lengths = {4, 5}
  StartVersions = {3}
  MaxUpdates = 1
  MaxStops = 1
INVARIANT SectionsWhole
