SPECIFICATION Spec
CONSTANTS
  PageSize = 8
  Lengths = {4, 5, 13}
  StartVersions = {0, 2, 3}
  MaxUpdates = 2
  MaxStops = 2
INVARIANTS RangesSound SaveNeverFails OldOrNew
PROPERTY ReopenLoads
