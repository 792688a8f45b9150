\* A writer and a reader share a pool in which every page has a frame.
CONSTANTS
  t1 = t1
  t2 = t2
  Threads <- TwoThreads
  Writers <- OneThread
  Capacity = 2
  MaxPages = 2
  StartPages = 1
  Warm = TRUE
  MaxHandles = 2
  MaxWrites = 2
  MaxErrors = 0
SPECIFICATION Spec
INVARIANT HandlesValid
PROPERTIES FlushAllSaves CallsReturn
