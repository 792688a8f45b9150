\* One thread, as Database uses the pool: two frames for three pages, so that
\* every second miss evicts, and one I/O error anywhere.
CONSTANTS
  t1 = t1
  t2 = t2
  Threads <- OneThread
  Writers <- OneThread
  Capacity = 2
  MaxPages = 3
  StartPages = 2
  Warm = FALSE
  MaxHandles = 3
  MaxWrites = 2
  MaxErrors = 1
SPECIFICATION Spec
INVARIANTS TypeOK PoolConsistent FullMeansPinned
PROPERTIES FlushAllSaves ImplementsPageStore CallsReturn
