SPECIFICATION Spec
CONSTANTS
  Threads = {t1, t2}
  Readers = {r1}
  VersionLimit = 3
INVARIANTS Exclusive OptimisticReadSound
PROPERTIES DirtyNeverOverwritten LockFree
