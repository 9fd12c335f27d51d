SPECIFICATION Spec
CONSTANTS
  MinCapacity = 2
  MinCache = 3
  MinMemtable = 2
  Capacity = 5
  Cache = 6
  Memtable = 3
  Batch = 2
  Retention = 1
  MaxSpan = 7
  BeforeEpoch = 3
  Capacities = {1, 2}
  Caches = {2, 3}
  Memtables = {1, 2}
  Batches = {0, 1}
  Retentions = {0, 2, 4, 6, 8}
  None = None
  MaxNow = 3
INVARIANT
  AcceptedAsDocumented
PROPERTY
  RetentionKept
CHECK_DEADLOCK FALSE
