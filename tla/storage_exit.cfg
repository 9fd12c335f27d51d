SPECIFICATION StorageSpec
CONSTANTS
  Loops = {l1, l2}
  l1 = l1  l2 = l2
  Slot = l1
  Chunk = 1
  Retention = 1
  Interval = 1
  TicksPerSecond = 2
  Lag = 1
  Faults = {}
  None = None
  MaxRows = 2
  MaxNow = 4
  MaxFiles = 2
  Stoppers = {s1, s2}
  Sentinel = Sentinel
  Bound = 2
INVARIANTS
  TypeOK
  ExpiredOnly
  ExitCost
SYMMETRY StopperSymmetry
CHECK_DEADLOCK FALSE
