SPECIFICATION ReaderSpec
CONSTANTS
  Loops = {l1}
  Chunk = 2
  Retention = 1
  Interval = 2
  TicksPerSecond = 2
  Lag = 1
  Faults = {"crash"}
  None = None
  MaxRows = 3
  MaxNow = 6
  MaxFiles = 3
  Period = 1
INVARIANT
  AtLeastOnce
CHECK_DEADLOCK FALSE
