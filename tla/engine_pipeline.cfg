SPECIFICATION Spec
CONSTANTS
  c1 = c1  c2 = c2  c3 = c3  c4 = c4
  i1 = i1  i2 = i2  p1 = p1  s1 = s1  s2 = s2
  Calls = {c1,c2,c3,c4}
  Initers = {i1}
  FullInits = {i1}
  Spawners = {}
  Stoppers = {s1}
  Capacity = 2
  BatchRows = 2
  Attempts = 2
  Sentinel = Sentinel
  None = None
CHECK_DEADLOCK FALSE
SYMMETRY CallSymmetry
INVARIANTS TypeOK SampleOnce DropAccounting ShutdownFlushes ShutdownDurable OnlyStragglersLost
PROPERTIES QuietAfterShutdown PipeSpec
