SPECIFICATION FairSpec
CONSTANTS
  c1 = c1  c2 = c2  c3 = c3  c4 = c4
  i1 = i1  i2 = i2  p1 = p1  s1 = s1  s2 = s2
  Calls = {c1}
  Initers = {i1, i2}
  FullInits = {i1}
  Spawners = {p1}
  Stoppers = {s1,s2}
  Capacity = 1
  BatchRows = 2
  Attempts = 1
  Sentinel = Sentinel
  None = None
CHECK_DEADLOCK FALSE
INVARIANTS KeyspaceOwner InitTaskStops
PROPERTIES ShutdownReturns SamplesDrain
