SPECIFICATION FairSpec
CONSTANTS
  W = 4
  P = 1
  Visits = {q1, q2, v1}
  Axum = {q1}
  Actix = {q2}
  Tasks = {t1, t2}
  Arrivals <- MCArrivals
  Codes = {de}
  Unknown = unknown
  Other = other
  Junk = junk
  MaxRegions = 1
  None = None
  Blank = Blank
  Shapes <- MCShapes
  Digest <- MCDigest
  home = home
  away = away
  de = de
  junk = junk
  other = other
  unknown = unknown
  agent = agent
INVARIANTS
  TypeOK
  SketchesExact
  RegionsCapped
  VisitsByCountry
  SeriesAgree
PROPERTIES
  GaugeNeverStale
  GaugesCatchUp
CHECK_DEADLOCK FALSE
