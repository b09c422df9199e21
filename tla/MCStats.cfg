SPECIFICATION FairSpec
CONSTANTS
  Coords = {1, 2}
  Procs = {p1}
  Flushers = {f1, f2}
  p1 = p1
  f1 = f1
  f2 = f2
  statsFlushBatch = 1
  RetentionDays = 1
  MaxEvents = 2
  MaxRepeats = 1
  MaxDay = 2
  trendDays = 2
  heatmapScaleFloor = 8
  ClockSkew = 1
INVARIANTS CountsConserved TrendFaithful
PROPERTIES CountsSettle
CHECK_DEADLOCK FALSE
