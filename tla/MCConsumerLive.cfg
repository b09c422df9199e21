SPECIFICATION FairSpec
CONSTANTS
  Deliveries = {d1, d2}
  d1 = d1
  d2 = d2
  Budgets = {2}
  MaxInFlight = 1
  Stoppers = {s1}
  s1 = s1
  FinishTries = 2
  MayCrash = FALSE
  MaxRuns = 1
PROPERTIES GoneOnlyBySuccess EveryDeliveryEnds CancelledRunEnds
CHECK_DEADLOCK FALSE
