SPECIFICATION Spec
CONSTANTS
  Deliveries = {d1, d2}
  d1 = d1
  d2 = d2
  Budgets = {2}
  MaxInFlight = 1
  Stoppers = {s1}
  s1 = s1
  FinishTries = 1
  MayCrash = TRUE
  MaxRuns = 2
INVARIANTS DispatchedOnce SendNeverBlocks ChannelDrained
SYMMETRY DeliverySymmetry
CHECK_DEADLOCK FALSE
