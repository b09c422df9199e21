SPECIFICATION Spec
CONSTANTS
  Deliveries = {d1, d2}
  d1 = d1
  d2 = d2
  Budgets = {1}
  MaxInFlight = 1
  Stoppers = {s1}
  s1 = s1
  FinishTries = 1
  MayCrash = FALSE
  MaxRuns = 1
PROPERTIES ClaimedKeepDraining
SYMMETRY DeliverySymmetry
CHECK_DEADLOCK FALSE
