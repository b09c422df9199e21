SPECIFICATION Spec
CONSTANTS
  Channels = {1, 2}
  Browsers = {o1}
  Operators = {o1, o2}
  o1 = o1
  o2 = o2
  deadPageSize = 1
  MaxInt64 = 3
INVARIANTS BrowseExact DeathsAccounted
PROPERTIES ShowsExactlyTheDead
CHECK_DEADLOCK FALSE
