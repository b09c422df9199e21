SPECIFICATION Spec
CONSTANTS
  MaxDelay = 2000
  DefaultPublishTTL = 2000
  DefaultMaxAttempts = 1
  TopicNames = {tn1}
  ChannelNames = {cn1, cn2}
  Claimers = {p1}
  Purgers = {q1, q2}
  tn1 = tn1
  cn1 = cn1
  cn2 = cn2
  p1 = p1
  q1 = q1
  q2 = q2
  Opts <- AdminOpts
  RequeueAt <- NowOnly
  LeaseSec = 1
  ClaimLimit = 2
  ReapLimit = 1
  PurgeLimit = 1
  FreshTTLSec = 1
  claimMaxAttempts = 1
  MaxNow = 3
  MaxTopicID = 2
  MaxChannelID = 2
  MaxMessageID = 1
  MaxLeases = 3
  MaxStall = 1
INVARIANTS Integrity OrphansStayOrphans StatsConserved
PROPERTIES NoEarlyLoss ImplementsQueue
SYMMETRY PurgerSymmetry
CHECK_DEADLOCK FALSE
