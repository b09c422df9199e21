SPECIFICATION Spec
CONSTANTS
  MaxDelay = 2000
  DefaultPublishTTL = 2000
  DefaultMaxAttempts = 1
  TopicNames = {tn1}
  ChannelNames = {cn1}
  Claimers = {p1, p2}
  Purgers = {q1}
  tn1 = tn1
  cn1 = cn1
  p1 = p1
  p2 = p2
  q1 = q1
  Opts <- QueueOpts
  RequeueAt <- NowOnly
  LeaseSec = 1
  ClaimLimit = 2
  ReapLimit = 1
  PurgeLimit = 1
  FreshTTLSec = 1
  claimMaxAttempts = 2
  MaxNow = 3
  MaxTopicID = 1
  MaxChannelID = 1
  MaxMessageID = 2
  MaxLeases = 3
  MaxStall = 1
INVARIANTS TypeOK LeaseFencing AckIsFinal PoisonBound
PROPERTIES ValidLeaseHeld LeaseInWindow
SYMMETRY ClaimerSymmetry
CHECK_DEADLOCK FALSE
