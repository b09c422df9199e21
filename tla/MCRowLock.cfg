SPECIFICATION Spec
CONSTANTS
  MaxDelay = 2000
  DefaultPublishTTL = 2000
  DefaultMaxAttempts = 2
  TopicNames = {tn1}
  ChannelNames = {cn1}
  Publishers = {w1}
  Claimers = {p1, p2}
  Maintainers = {q1}
  Admins = {a1}
  tn1 = tn1
  cn1 = cn1
  w1 = w1
  p1 = p1
  p2 = p2
  q1 = q1
  a1 = a1
  Opts <- RowLockOpts
  RequeueAt <- NowOnly
  LeaseSec = 1
  ClaimLimit = 2
  ReapLimit = 1
  PurgeLimit = 1
  FreshTTLSec = 1
  MaxNow = 2
  MaxTopicID = 1
  MaxChannelID = 1
  MaxMessageID = 2
  MaxLeases = 2
INVARIANTS PolledStaysClaimable Integrity
PROPERTIES ValidLeaseHeld NoEarlyLoss ImplementsQueue
SYMMETRY SessionSymmetry
CHECK_DEADLOCK FALSE
