SPECIFICATION FairSpec
CONSTANTS
  TopicNames = {tn1}
  ChannelNames = {cn1, cn2}
  cn2 = cn2
  Procs = {p1}
  Goroutines = {g1, g2}
  tn1 = tn1
  cn1 = cn1
  p1 = p1
  g1 = g1
  g2 = g2
  MaxTopicID = 2
  MaxChannelID = 2
INVARIANTS MemoNeverWrong
PROPERTIES PublishHeals
CHECK_DEADLOCK FALSE
