SPECIFICATION FairSpec
CONSTANTS
  Loops = {"reap", "stats"}
  Callers = {u1}
  u1 = u1
  MaxCoord = 2
  statsFlushBatch = 2
  MaxRuns = 2
INVARIANTS TypeOK NoLeakedRun FinalFlushAlone NoFlushDeadlock
PROPERTIES StoppedEnds
CHECK_DEADLOCK FALSE
