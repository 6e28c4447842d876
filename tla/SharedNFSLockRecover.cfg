SPECIFICATION FairSpec
CONSTANTS
  Procs = {p1, p2}
  Nobody = nobody
  Orphan = orphan
  TimeoutStale = TRUE
  MayOutlive = TRUE
CHECK_DEADLOCK FALSE
PROPERTY DeadLockBroken
