SPECIFICATION Spec
CONSTANTS
  Procs = {p1, p2, p3}
  Nobody = nobody
  Orphan = orphan
  TimeoutStale = TRUE
  MayOutlive = FALSE
CHECK_DEADLOCK FALSE
INVARIANT MutualExclusion
