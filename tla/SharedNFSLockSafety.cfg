SPECIFICATION FairSpec
CONSTANTS
  Procs = {p1, p2, p3}
  Nobody = nobody
  Orphan = orphan
  TimeoutStale = FALSE
  MayOutlive = FALSE
CHECK_DEADLOCK FALSE
INVARIANTS
  MutualExclusion
  HolderOwnsLockFile
PROPERTIES
  ImplementsLockService
  LockReturns
