SPECIFICATION FetchSpec
CONSTANTS
  Engines = {e1, e2}
  Keys = {k1, k2}
  Values = {v1}
  Undef = undef
  NumTxns = 2
  StaleMod = 2
  MaxBuckets = 2
  Sectors = {s1, s2, s3}
  NoKey = nokey
  NoLoc = noloc
  Deleted = deleted
  Free = free
  NoFetch = nofetch
CHECK_DEADLOCK FALSE
INVARIANT
  HeapIntegrity
