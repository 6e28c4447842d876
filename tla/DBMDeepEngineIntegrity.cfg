SPECIFICATION Spec
CONSTANTS
  Engines = {e1, e2}
  Keys = {k1, k2, k3}
  Values = {}
  Undef = undef
  NumTxns = 2
  StaleMod = 2
  MaxBuckets = 2
  Sectors = {s1, s2, s3}
  NoKey = nokey
  NoLoc = noloc
  Deleted = deleted
  Free = free
SYMMETRY Symmetry
CHECK_DEADLOCK FALSE
INVARIANTS
  TypeOK
  HeapIntegrity
  BucketListCompact
