SPECIFICATION Spec
CONSTANTS
  Engines = {e1, e2}
  Keys = {k1}
  Values = {v1}
  Undef = undef
  NumTxns = 3
  StaleMod = 4
  MaxBuckets = 1
  Sectors = {s1, s2, s3}
  NoKey = nokey
  NoLoc = noloc
  Deleted = deleted
  Free = free
SYMMETRY Symmetry
CHECK_DEADLOCK FALSE
PROPERTY
  CommitAppliesChanges
