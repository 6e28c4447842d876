SPECIFICATION FairSpec
CONSTANTS
  t1 = t1
  t2 = t2
  t3 = t3
  v1 = v1
  v2 = v2
  x1 = x1
  x2 = x2
  Threads = {t1, t2, t3}
  Main = t1
  Vecs = {v1, v2}
  Insts = {x1, x2}
  MaxLen = 2
  Access <- Apart
CHECK_DEADLOCK FALSE
INVARIANTS
  TypeOK
  NoLostPush
  RegistryExact
  NoLeak
  NoDangling
PROPERTY
  CallReturns
