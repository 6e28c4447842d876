SPECIFICATION Spec
CONSTANTS
  t1 = t1
  t2 = t2
  t3 = t3
  v1 = v1
  v2 = v2
  x1 = x1
  x2 = x2
  Threads = {t1, t2}
  Main = t1
  Vecs = {v1}
  Insts = {x1}
  MaxLen = 1
  Access <- OnlyMain
CHECK_DEADLOCK FALSE
INVARIANT
  NoUseAfterFree
