SPECIFICATION Spec
CONSTANTS
  NULL = NULL
  Workers = {w1, w2}
  Threads = {t1}
  MaxOps = 3
  MaxPuts = 0
CHECK_DEADLOCK FALSE
INVARIANT UndisturbedForgetIsComplete
