SPECIFICATION Spec
CONSTANTS
  NULL = NULL
  Workers = {w1, w2}
  Threads = {t1, t2}
  MaxOps = 3
  MaxPuts = 1
CHECK_DEADLOCK FALSE
INVARIANTS
  TypeOK
  RepliesFollowTheirMessage
  UndisturbedForgetLeavesNoMemory
PROPERTY LegacyBlocksErase
