SPECIFICATION FairSpec
CONSTANTS
  NULL = NULL
  Workers = {w1}
  Threads = {t1, t2}
  MaxOps = 4
  MaxPuts = 1
CHECK_DEADLOCK FALSE
INVARIANTS
  TranscriptIndexed
  UserForgetIsComplete
  ThreadForgetIsComplete
  ReturnedTurnIsKept
PROPERTY ForgetUserEnds
