SPECIFICATION FairSpec
CONSTANTS
  Keys = {k1, k2, k3}
  Stamped = {k1, k2}
  Orders = {"insertion", "recency"}
  PageSize = 2
CHECK_DEADLOCK FALSE
INVARIANTS
  TypeOK
  UndisturbedDeleteIsExact
  OnlyDeletesHideRecords
PROPERTY DeleteEnds
