SPECIFICATION Spec
CONSTANTS
  ann = ann
  bob = bob
  talk = talk
  Workers = {w1, w2}
  Users = {ann, bob}
  Threads = {talk}
  NULL = NULL
  BAD = BAD
  Deployments <- MCDeployments
  Stores <- MCStores
  Legacies <- MCLegacies
  MemoryLimit = 3
  HeldLimit = 1
  MaxRequests = 2
  MaxTime = 1
SYMMETRY Symmetry
CHECK_DEADLOCK FALSE
INVARIANTS
  TypeOK
  OwnersOnly
  RefusedRequestsChangeNothing
  ListingAddsUp
  ShownIsWhatIsErased
