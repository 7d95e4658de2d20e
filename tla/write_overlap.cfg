SPECIFICATION Spec
CONSTANTS
  NULL = NULL
  UNSLOTTED = UNSLOTTED
  team = team
  home = home
  alpha = alpha
  beta = beta
  unknown = unknown
  Workers = {w1, w2}
  Slots = {team, home}
  Values = {alpha, beta, unknown}
  NonValues = {unknown}
  Turns <- OverlappingTurns
  ScanTrusted = TRUE
  Cosine <- MCCosine
  Rank <- MCCosine
  DedupeSimilarity = 90
  MaxExisting = 2
  DedupeCandidates = 12
  Lexicon <- MCLexicon
  TransientTtl = 1
  Activities <- MCActivities
  MaxTurns = 3
  MaxTime = 1
SYMMETRY WorkerSymmetry
CHECK_DEADLOCK FALSE
INVARIANTS
  TypeOK
  HistoryLeadsForward
  SettledStaysSettled
  OnlyAllowedFacts
