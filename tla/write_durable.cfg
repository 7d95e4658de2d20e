SPECIFICATION CalmSpec
CONSTANTS
  NULL = NULL
  UNSLOTTED = UNSLOTTED
  team = team
  home = home
  alpha = alpha
  beta = beta
  unknown = unknown
  Workers = {w1}
  Slots = {team, home}
  Values = {alpha, beta, unknown}
  NonValues = {unknown}
  Turns <- TemporaryThenDurable
  ScanTrusted = TRUE
  Cosine <- MCCosine
  Rank <- MCCosine
  DedupeSimilarity = 90
  MaxExisting = 12
  DedupeCandidates = 12
  Lexicon <- MCLexicon
  TransientTtl = 1
  Activities <- MCActivities
  MaxTurns = 2
  MaxTime = 1
CHECK_DEADLOCK FALSE
INVARIANT DurableIsKept
