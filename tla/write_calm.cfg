SPECIFICATION CalmSpec
CONSTANTS
  NULL = NULL
  UNSLOTTED = UNSLOTTED
  team = team
  home = home
  alpha = alpha
  beta = beta
  unknown = unknown
  Workers = {w1}
  Slots = {team, home}
  Values = {alpha, beta, unknown}
  NonValues = {unknown}
  Turns <- CalmTurns
  ScanTrusted = TRUE
  Cosine <- MCCosine
  Rank <- MCCosine
  DedupeSimilarity = 90
  MaxExisting = 12
  DedupeCandidates = 12
  Lexicon <- MCLexicon
  TransientTtl = 1
  Activities <- MCActivities
  MaxTurns = 4
  MaxTime = 2
  Queries <- AboutBoth
  TopK = 1
CHECK_DEADLOCK FALSE
INVARIANTS
  OneLivePerSlot
  NoNearDuplicates
  EndedStaysEnded
  ExpiryIsMeant
  ActivitiesExpire
  RecallsTheNewestStatement
  RecallIsTopK
PROPERTIES
  ImportanceNeverDrops
  KeepsUserFacts
