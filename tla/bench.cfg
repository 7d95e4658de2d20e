SPECIFICATION MCSpec
CHECK_DEADLOCK FALSE
CONSTANTS
  Files <- MCFiles
  Selections <- MCSelections
  Limits <- MCLimits
  Floors <- MCFloors
  Providers = {"stub", "bedrock"}
  UNSLOTTED = UNSLOTTED
  TopK = 2
  Overfetch = 3
  MaxExisting = 4
  MaxListed <- MCMaxListed
  ExternalReplies <- MCReplies
  Datasets <- MCDatasets
  REFUSAL = "dunno"
INVARIANTS
  TypeOK
  CasesDoNotLeak
  ControlKnowsNothing
  ConflictTellsWritersApart
  RetiredIsNotClutter
  SampleIsBalanced
  GateIsSound
  AnswersAreCurrent
  ConversationsStandAlone
