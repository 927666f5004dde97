SPECIFICATION Spec
CONSTANTS
  Kind <- MCKind
  NoValue = "no value"
  NamedId = {"t1", "t2", "t3", "c1", "c2"}
  TextOrder <- MCTextOrder
  PrefetchLimit = 1
  DocumentWeight = 4
  NodeWeight = 1
  RawCap = 8
  LastRoundCap = 6
  ReceiptCap = 4
  TokenBudget = 18
  Indexes <- MCIndexes
  Names <- MCNames
  Limits = {0, 1}
  Cards <- MCCards
  Plans <- MCPlans
  Database <- MCDatabase
  Documents <- MCDocuments
  Questions <- MCQuestions
  Turns <- MCTurns
  CitedIds <- MCCitedIds
  MaxTurns = 2
  MaxEdits = 1
  Synthesis = TRUE
INVARIANTS TranscriptHolds 
PROPERTIES ReadsAccounted HopsHold
CHECK_DEADLOCK FALSE
