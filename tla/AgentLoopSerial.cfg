\* Mode off or shadow, under fairness; the loop stops when the ask has ended.
SPECIFICATION FairSpec
CONSTANTS
  Ref = {n1}
  NoRef = noref
  Approved = {"search", "retrieve"}
  Parallel = FALSE
  Cap = 2
  MaxTurns = 3
  MaxCalls = 2
  Synthesis = TRUE
CHECK_DEADLOCK FALSE
INVARIANTS
  ReadOrSeenRefusal
  TurnBudget
  StatusTellsHow
PROPERTIES
  Ends
