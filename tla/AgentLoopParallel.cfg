\* Mode on; the loop stops when the ask has ended.
SPECIFICATION Spec
CONSTANTS
  Ref = {n1}
  NoRef = noref
  Approved = {"search", "retrieve"}
  Parallel = TRUE
  Cap = 2
  MaxTurns = 2
  MaxCalls = 3
  Synthesis = FALSE
CHECK_DEADLOCK FALSE
INVARIANTS
  TypeOK
  AnsweredInOrder
  NoStaleDraft
PROPERTIES
  SiblingsBindNothing
  ForcedReadsNothing
