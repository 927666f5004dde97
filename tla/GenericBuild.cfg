SPECIFICATION Spec
CONSTANTS
  Field <- MCField
  Kind <- MCKind
  Normal <- MCNormal
  Type <- MCType
  OverlapPercent = 80
  Builder = {b1, b2}
  Request <- MCRequest
  Provider <- MCProvider
  Requires <- MCRequires
  Builtin <- MCBuiltin
  Forbidden = {"o1"}
  SampleSize = 1
  MaxGenerations = 3
  Question <- MCQuestion
INVARIANTS ProvidersInOrder  OnlyNamesDisclosed ReceiptsHold
CHECK_DEADLOCK FALSE
PROPERTY BookHolds
