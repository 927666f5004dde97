SPECIFICATION Spec
CONSTANTS
  Node <- MCNode
  Collection = {"logs"}
  Source <- MCSource
  Children <- MCChildren
  RawNode <- MCRawNode
  ClaimId <- MCClaimId
  NewId <- MCNewId
  Relevance = {1, 2}
  Strength = {1, 3}
  MaxGap = 1
  Weight <- MCWeight
  MinPriority = 8
  MaxHits = 1
  Materiality = {TRUE}
  Batches = {2}
  Replied = {"unsupported", "supported", "contradicted"}
  MaxRetrievals = 3
  MaxSearches = 2
  MaxDocuments = 1
  MaxRounds = 3
  StabilityRounds = 2
  LowGainRounds = 2
INVARIANTS WithinBudgets StopReasonHolds
PROPERTIES ClaimsOnlyGain CandidatesOnlyRise Ends
