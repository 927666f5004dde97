SPECIFICATION Spec
CONSTANTS
  Idf <- MCIdf
  MinSide = 1
  MaxPrototypes = 2
  MaxGroups = 2
  MaxDepth = 2
  Digest <- MCDigest
  RrfK = 60
  CustomerId = {"cust_1", "cust_2"}
  ChildPreview = 6
  RelatedLimit = 2
  RelatedEntityCap = 2
  Worker = {w1, w2}
  Job <- MCJob
  Source <- MCSource
  Edit <- MCEdit
  MaxEdits = 1
  MaxCustomerNodes = 2
  ChunkSize = 2
  ChunkOverlap = 1
  Question <- MCQuestion
SYMMETRY MCSymmetry
INVARIANTS BuildsRight MaintenanceForgetsNothing ChunksFollowDocuments 
CHECK_DEADLOCK FALSE
