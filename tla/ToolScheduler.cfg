\* Two batches on two threads and one permit; handlers may run for ever.
\* The instance has finitely many batches: it stops when all have returned.
SPECIFICATION FairSpec
CONSTANTS
  Batch = {b1, b2}
  Size = 2
  Thread = {t1, t2}
  Permits = 1
  MaxTime = 1
CHECK_DEADLOCK FALSE
INVARIANTS
  TypeOK
  ResultsInRequestOrder
  DeadlineMeansLate
  PermitsConserved
PROPERTIES
  
  BatchesReturn
  ThreadsComeBack
