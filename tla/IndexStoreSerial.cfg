\* One save at a time, each failing or crashing anywhere, beside a reader.
SPECIFICATION Spec
CONSTANTS
  b1 = b1
  b2 = b2
  c1 = c1
  c2 = c2
  col = col
  t1 = t1
  t2 = t2
  Build = {b1, b2}
  Node = {c1, c2, col}
  Text = {t1, t2}
  Legacy = legacy
  Reader = {r1}
  Model = {m1, m2}
  NoModel = none
  NoCatalog = nocatalog
  Serial = TRUE
  LostAck = FALSE
  Index <- MCSmallIndex
INVARIANTS
  TypeOK
  ActiveIndexComplete
  UnchangedCatalogMeansWhole
PROPERTIES
  DoneSavesSweep
  ImplementsPublishedIndex
