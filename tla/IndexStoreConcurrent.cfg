\* Two saves at once beside a reader, with lost acknowledgements.
SPECIFICATION Spec
CONSTANTS
  b1 = b1
  b2 = b2
  c1 = c1
  c2 = c2
  col = col
  t1 = t1
  t2 = t2
  Build = {b1, b2}
  Node = {c1, c2, col}
  Text = {t1, t2}
  Legacy = legacy
  Reader = {r1}
  Model = {m1}
  NoModel = none
  NoCatalog = nocatalog
  Serial = FALSE
  LostAck = TRUE
  Index <- MCSmallIndex
INVARIANTS
  ReadyVectorsMatch
