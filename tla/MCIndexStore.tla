---------------------------- MODULE MCIndexStore ----------------------------
(* Instance of IndexStore for TLC. *)
EXTENDS IndexStore

CONSTANTS b1, b2, c1, c2, col, t1, t2

Card(n, t) == [node |-> n, text |-> t]

\* Two cards; one card whose text has changed since.
MCIndex ==
  {[cards |-> {Card(c1, t1), Card(c2, t1)}, cols |-> {Card(col, t1)}],
   [cards |-> {Card(c1, t2)}, cols |-> {Card(col, t1)}]}

\* One card, with one text or the other, for the larger runs.
MCSmallIndex == {[cards |-> {Card(c1, t)}, cols |-> {Card(col, t1)}] : t \in {t1, t2}}
=============================================================================
