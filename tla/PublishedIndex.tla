--------------------------- MODULE PublishedIndex ---------------------------
(***************************************************************************)
(* What the store promises: one published index, replaced in a single      *)
(* step by another whole one, and otherwise left alone - whatever fails or *)
(* crashes on the way.                                                     *)
(***************************************************************************)
EXTENDS IndexData

CONSTANT NoCatalog

VARIABLE visible

\* A whole index: all its cards, and a vector for each node when it was
\* embedded.
Whole(i, m) ==
  [cards   |-> i.cards,
   cols    |-> i.cols,
   model   |-> m,
   vectors |-> IF m = NoModel THEN {} ELSE VectorsOf(NavNodes(i), m)]

Init == visible \in {NoCatalog} \cup {Whole(i, NoModel) : i \in Index}

Publish == \E i \in Index, m \in Model \cup {NoModel} : visible' = Whole(i, m)

Spec == Init /\ [][Publish]_visible
=============================================================================
