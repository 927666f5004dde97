--------------------------- MODULE MCAdaptiveLoop ---------------------------
(***************************************************************************)
(* AdaptiveLoop on three nodes: a database, a collection below it and a    *)
(* group below that.  The database node has no collection to read.         *)
(***************************************************************************)
EXTENDS AdaptiveLoop

MCNode     == {"db", "coll", "group"}
MCSource   == [n \in MCNode |-> IF n = "db" THEN NoCollection ELSE "logs"]
MCChildren == [n \in MCNode |-> CASE n = "db" -> {"coll"} [] n = "coll" -> {"group"} [] OTHER -> {}]
MCRawNode  == {"coll", "group"}
MCClaimId  == {"C1", "N2"}
MCNewId    == [k \in {2} |-> "N2"]
MCWeight   == [relevance |-> 3, gap |-> 3, diversity |-> 1, fixed |-> 1]
=============================================================================
