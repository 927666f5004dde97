-------------------------- MODULE MCNavMaintenance --------------------------
(***************************************************************************)
(* NavMaintenance on a shop of two customers, a log line and four tickets, *)
(* one ticket and the log line another tenant's.  Tickets share words so   *)
(* that signatures, shards and splits all occur.                           *)
(***************************************************************************)
EXTENDS NavMaintenance

Doc(id, tenant, customer, month, seq, words, length) ==
  [_id |-> id, tenant |-> tenant, customer |-> customer, month |-> month, seq |-> seq,
   words |-> words, label |-> seq, length |-> length]

MCIdf == <<<<10>>, <<14, 10>>, <<17, 13, 10>>, <<19, 15, 12, 10>>, <<21, 17, 14, 12, 10>>>>
MCDigest == [id \in {"cust_1", "cust_2", "t1", "t2", "t3", "t4", "t5", "t6"} |->
               CASE id \in {"t1", "t5", "cust_1"} -> 4 [] OTHER -> 5]

MCSource ==
  [customers |-> <<Doc("cust_1", "A", "cust_1", "", 1, <<1>>, 1), Doc("cust_2", "A", "cust_2", "", 2, <<2>>, 2)>>,
   tickets   |-> <<Doc("t1", "A", "cust_1", "may", 1, <<1, 0, 2>>, 3), Doc("t2", "A", "cust_1", "may", 2, <<1, 2, 3>>, 0),
                   Doc("t3", "A", "", "", 3, <<3>>, 5), Doc("t4", "B", "cust_2", "may", 4, <<1>>, 1)>>,
   logs      |-> <<Doc("t5", "B", "cust_2", "may", 5, <<2>>, 1)>>]

T3Moved == Doc("t3", "A", "cust_2", "may", 3, <<1, 2>>, 1)
MCEdit ==
  { [coll |-> "tickets", doc |-> T3Moved, drop |-> FALSE],
    [coll |-> "tickets", doc |-> T3Moved, drop |-> TRUE],
    [coll |-> "logs", doc |-> Doc("t6", "B", "cust_2", "may", 6, <<2>>, 1), drop |-> FALSE] }

BuildOf(tenant, collections, strategy, target, below) ==
  [kind |-> "build", tenant |-> tenant, collections |-> collections, strategy |-> strategy,
   target |-> target, below |-> below]

MCJob ==
  { BuildOf("A", <<"customers">>, "entity", 0, 2),
    BuildOf("A", <<"tickets">>, "topical", 1, 0),
    BuildOf("A", <<"tickets">>, "semantic", 1, 0),
    BuildOf("B", <<"tickets", "logs">>, "entity", 0, 0),
    [kind |-> "dirty", tenant |-> "A", coll |-> "tickets", changed |-> {"t3"}, target |-> 2],
    [kind |-> "chunks", tenant |-> "A", coll |-> "tickets", changed |-> {"t1", "t3"}],
    [kind |-> "rag", tenant |-> "A", coll |-> "tickets"] }

Ask(words, ids, predicate, current, concept) ==
  [words |-> words, ids |-> ids, predicate |-> predicate, current |-> current, concept |-> concept]
Read(tenant, ask, mode, ids, cap, coll, filter, indexed, embed, fusion) ==
  [tenant |-> tenant, ask |-> ask, mode |-> mode, ids |-> ids, cap |-> cap, limit |-> 2,
   collections |-> <<"customers", "tickets", "logs">>,
   coll |-> coll, filter |-> filter, indexed |-> indexed, embed |-> embed, fusion |-> fusion]

MCQuestion ==
  { Read("A", Ask({1}, FALSE, FALSE, FALSE, FALSE), "auto",
         <<ColId("tickets"), NoNode, GroupId("tickets", <<"customer", "cust_1">>), DbId>>, 2,
         "customers", AnyDocument, FALSE, "refused", "recognized"),
    Read("A", Ask({2, 3}, TRUE, FALSE, FALSE, TRUE), "hybrid",
         <<DocId("customers", "cust_2"), ColId("customers"), ColId("tickets")>>, 4,
         "tickets", [AnyDocument EXCEPT !.customer = "cust_1"], TRUE, "accepted", "unsupported") }

MCSymmetry == Permutations(Worker)
=============================================================================
