-------------------------- MODULE MCGenericSession --------------------------
(***************************************************************************)
(* GenericSession on two tickets and two customers whose ids are           *)
(* ObjectIds; a third collection is not indexed, and of the customers only *)
(* the first is in scope, unless the index is built before the question is *)
(* asked.  A card of two members is too large to be read.                  *)
(***************************************************************************)
EXTENDS GenericSession

Fields == [tickets |-> {"customer", "n"}, customers |-> {"tier"}, notes |-> {"about"}]
Doc(c, id, values) == [id |-> id, fields |-> [f \in Fields[c] |-> IF f \in DOMAIN values THEN values[f] ELSE NoValue]]

MCKind ==
  [tickets   |-> [_id |-> "string", customer |-> "string", n |-> "number"],
   customers |-> [_id |-> "objectid", tier |-> "string"],
   notes     |-> [_id |-> "string", about |-> "string"]]

Tick(id, customer) == Doc("tickets", id, [customer |-> customer, n |-> "5"])
Cust(id, tier) == Doc("customers", id, [tier |-> tier])

MCDatabase ==
  [tickets   |-> <<Tick("t1", "c1"), Tick("t2", "c2")>>,
   customers |-> <<Cust("c1", "gold"), Cust("c2", "gold")>>,
   notes     |-> <<Doc("notes", "n1", [about |-> "c1"])>>]

MCDocuments ==
  [tickets   |-> {Tick("t1", "c2"), Tick("t3", "c1")},
   customers |-> {Cust("c1", "free")}]

Node(id, coll, ids, words) == [_id |-> id, coll |-> coll, ids |-> ids, words |-> words]
CardT == <<"card", "tickets">>
CardC == <<"card", "customers">>
ColC  == <<"col", "customers">>
Gone2 == <<"card", "gone">>

Index(alive, customers) ==
  [nodes |-> <<Node(CardC, "customers", <<"c1">>, {"gold"}), Node(CardT, "tickets", <<"t1", "t2">>, {"login"}),
               Node(ColC, "customers", <<>>, {"tier"})>>,
   plans |-> <<[coll |-> "tickets", field |-> "customer", to |-> "customers", to_field |-> "_id"]>>,
   scope |-> [tickets |-> [complete |-> TRUE, ids |-> {}], customers |-> customers],
   collections |-> {"tickets", "customers"}, live |-> alive]

MCIndexes == { Index(TRUE, [complete |-> FALSE, ids |-> {"c1"}]), Index(FALSE, [complete |-> TRUE, ids |-> {}]) }

MCNames == <<"customers", "tickets">>
MCCards(c, docs) ==
  IF docs = <<>> THEN <<>>
  ELSE <<Node(IF c = "tickets" THEN CardT ELSE CardC, c, [i \in DOMAIN docs |-> docs[i].id],
              IF c = "tickets" THEN {"login"} ELSE {"gold"})>>
MCPlans(docs) ==
  IF \E t \in ToSet(docs["tickets"]), c \in ToSet(docs["customers"]) : t.fields["customer"] = c.id
  THEN <<[coll |-> "tickets", field |-> "customer", to |-> "customers", to_field |-> "_id"]>> ELSE <<>>

NoFilter == [clauses |-> {}, forbidden |-> FALSE]
Clause(f, op, text, kind) == [field |-> f, op |-> op, values |-> {[text |-> text, kind |-> kind]}]
Call(tool, words, ids, coll, clauses, limit) ==
  [tool |-> tool, words |-> words, scope |-> NoScope, near |-> <<>>, ids |-> ids, coll |-> coll,
   filter |-> [NoFilter EXCEPT !.clauses = clauses], limit |-> limit]

Search(words, limit) == Call("search_information", words, <<>>, NoName, {}, limit)
Retrieve(words, ids, limit) == Call("retrieve_evidence", words, ids, NoName, {}, limit)
Query(coll, clauses, limit) == Call("query_documents", {}, <<>>, coll, clauses, limit)

MCTurns ==
  { <<Search({"login"}, 0)>>, <<Search({"gold", "c1"}, 1)>>,
    <<[Search({"login"}, 2) EXCEPT !.scope = CardT, !.near = <<CardT, CardC>>]>>,
    <<Retrieve({}, <<CardT, CardC>>, 0)>>, <<Retrieve({"t2"}, <<CardT, ColC>>, 2)>>,
    <<Retrieve({}, <<Gone2, Hop("customers", "_id", "c1"), Hop("customers", "_id", "c2")>>, 0)>>,
    <<Retrieve({}, <<ColC, <<"hop">>>>, 0)>>,
    <<Retrieve({"gold"}, <<Hop("notes", "about", "c1"), ColC>>, 3)>>,
    <<Query("tickets", {Clause("customer", "eq", "c1", "string")}, 0),
      Query("customers", {Clause("_id", "eq", "c1", "string")}, 0)>>,
    <<Query("tickets", {Clause("n", "in", "5", "number"), Clause("customer", "other", "c1", "string")}, 1),
      [Query("tickets", {}, 1) EXCEPT !.filter.forbidden = TRUE]>>,
    <<Query("notes", {}, 0), Search({"login"}, 1)>> }

MCTextOrder == <<"c1", "c2", "n1", "t1", "t2", "t3">>
MCCitedIds == { <<>>, <<"c1">>, <<"t2", "x">> }
MCQuestions == { {}, {"t1", "c1"} }
=============================================================================
