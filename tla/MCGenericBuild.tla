--------------------------- MODULE MCGenericBuild ---------------------------
(***************************************************************************)
(* GenericBuild on a shop of orders and customers in two versions with one *)
(* schema, and a warehouse; a schema model that invents a field and a      *)
(* collection; an extra provider in a circle and one that needs nobody.    *)
(***************************************************************************)
EXTENDS GenericBuild

MCField  == {"_id", "title", "code", "customer_id", "k12345", "dynamic_key"}
MCKind   == [_id |-> "reference", title |-> "hinted", code |-> "plain", customer_id |-> "reference",
             k12345 |-> "plain", dynamic_key |-> "plain"]
MCNormal == [f \in MCField |-> IF f = "k12345" THEN "dynamic_key" ELSE f]
MCValue  == {"o1", "o2", "c1", "c2", "wool", "warm", "red", "may"}
MCType   == [v \in MCValue |-> IF v = "may" THEN "date" ELSE "string"]

Order(id, customer, title) == [_id |-> id, customer_id |-> customer, title |-> title]

Shop == [orders    |-> <<Order("o1", "c1", "wool"), Order("o2", "c1", "warm")>>,
         customers |-> <<[_id |-> "c1", title |-> "warm", k12345 |-> "red"]>>]
Shop2 == [orders    |-> <<Order("o2", "c2", "warm")>>,
          customers |-> <<[_id |-> "c1", title |-> "red", k12345 |-> "red"]>>]
Warehouse == [items |-> <<[_id |-> "o1", code |-> "red", title |-> "wool"], [_id |-> "o2", code |-> "may", title |-> "wool"]>>]

MCProvider == {"schema_profile", "schema_llm", "lexical", "relationship_probe", "left", "right", "lone", "ghost"}
MCBuiltin  == {"schema_profile", "schema_llm", "lexical", "relationship_probe"}
MCRequires == [p \in MCProvider |->
  CASE p \in {"schema_llm", "relationship_probe"} -> {"schema_profile"}
    [] p = "left" -> {"right"} [] p = "right" -> {"left"} [] p = "lone" -> {"ghost", "lexical"}
    [] OTHER -> {}]

NoModel == [kind |-> "none", claims |-> {}, routes |-> {}]
Invented == [kind |-> "replies",
             claims |-> {Claim("orders", "title", "observed"), Claim("orders", "k12345", "observed")},
             routes |-> {Route("orders", "title", "nowhere", "validated"),
                         Route("orders", "title", "customers", "validated")}]

Ask(docs, enabled, llm, judge, fail) ==
  [documents |-> docs, enabled |-> enabled, llm |-> llm, judge |-> judge,
   use_cache |-> TRUE, force_fail |-> fail]

Default == <<"schema_profile", "schema_llm", "lexical", "relationship_probe">>
MCRequest ==
  { Ask(Shop, Default, Invented, "title", FALSE),
    Ask(Shop2, Default, Invented, "title", FALSE),
    Ask(Warehouse, Default, Invented, "raises", TRUE),
    [Ask(Warehouse, <<"relationship_probe", "schema_llm", "schema_profile">>, [NoModel EXCEPT !.kind = "raises"], "none", FALSE)
       EXCEPT !.use_cache = FALSE],
    Ask(Shop, <<"left", "lone", "right", "lexical">>, NoModel, "none", FALSE) }

Asked(counting, mentioned, tokens, words, month) ==
  [counting |-> counting, mentioned |-> mentioned, tokens |-> tokens, words |-> words, month |-> month]
MCQuestion ==
  { Asked(TRUE, {"orders"}, {"c2"}, {}, {}), Asked(TRUE, {"items"}, {}, {}, {"may"}),
    Asked(FALSE, {}, {"o1"}, {"wool"}, {}), Asked(FALSE, {}, {"c1"}, {"wool"}, {}),
    Asked(FALSE, {"orders", "customers"}, {"o1"}, {}, {}), Asked(FALSE, {}, {}, {"wool", "warm"}, {}),
    Asked(FALSE, {"customers"}, {"zz"}, {"warm"}, {}), Asked(FALSE, {}, {}, {"zz"}, {}) }
=============================================================================
