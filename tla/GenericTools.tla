---------------------------- MODULE GenericTools ----------------------------
(***************************************************************************)
(* The tools over a saved generic index: GenericSurface of                 *)
(* app/retrieval/generic_tools.py, the live reader behind it (MongoReader  *)
(* of app/indexing/signals/store.py) and what app/retrieval/tool_policy.py *)
(* lets a call name.                                                       *)
(*                                                                         *)
(* A database gives each collection its documents in natural order; a      *)
(* document is [id, fields] and every value is a text whose type in the    *)
(* database is Kind's.  The reader turns an ObjectId into its text, so a   *)
(* value that went through it is a [text, kind] of kind string or number.  *)
(* A text with focus lines is its document's reference; dates and the      *)
(* comparisons $gt, $gte, $lt and $lte are left out.  Words are compared   *)
(* whole, and the nodes of an index are listed in the order of their ids.  *)
(***************************************************************************)
EXTENDS Lists

CONSTANTS
  Kind,            \* Kind[collection][field]: "string", "number" or "objectid"
  NoValue,         \* a field the document does not have
  NamedId,         \* texts _NAMED_ID matches that hold a digit
  TextOrder,       \* the ids, as Python sorts them
  PrefetchLimit    \* MEMBER_PREFETCH_LIMIT

ASSUME ToolsAssumption == PrefetchLimit \in Nat \ {0} /\ IsList(TextOrder)

NoName  == "none"         \* a collection the call does not give
NoScope == <<"none">>     \* a node it does not give

Value(d, f) == IF f = "_id" THEN d.id ELSE d.fields[f]
Text(d) == {d.id} \cup {d.fields[f] : f \in DOMAIN d.fields}
Overlap(words, texts) == Cardinality(words \cap texts)
Ref(coll, d) == [coll |-> coll, id |-> d.id]
Payloads(coll, docs) == [i \in DOMAIN docs |-> Ref(coll, docs[i])]
Plain(coll, f, text) == [text |-> text, kind |-> IF Kind[coll][f] = "number" THEN "number" ELSE "string"]
CapOf(asked, otherwise, most) == Larger(1, Smaller(IF asked = 0 THEN otherwise ELSE asked, most))

-----------------------------------------------------------------------------
(* Finds.  A clause is [field, op, values]: op is "eq", "in", or "other"   *)
(* for an operator that is not supported.                                  *)

\* _id_variants: an ObjectId is sought under its text too.
IdVariantsOfText == {"string"}      \* mutant: no ObjectId is made of a text

IdVariants == {"string", "objectid"}

\* {_id: {$in: ids}} where ids are texts: an id that is a number is none of them.
IdIn(coll, d, ids) == d.id \in ids /\ Kind[coll]["_id"] \in IdVariants

\* _field_ops: only a bare value of _id has variants; an operator's values go as they came.
MongoClause(coll, d, c) ==
  \/ c.op = "other"
  \/ \E v \in c.values :
       /\ v.text = Value(d, c.field)
       /\ IF v.kind = "number" THEN Kind[coll][c.field] = "number"
          ELSE Kind[coll][c.field] \in (IF c.field = "_id" /\ c.op = "eq" THEN IdVariants ELSE {"string"})

\* _matches: what Python checks again compares texts, and refuses other operators.
Matches(d, c) == c.op # "other" /\ \E v \in c.values : v.text = Value(d, c.field)

\* A collection the index does not know has no scope, so all of it may be read.
Allowed(index, coll, d) ==
  coll \in index.collections => index.scope[coll].complete \/ IdIn(coll, d, index.scope[coll].ids)

\* MongoReader.fetch: the limit is Mongo's, so the checks after it can leave fewer.
Fetch(index, db, coll, ids, clauses, limit) ==
  LET found == Filter(db[coll], LAMBDA d : /\ Allowed(index, coll, d)
                                           /\ ids # {} => IdIn(coll, d, ids)
                                           /\ \A c \in clauses : MongoClause(coll, d, c))
  IN  Filter(IF limit = 0 THEN found ELSE Upto(found, limit), LAMBDA d : \A c \in clauses : Matches(d, c))

\* GenericSurface._rows: without a reader, the documents the index was built over.
InMemory(db, coll, ids, clauses, limit) ==
  LET found == Filter(db[coll], LAMBDA d : (ids # {} => d.id \in ids) /\ \A c \in clauses : Matches(d, c))
  IN  IF limit = 0 THEN found ELSE Upto(found, limit)

Rows(index, db, coll, ids, clauses, limit) ==
  IF coll \notin DOMAIN db THEN <<>>
  ELSE IF index.live THEN Fetch(index, db, coll, ids, clauses, limit)
  ELSE InMemory(db, coll, ids, clauses, limit)

Is(field, value) == {[field |-> field, op |-> "eq", values |-> {value}]}

-----------------------------------------------------------------------------
(* Related nodes: a hop of a plan, bound to a key of the documents in view.*)

Hop(to, field, text) == <<"hop", to, field, text>>

\* A card too large to be read has no members in view.
MembersAnywhere(index, db, o) == Rows(index, db, o.coll, {}, {}, 0)      \* mutant

Members(index, db, o) ==
  IF o.ids = <<>> \/ Len(o.ids) > PrefetchLimit THEN <<>> ELSE Rows(index, db, o.coll, ToSet(o.ids), {}, 0)

InFocus(members, words) ==
  LET ranked  == SortedBy(members, LAMBDA d : Overlap(words, Text(d)))
      focused == Filter(ranked, LAMBDA d : Overlap(words, Text(d)) > 0)
  IN  IF words = {} THEN Upto(members, 3) ELSE Upto(IF focused # <<>> THEN focused ELSE ranked, 2)

HopNode(index, db, plan, d) ==
  LET value == Plain(plan.coll, plan.field, Value(d, plan.field))
      rows  == Rows(index, db, plan.to, {}, Is(plan.to_field, value), 8)
  IN  [_id |-> Hop(plan.to, plan.to_field, value.text), coll |-> plan.to, ids |-> [i \in DOMAIN rows |-> rows[i].id]]

Related(index, db, origins, words) ==
  LET plansOf(o) == Filter(index.plans, LAMBDA p : p.coll = o.coll)
      hops(p, ms) == [i \in DOMAIN ms |-> HopNode(index, db, p, ms[i])]
      from(o) == FlattenSeq([k \in DOMAIN plansOf(o) |->
                   LET p == plansOf(o)[k]
                   IN  hops(p, Filter(InFocus(Members(index, db, o), words), LAMBDA d : Value(d, p.field) # NoValue))])
  IN  Upto(FirstOf(FlattenSeq([k \in DOMAIN origins |-> from(origins[k])]), LAMBDA h : h._id), 6)

Origin(coll, ids) == [coll |-> coll, ids |-> ids]
OriginsFor(documents) ==
  LET colls == Unique([i \in DOMAIN documents |-> documents[i].coll])
      in(c) == Filter(documents, LAMBDA r : r.coll = c)
  IN  [k \in DOMAIN colls |-> Origin(colls[k], [i \in DOMAIN in(colls[k]) |-> in(colls[k])[i].id])]

-----------------------------------------------------------------------------
(* search_information                                                      *)

NodeIds(index) == {index.nodes[i]._id : i \in DOMAIN index.nodes}
NodeOf(index, id) == index.nodes[SelectInSeq(index.nodes, LAMBDA n : n._id = id)]

\* A scope that is no node is no scope.
Scoped(index, scope) ==
  IF scope \notin NodeIds(index) THEN index.nodes
  ELSE Filter(index.nodes, LAMBDA n : n.coll = NodeOf(index, scope).coll)

\* near lists the node ids nearest first; <<>> when the index has no vectors, or when
\* the embedder raises or answers in another dimension: the order is lexical then.
Rank(pool, words, near) ==
  LET lexical  == SortedBy(pool, LAMBDA n : Overlap(words, n.words \cup ToSet(n.ids)))
      semantic == Filter([k \in DOMAIN near |-> Filter(pool, LAMBDA n : n._id = near[k])],
                            LAMBDA hit : hit # <<>>)
  IN  SortedBy(pool, LAMBDA n : FusedScore(<<lexical, FlattenSeq(semantic)>>, 60, n))

\* _member_ids_named: the ids the words name.
Named(ids, words) == Filter(ids, LAMBDA i : i \in words \cap NamedId)

\* _documents_named_in: what to read of each collection, for ids the question names.
NamedReads(index, words, limit) ==
  LET named(n) == LET ids == Named(n.ids, words) IN [k \in DOMAIN ids |-> [coll |-> n.coll, id |-> ids[k]]]
      picks == Upto(Unique(FlattenSeq([k \in DOMAIN index.nodes |-> named(index.nodes[k])])), limit)
  IN  OriginsFor(picks)

-----------------------------------------------------------------------------
(* retrieve_evidence, one requested node after the other.                  *)

NothingRead == [documents |-> <<>>, missing |-> <<>>, hints |-> <<>>, origins |-> <<>>, raised |-> FALSE]

\* A document is kept once, and none above the cap.
Add(got, refs, cap) ==
  [got EXCEPT !.documents = Upto(@ \o Filter(refs, LAMBDA r : ~ Contains(got.documents, r)), cap)]

ReadHop(index, db, got, id, cap) ==
  LET rows == Rows(index, db, id[2], {}, Is(id[3], [text |-> id[4], kind |-> "string"]), cap)
  IN  IF rows = <<>> THEN [got EXCEPT !.missing = Append(@, id)] ELSE Add(got, Payloads(id[2], rows), cap)

\* _collect_named: of a large card, the members the question or the query names.
CollectNamed(index, db, got, node, named, cap) ==
  LET with  == Add(got, Payloads(node.coll, Rows(index, db, node.coll, ToSet(Upto(named, cap)), {}, 0)), cap)
      added == SubSeq(with.documents, Len(got.documents) + 1, Len(with.documents))
  IN  IF added = <<>> THEN with
      ELSE [with EXCEPT !.origins = Append(@, Origin(node.coll, [i \in DOMAIN added |-> added[i].id]))]

\* _docs_for: the members that hold a word of the query, or all; best first, then by id.
DocsFor(index, db, node, words, cap) ==
  LET limit   == IF index.live /\ node.ids = <<>> THEN Larger(cap, 20) ELSE 0
      rows    == Rows(index, db, node.coll, ToSet(node.ids), {}, limit)
      byId    == SortedBy(rows, LAMBDA d : - FirstAt(TextOrder, d.id))
      ranked  == SortedBy(byId, LAMBDA d : Overlap(words, Text(d)))
      matched == Filter(ranked, LAMBDA d : Overlap(words, Text(d)) > 0)
      chosen  == IF matched # <<>> THEN matched ELSE ranked
  IN  Payloads(node.coll, Upto(IF words = {} THEN rows ELSE chosen, cap))

ReadNode(index, db, question, words, cap, got, id) ==
  LET node  == NodeOf(index, id)
      named == Named(node.ids, question \cup words)
  IN  IF id = <<"hop">> THEN [got EXCEPT !.raised = TRUE]       \* its parts cannot be unpacked
      ELSE IF id[1] = "hop" THEN ReadHop(index, db, got, id, cap)
      ELSE IF id \notin NodeIds(index) THEN [got EXCEPT !.missing = Append(@, id)]
      ELSE IF Len(node.ids) > PrefetchLimit /\ named # <<>> THEN CollectNamed(index, db, got, node, named, cap)
      ELSE IF Len(node.ids) > PrefetchLimit THEN [got EXCEPT !.hints = Append(@, id)]
      ELSE Add([got EXCEPT !.origins = Append(@, node)], DocsFor(index, db, node, words, cap), cap)

-----------------------------------------------------------------------------
(* A call is [tool, words, scope, near, ids, coll, filter, limit], where    *)
(* filter is [clauses, forbidden]; its reads are made one find at a time.  *)

Cap(call) ==
  CASE call.tool = "search_information" -> CapOf(call.limit, 8, 8)
    [] call.tool = "retrieve_evidence"  -> CapOf(call.limit, 8, 20)
    [] OTHER                            -> CapOf(call.limit, 10, 20)

Error == [kind |-> "error", documents |-> <<>>, nodes |-> <<>>, related |-> <<>>,
          missing |-> <<>>, hints |-> <<>>, coll |-> NoName]

\* _known: a collection the index was built over.
Known(index, coll) == coll \in index.collections

\* query_documents before it reads: an operator, or a namespace, that is not allowed.
Refused(index, call) ==
  /\ call.tool = "query_documents"
  /\ call.filter.forbidden \/ ~ Known(index, call.coll)

\* What a call reads, in order.
Reads(index, question, call) ==
  CASE call.tool = "search_information" -> NamedReads(index, question \cup call.words, Cap(call))
    [] call.tool = "retrieve_evidence"  -> Upto(call.ids, 8)
    [] OTHER                            -> <<call.coll>>

ReadOne(index, db, question, call, got, item) ==
  CASE call.tool = "search_information" ->
         Add(got, Payloads(item.coll, Rows(index, db, item.coll, ToSet(item.ids), {}, 0)), Cap(call))
    [] call.tool = "retrieve_evidence"  -> ReadNode(index, db, question, call.words, Cap(call), got, item)
    [] OTHER -> Add(got, Payloads(item, Rows(index, db, item, {}, call.filter.clauses, Cap(call))), Cap(call))

Full(call, got) == got.raised \/ Len(got.documents) >= Cap(call)

SearchHits(index, call) == Upto(Rank(Scoped(index, call.scope), call.words, call.near), Cap(call))

\* _brief: what a hit shows of its node.
BriefNode(n) == [_id |-> n._id, coll |-> n.coll, ids |-> Upto(n.ids, 8)]

SearchResult(index, db, call, got) ==
  LET hits == SearchHits(index, call)
  IN  [Error EXCEPT !.kind = "search", !.documents = got.documents,
                    !.nodes = [k \in DOMAIN hits |-> BriefNode(hits[k])],
                    !.related = Related(index, db, hits \o OriginsFor(got.documents), call.words)]

ReadResult(index, db, call, got) ==
  [Error EXCEPT !.kind = "read", !.documents = got.documents, !.missing = got.missing, !.hints = got.hints,
                !.related = Related(index, db, got.origins, call.words)]

\* Many documents are in view of nothing.
QueryResult(index, db, call, got) ==
  [Error EXCEPT !.kind = "query", !.documents = got.documents, !.coll = call.coll,
                !.related = IF Len(got.documents) > 3 THEN <<>> ELSE Related(index, db, OriginsFor(got.documents), {})]

Result(index, db, call, got) ==
  IF got.raised THEN Error
  ELSE IF call.tool = "search_information" THEN SearchResult(index, db, call, got)
  ELSE IF call.tool = "retrieve_evidence" THEN ReadResult(index, db, call, got)
  ELSE QueryResult(index, db, call, got)

-----------------------------------------------------------------------------
(* tool_policy                                                             *)

EmptyLedger == [nodes |-> {}, colls |-> {}]

Absorb(ledger, result) ==
  LET rows == ToSet(result.nodes) \cup ToSet(result.related)
  IN  [nodes |-> ledger.nodes \cup {n._id : n \in rows},
       colls |-> (ledger.colls \cup {n.coll : n \in rows} \cup {r.coll : r \in ToSet(result.documents)}
                   \cup {result.coll}) \ {NoName}]

Valid(call, ledger) ==
  CASE call.tool = "search_information" -> call.words # {} /\ call.scope \in ledger.nodes \cup {NoScope}
    [] call.tool = "retrieve_evidence"  -> call.ids # <<>> /\ ToSet(call.ids) \subseteq ledger.nodes
    [] OTHER                            -> call.coll \in ledger.colls /\ ~ call.filter.forbidden
=============================================================================
