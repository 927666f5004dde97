------------------------ MODULE GenericSessionProofs ------------------------
(***************************************************************************)
(* Proofs about GenericSession: however often the transcript is shortened, *)
(* every call keeps its one answer with the first documents of its result, *)
(* and the session cites exactly what the tools returned.                  *)
(***************************************************************************)
EXTENDS GenericSession, ListFacts

-----------------------------------------------------------------------------
(* What the tools return has the shape of a result.                        *)

Fields == {"kind", "documents", "nodes", "related", "missing", "hints", "coll"}
Lists5(r) == IsList(r.documents) /\ IsList(r.nodes) /\ IsList(r.related) /\ IsList(r.missing) /\ IsList(r.hints)
IsResult(r) == DOMAIN r = Fields /\ Lists5(r)

IsDatabase(d) == \A c \in DOMAIN d : IsList(d[c])
IsIndex(i) == IsList(i.nodes) /\ IsList(i.plans)

ReadFields == {"documents", "missing", "hints", "origins", "raised"}
IsGot(g) ==
  /\ DOMAIN g = ReadFields /\ g = [f \in ReadFields |-> g[f]]
  /\ IsList(g.documents) /\ IsList(g.missing) /\ IsList(g.hints) /\ IsList(g.origins)

LEMMA FetchList ==
  ASSUME NEW i, NEW d, NEW coll, IsList(d[coll]), NEW ids, NEW clauses, NEW limit \in Nat
  PROVE  IsList(Fetch(i, d, coll, ids, clauses, limit))
<1>1. PICK I : I = {k \in DOMAIN d[coll] : /\ Allowed(i, coll, d[coll][k])
                                           /\ ids # {} => IdIn(coll, d[coll][k], ids)
                                           /\ \A c \in clauses : MongoClause(coll, d[coll][k], c)}
  OBVIOUS
<1>2. PICK all : all = Picked(d[coll], I)
  OBVIOUS
<1>3. IsList(all)
  BY <1>1, <1>2, PickedIs
<1>4. PICK s : s = IF limit = 0 THEN all ELSE Upto(all, limit)
  OBVIOUS
<1>5. IsList(s)
  BY <1>3, <1>4, UptoIs
<1>6. PICK J : J = {k \in DOMAIN s : \A c \in clauses : Matches(s[k], c)}
  OBVIOUS
<1>7. Fetch(i, d, coll, ids, clauses, limit) = Picked(s, J)
  BY <1>1, <1>2, <1>4, <1>6 DEF Fetch, Filter
<1> QED
  BY <1>5, <1>6, <1>7, PickedIs

LEMMA InMemoryList ==
  ASSUME NEW d, NEW coll, IsList(d[coll]), NEW ids, NEW clauses, NEW limit \in Nat
  PROVE  IsList(InMemory(d, coll, ids, clauses, limit))
<1>1. PICK I : I = {k \in DOMAIN d[coll] : (ids # {} => d[coll][k].id \in ids) /\ \A c \in clauses : Matches(d[coll][k], c)}
  OBVIOUS
<1>2. PICK all : all = Picked(d[coll], I)
  OBVIOUS
<1>3. IsList(all)
  BY <1>1, <1>2, PickedIs
<1>4. InMemory(d, coll, ids, clauses, limit) = IF limit = 0 THEN all ELSE Upto(all, limit)
  BY <1>1, <1>2 DEF InMemory, Filter
<1> QED
  BY <1>3, <1>4, UptoIs

LEMMA RowsList ==
  ASSUME NEW i, NEW d, IsDatabase(d), NEW coll, NEW ids, NEW clauses, NEW limit \in Nat
  PROVE  IsList(Rows(i, d, coll, ids, clauses, limit))
<1>1. CASE coll \notin DOMAIN d
  BY <1>1, EmptyIsList DEF Rows
<1>2. CASE coll \in DOMAIN d
  <2>1. IsList(d[coll])
    BY <1>2 DEF IsDatabase
  <2> QED
    BY <1>2, <2>1, FetchList, InMemoryList DEF Rows
<1> QED
  BY <1>1, <1>2

LEMMA PayloadsList ==
  ASSUME NEW coll, NEW docs, IsList(docs)
  PROVE  IsList(Payloads(coll, docs)) /\ Len(Payloads(coll, docs)) = Len(docs)
<1>1. PICK n \in Nat : n = Len(docs) /\ DOMAIN docs = 1 .. n
  BY ListIs
<1>2. PICK t : t = [k \in 1 .. n |-> Ref(coll, docs[k])]
  OBVIOUS
<1>3. t = [k \in 1 .. n |-> t[k]]
  BY <1>2
<1>4. Payloads(coll, docs) = t
  BY <1>1, <1>2 DEF Payloads
<1> QED
  BY <1>1, <1>3, <1>4, ListOf

LEMMA CapIsNatural ==
  ASSUME NEW call, call.limit \in Nat
  PROVE  Cap(call) \in Nat \ {0}
BY DEF Cap, CapOf, Larger, Smaller

LEMMA SortedList ==
  ASSUME NEW s, IsList(s), NEW t, DOMAIN t = DOMAIN s, t = [k \in DOMAIN s |-> t[k]]
  PROVE  IsList(t)
BY ListIs, ListOf

LEMMA AddKeepsGot ==
  ASSUME NEW g, IsGot(g), NEW refs, IsList(refs), NEW cap \in Nat
  PROVE  IsGot(Add(g, refs, cap))
<1>1. PICK I : I = {k \in DOMAIN refs : ~ Contains(g.documents, refs[k])}
  OBVIOUS
<1>2. PICK new : new = Picked(refs, I)
  OBVIOUS
<1>3. IsList(new)
  BY <1>1, <1>2, PickedIs
<1>4. PICK docs : docs = Upto(g.documents \o new, cap)
  OBVIOUS
<1>5. IsList(docs)
  BY <1>3, <1>4, Concatenated, UptoIs DEF IsGot
<1>6. Add(g, refs, cap) = [g EXCEPT !.documents = docs]
  BY <1>1, <1>2, <1>4 DEF Add, Filter
<1> QED
  BY <1>5, <1>6 DEF IsGot, ReadFields

LEMMA ReadHopKeepsGot ==
  ASSUME NEW i, NEW d, IsDatabase(d), NEW g, IsGot(g), NEW id, NEW cap \in Nat
  PROVE  IsGot(ReadHop(i, d, g, id, cap))
<1>1. PICK rows : rows = Rows(i, d, id[2], {}, Is(id[3], [text |-> id[4], kind |-> "string"]), cap)
  OBVIOUS
<1>2. IsList(Payloads(id[2], rows))
  BY <1>1, RowsList, PayloadsList
<1>3. ReadHop(i, d, g, id, cap) =
        IF rows = <<>> THEN [g EXCEPT !.missing = Append(g.missing, id)] ELSE Add(g, Payloads(id[2], rows), cap)
  BY <1>1 DEF ReadHop
<1>4. IsGot([g EXCEPT !.missing = Append(g.missing, id)])
  BY Appended DEF IsGot, ReadFields
<1> QED
  BY <1>2, <1>3, <1>4, AddKeepsGot

LEMMA CollectNamedKeepsGot ==
  ASSUME NEW i, NEW d, IsDatabase(d), NEW g, IsGot(g), NEW node, NEW named, NEW cap \in Nat
  PROVE  IsGot(CollectNamed(i, d, g, node, named, cap))
<1>1. PICK rows : rows = Rows(i, d, node.coll, ToSet(Upto(named, cap)), {}, 0)
  OBVIOUS
<1>2. PICK got1 : got1 = Add(g, Payloads(node.coll, rows), cap)
  OBVIOUS
<1>3. IsGot(got1)
  BY <1>1, <1>2, RowsList, PayloadsList, AddKeepsGot
<1>4. PICK added : added = SubSeq(got1.documents, Len(g.documents) + 1, Len(got1.documents))
  OBVIOUS
<1>5. PICK o : o = Origin(node.coll, [k \in DOMAIN added |-> added[k].id])
  OBVIOUS
<1>6. CollectNamed(i, d, g, node, named, cap) =
        IF added = <<>> THEN got1 ELSE [got1 EXCEPT !.origins = Append(got1.origins, o)]
  BY <1>1, <1>2, <1>4, <1>5 DEF CollectNamed
<1>7. IsGot([got1 EXCEPT !.origins = Append(got1.origins, o)])
  BY <1>3, Appended DEF IsGot, ReadFields
<1> QED
  BY <1>3, <1>6, <1>7

LEMMA DocsForList ==
  ASSUME NEW i, NEW d, IsDatabase(d), NEW node, NEW words, NEW cap \in Nat
  PROVE  IsList(DocsFor(i, d, node, words, cap))
<1>1. PICK limit : limit = IF i.live /\ node.ids = <<>> THEN Larger(cap, 20) ELSE 0
  OBVIOUS
<1>2. limit \in Nat
  BY <1>1 DEF Larger
<1>3. PICK rows : rows = Rows(i, d, node.coll, ToSet(node.ids), {}, limit)
  OBVIOUS
<1>4. IsList(rows)
  BY <1>2, <1>3, RowsList
<1>5. PICK byId : byId = SortedBy(rows, LAMBDA x : - FirstAt(TextOrder, x.id))
  OBVIOUS
<1>6. DOMAIN byId = DOMAIN rows /\ byId = [k \in DOMAIN rows |-> byId[k]]
  BY <1>5 DEF SortedBy, Arranged
<1>7. PICK ranked : ranked = SortedBy(byId, LAMBDA x : Overlap(words, Text(x)))
  OBVIOUS
<1>8. DOMAIN ranked = DOMAIN byId /\ ranked = [k \in DOMAIN byId |-> ranked[k]]
  BY <1>7 DEF SortedBy, Arranged
<1>9. IsList(ranked)
  BY <1>4, <1>6, <1>8, SortedList
<1>10. PICK I : I = {k \in DOMAIN ranked : Overlap(words, Text(ranked[k])) > 0}
  OBVIOUS
<1>11. PICK matched : matched = Picked(ranked, I)
  OBVIOUS
<1>12. IsList(matched)
  BY <1>9, <1>10, <1>11, PickedIs
<1>13. PICK chosen : chosen = IF words = {} THEN rows ELSE IF matched # <<>> THEN matched ELSE ranked
  OBVIOUS
<1>14. DocsFor(i, d, node, words, cap) = Payloads(node.coll, Upto(chosen, cap))
  BY <1>1, <1>3, <1>5, <1>7, <1>10, <1>11, <1>13 DEF DocsFor, Filter
<1>15. IsList(chosen)
  BY <1>4, <1>9, <1>12, <1>13
<1>16. IsList(Upto(chosen, cap))
  BY <1>15, UptoIs
<1> QED
  BY <1>14, <1>16, PayloadsList

LEMMA ReadNodeKeepsGot ==
  ASSUME NEW i, NEW d, IsDatabase(d), NEW q, NEW words, NEW cap \in Nat, NEW g, IsGot(g), NEW id
  PROVE  IsGot(ReadNode(i, d, q, words, cap, g, id))
<1>1. PICK node : node = NodeOf(i, id)
  OBVIOUS
<1>2. PICK named : named = Named(node.ids, q \cup words)
  OBVIOUS
<1>3. PICK docs : docs = DocsFor(i, d, node, words, cap)
  OBVIOUS
<1>4. IsList(docs)
  BY <1>3, DocsForList
<1>5. PICK g1 : g1 = [g EXCEPT !.origins = Append(g.origins, node)]
  OBVIOUS
<1>6. IsGot(g1)
  BY <1>5, Appended DEF IsGot, ReadFields
<1>7. \/ ReadNode(i, d, q, words, cap, g, id) = [g EXCEPT !.raised = TRUE]
      \/ ReadNode(i, d, q, words, cap, g, id) = ReadHop(i, d, g, id, cap)
      \/ ReadNode(i, d, q, words, cap, g, id) = [g EXCEPT !.missing = Append(g.missing, id)]
      \/ ReadNode(i, d, q, words, cap, g, id) = CollectNamed(i, d, g, node, named, cap)
      \/ ReadNode(i, d, q, words, cap, g, id) = [g EXCEPT !.hints = Append(g.hints, id)]
      \/ ReadNode(i, d, q, words, cap, g, id) = Add(g1, docs, cap)
  BY <1>1, <1>2, <1>3, <1>5 DEF ReadNode
<1>8. /\ IsGot([g EXCEPT !.raised = TRUE])
      /\ IsGot([g EXCEPT !.missing = Append(g.missing, id)])
      /\ IsGot([g EXCEPT !.hints = Append(g.hints, id)])
  BY Appended DEF IsGot, ReadFields
<1>9. /\ IsGot(ReadHop(i, d, g, id, cap))
      /\ IsGot(CollectNamed(i, d, g, node, named, cap))
      /\ IsGot(Add(g1, docs, cap))
  BY <1>4, <1>6, ReadHopKeepsGot, CollectNamedKeepsGot, AddKeepsGot
<1> QED
  BY <1>7, <1>8, <1>9

\* Every read of a call keeps what it has read in shape.
LEMMA ReadOneKeepsGot ==
  ASSUME NEW i, NEW d, IsDatabase(d), NEW q, NEW call, call.limit \in Nat, NEW g, IsGot(g), NEW item
  PROVE  IsGot(ReadOne(i, d, q, call, g, item))
<1>1. PICK cap : cap = Cap(call)
  OBVIOUS
<1>2. cap \in Nat
  BY <1>1, CapIsNatural
<1>3. PICK rows1 : rows1 = Payloads(item.coll, Rows(i, d, item.coll, ToSet(item.ids), {}, 0))
  OBVIOUS
<1>4. PICK rows2 : rows2 = Payloads(item, Rows(i, d, item, {}, call.filter.clauses, cap))
  OBVIOUS
<1>5. IsList(rows1) /\ IsList(rows2)
  BY <1>2, <1>3, <1>4, RowsList, PayloadsList
<1>6. \/ ReadOne(i, d, q, call, g, item) = Add(g, rows1, cap)
      \/ ReadOne(i, d, q, call, g, item) = ReadNode(i, d, q, call.words, cap, g, item)
      \/ ReadOne(i, d, q, call, g, item) = Add(g, rows2, cap)
  BY <1>1, <1>3, <1>4 DEF ReadOne
<1> QED
  BY <1>2, <1>5, <1>6, AddKeepsGot, ReadNodeKeepsGot

LEMMA InFocusList ==
  ASSUME NEW members, IsList(members), NEW words
  PROVE  IsList(InFocus(members, words))
<1>1. PICK ranked : ranked = SortedBy(members, LAMBDA x : Overlap(words, Text(x)))
  OBVIOUS
<1>2. DOMAIN ranked = DOMAIN members /\ ranked = [k \in DOMAIN members |-> ranked[k]]
  BY <1>1 DEF SortedBy, Arranged
<1>3. IsList(ranked)
  BY <1>2, SortedList
<1>4. PICK I : I = {k \in DOMAIN ranked : Overlap(words, Text(ranked[k])) > 0}
  OBVIOUS
<1>5. PICK focused : focused = Picked(ranked, I)
  OBVIOUS
<1>6. IsList(focused)
  BY <1>3, <1>4, <1>5, PickedIs
<1>7. PICK chosen : chosen = IF focused # <<>> THEN focused ELSE ranked
  OBVIOUS
<1>8. InFocus(members, words) = IF words = {} THEN Upto(members, 3) ELSE Upto(chosen, 2)
  BY <1>1, <1>4, <1>5, <1>7 DEF InFocus, Filter
<1>9. IsList(Upto(members, 3)) /\ IsList(Upto(chosen, 2))
  BY <1>3, <1>6, <1>7, UptoIs
<1> QED
  BY <1>8, <1>9

\* The parts of Related: the plans of an origin, and the hops of one plan and of all.
PlansOf(i, o) == Filter(i.plans, LAMBDA p : p.coll = o.coll)
Keyed(members, p) == Filter(members, LAMBDA x : Value(x, p.field) # NoValue)
HopsOf(i, d, p, ms) == [k \in DOMAIN ms |-> HopNode(i, d, p, ms[k])]
PlanHops(i, d, p, o, words) == HopsOf(i, d, p, Keyed(InFocus(Members(i, d, o), words), p))
HopsFrom(i, d, o, words) == FlattenSeq([k \in DOMAIN PlansOf(i, o) |-> PlanHops(i, d, PlansOf(i, o)[k], o, words)])
AllHops(i, d, origins, words) == FlattenSeq([k \in DOMAIN origins |-> HopsFrom(i, d, origins[k], words)])

LEMMA MembersList ==
  ASSUME NEW i, NEW d, IsDatabase(d), NEW o
  PROVE  IsList(Members(i, d, o))
BY RowsList, EmptyIsList DEF Members

LEMMA PlanHopsList ==
  ASSUME NEW i, NEW d, IsDatabase(d), NEW p, NEW o, NEW words
  PROVE  IsList(PlanHops(i, d, p, o, words))
<1>1. PICK ms : ms = InFocus(Members(i, d, o), words)
  OBVIOUS
<1>2. IsList(ms)
  BY <1>1, MembersList, InFocusList
<1>3. PICK I : I = {k \in DOMAIN ms : Value(ms[k], p.field) # NoValue}
  OBVIOUS
<1>4. PICK keyed : keyed = Picked(ms, I)
  OBVIOUS
<1>5. IsList(keyed)
  BY <1>2, <1>3, <1>4, PickedIs
<1>6. PICK t : t = [k \in DOMAIN keyed |-> HopNode(i, d, p, keyed[k])]
  OBVIOUS
<1>7. DOMAIN t = DOMAIN keyed /\ t = [k \in DOMAIN keyed |-> t[k]]
  BY <1>6
<1>8. PlanHops(i, d, p, o, words) = t
  BY <1>1, <1>3, <1>4, <1>6 DEF PlanHops, HopsOf, Keyed, Filter
<1> QED
  BY <1>5, <1>7, <1>8, SortedList

LEMMA HopsFromList ==
  ASSUME NEW i, IsIndex(i), NEW d, IsDatabase(d), NEW o, NEW words
  PROVE  IsList(HopsFrom(i, d, o, words))
<1>1. PICK I : I = {k \in DOMAIN i.plans : i.plans[k].coll = o.coll}
  OBVIOUS
<1>2. PICK plans : plans = Picked(i.plans, I)
  OBVIOUS
<1>3. IsList(plans)
  BY <1>1, <1>2, PickedIs DEF IsIndex
<1>4. PICK seqs : seqs = [k \in DOMAIN plans |-> PlanHops(i, d, plans[k], o, words)]
  OBVIOUS
<1>5. DOMAIN seqs = DOMAIN plans /\ seqs = [k \in DOMAIN plans |-> seqs[k]]
  BY <1>4
<1>6. IsList(seqs) /\ \A k \in DOMAIN seqs : IsList(seqs[k])
  BY <1>3, <1>4, <1>5, SortedList, PlanHopsList
<1>7. HopsFrom(i, d, o, words) = FlattenSeq(seqs)
  BY <1>1, <1>2, <1>4 DEF HopsFrom, PlansOf, Filter
<1> QED
  BY <1>6, <1>7, FlattenedIs

LEMMA AllHopsList ==
  ASSUME NEW i, IsIndex(i), NEW d, IsDatabase(d), NEW origins, IsList(origins), NEW words
  PROVE  IsList(AllHops(i, d, origins, words))
<1>1. PICK seqs : seqs = [k \in DOMAIN origins |-> HopsFrom(i, d, origins[k], words)]
  OBVIOUS
<1>2. DOMAIN seqs = DOMAIN origins /\ seqs = [k \in DOMAIN origins |-> seqs[k]]
  BY <1>1
<1>3. IsList(seqs) /\ \A k \in DOMAIN seqs : IsList(seqs[k])
  BY <1>1, <1>2, SortedList, HopsFromList
<1> QED
  BY <1>1, <1>3, FlattenedIs DEF AllHops

LEMMA RelatedList ==
  ASSUME NEW i, IsIndex(i), NEW d, IsDatabase(d), NEW origins, IsList(origins), NEW words
  PROVE  IsList(Related(i, d, origins, words))
<1>1. PICK all : all = AllHops(i, d, origins, words)
  OBVIOUS
<1>2. IsList(all)
  BY <1>1, AllHopsList
<1>3. PICK I : I = {k \in DOMAIN all : \A j \in 1 .. k - 1 : all[j]._id # all[k]._id}
  OBVIOUS
<1>4. IsList(Picked(all, I))
  BY <1>2, <1>3, PickedIs
<1>5. all = FlattenSeq([k \in DOMAIN origins |-> HopsFrom(i, d, origins[k], words)])
  BY <1>1 DEF AllHops
<1>6. Related(i, d, origins, words) = Upto(Picked(all, I), 6)
  BY <1>3, <1>5 DEF Related, FirstOf, HopsFrom, PlansOf, PlanHops, HopsOf, Keyed
<1> QED
  BY <1>4, <1>6, UptoIs

LEMMA OriginsForList ==
  ASSUME NEW docs, IsList(docs)
  PROVE  IsList(OriginsFor(docs))
<1>1. PICK cs : cs = [k \in DOMAIN docs |-> docs[k].coll]
  OBVIOUS
<1>2. DOMAIN cs = DOMAIN docs /\ cs = [k \in DOMAIN docs |-> cs[k]]
  BY <1>1
<1>3. PICK colls : colls = Unique(cs)
  OBVIOUS
<1>4. IsList(colls)
  BY <1>2, <1>3, SortedList, UniqueIs
<1>5. PICK t : t = OriginsFor(docs)
  OBVIOUS
<1>6. DOMAIN t = DOMAIN colls /\ t = [k \in DOMAIN colls |-> t[k]]
  BY <1>1, <1>3, <1>5 DEF OriginsFor
<1> QED
  BY <1>4, <1>5, <1>6, SortedList

LEMMA SearchHitsList ==
  ASSUME NEW i, IsIndex(i), NEW call, call.limit \in Nat
  PROVE  IsList(SearchHits(i, call))
<1>1. PICK pool : pool = Scoped(i, call.scope)
  OBVIOUS
<1>2. IsList(pool)
  <2>1. PICK I : I = {k \in DOMAIN i.nodes : i.nodes[k].coll = NodeOf(i, call.scope).coll}
    OBVIOUS
  <2>2. IsList(Picked(i.nodes, I))
    BY <2>1, PickedIs DEF IsIndex
  <2>3. pool = i.nodes \/ pool = Picked(i.nodes, I)
    BY <1>1, <2>1 DEF Scoped, Filter
  <2> QED
    BY <2>2, <2>3 DEF IsIndex
<1>3. PICK ranked : ranked = Rank(pool, call.words, call.near)
  OBVIOUS
<1>4. DOMAIN ranked = DOMAIN pool /\ ranked = [k \in DOMAIN pool |-> ranked[k]]
  BY <1>3 DEF Rank, SortedBy, Arranged
<1>5. SearchHits(i, call) = Upto(ranked, Cap(call))
  BY <1>1, <1>3 DEF SearchHits
<1> QED
  BY <1>2, <1>4, <1>5, SortedList, CapIsNatural, UptoIs

LEMMA ErrorIsResult == IsResult(Error)
BY EmptyIsList DEF IsResult, Lists5, Fields, Error

LEMMA SearchIsResult ==
  ASSUME NEW i, IsIndex(i), NEW d, IsDatabase(d), NEW call, call.limit \in Nat, NEW g, IsGot(g)
  PROVE  IsResult(SearchResult(i, d, call, g))
<1>1. PICK hits : hits = SearchHits(i, call)
  OBVIOUS
<1>2. PICK nodes : nodes = [k \in DOMAIN hits |-> BriefNode(hits[k])]
  OBVIOUS
<1>3. DOMAIN nodes = DOMAIN hits /\ nodes = [k \in DOMAIN hits |-> nodes[k]]
  BY <1>2
<1>4. IsList(hits) /\ IsList(nodes)
  BY <1>1, <1>3, SearchHitsList, SortedList
<1>5. PICK related : related = Related(i, d, hits \o OriginsFor(g.documents), call.words)
  OBVIOUS
<1>6. IsList(related)
  BY <1>4, <1>5, OriginsForList, Concatenated, RelatedList DEF IsGot
<1>7. SearchResult(i, d, call, g) = [Error EXCEPT !.kind = "search", !.documents = g.documents,
                                                  !.nodes = nodes, !.related = related]
  BY <1>1, <1>2, <1>5 DEF SearchResult
<1> QED
  BY <1>4, <1>6, <1>7, EmptyIsList DEF IsResult, Lists5, Fields, Error, IsGot

LEMMA ReadIsResult ==
  ASSUME NEW i, IsIndex(i), NEW d, IsDatabase(d), NEW call, NEW g, IsGot(g)
  PROVE  IsResult(ReadResult(i, d, call, g))
<1>1. PICK related : related = Related(i, d, g.origins, call.words)
  OBVIOUS
<1>2. IsList(related)
  BY <1>1, RelatedList DEF IsGot
<1>3. ReadResult(i, d, call, g) = [Error EXCEPT !.kind = "read", !.documents = g.documents, !.missing = g.missing,
                                                !.hints = g.hints, !.related = related]
  BY <1>1 DEF ReadResult
<1> QED
  BY <1>2, <1>3, EmptyIsList DEF IsResult, Lists5, Fields, Error, IsGot

LEMMA QueryIsResult ==
  ASSUME NEW i, IsIndex(i), NEW d, IsDatabase(d), NEW call, NEW g, IsGot(g)
  PROVE  IsResult(QueryResult(i, d, call, g))
<1>1. PICK related : related = IF Len(g.documents) > 3 THEN <<>> ELSE Related(i, d, OriginsFor(g.documents), {})
  OBVIOUS
<1>2. IsList(related)
  BY <1>1, OriginsForList, RelatedList, EmptyIsList DEF IsGot
<1>3. QueryResult(i, d, call, g) = [Error EXCEPT !.kind = "query", !.documents = g.documents, !.coll = call.coll,
                                                 !.related = related]
  BY <1>1 DEF QueryResult
<1> QED
  BY <1>2, <1>3, EmptyIsList DEF IsResult, Lists5, Fields, Error, IsGot

\* Whatever a call has read, what it returns is a result.
LEMMA ResultIs ==
  ASSUME NEW i, IsIndex(i), NEW d, IsDatabase(d), NEW call, call.limit \in Nat, NEW g, IsGot(g)
  PROVE  IsResult(Result(i, d, call, g))
<1>1. \/ Result(i, d, call, g) = Error
      \/ Result(i, d, call, g) = SearchResult(i, d, call, g)
      \/ Result(i, d, call, g) = ReadResult(i, d, call, g)
      \/ Result(i, d, call, g) = QueryResult(i, d, call, g)
  BY DEF Result
<1> QED
  BY <1>1, ErrorIsResult, SearchIsResult, ReadIsResult, QueryIsResult

-----------------------------------------------------------------------------
(* What shortening leaves of a result.                                     *)

BodyFields == Fields \cup {"compacted", "broken"}
IsBody(b) == DOMAIN b = BodyFields /\ Lists5(b) /\ b.compacted \in BOOLEAN /\ b.broken \in BOOLEAN

\* t is the beginning of s, and not empty unless s is.
Begins(t, s) == /\ IsList(t) /\ Len(t) <= Len(s) /\ \A k \in 1 .. Len(t) : t[k] = s[k]
                /\ Len(s) # 0 => Len(t) # 0

LEMMA BeginsUpto ==
  ASSUME NEW s, IsList(s), NEW t, Begins(t, s)
  PROVE  t = Upto(s, Len(t)) /\ (s # <<>> => t # <<>>)
<1>1. PICK n \in Nat : n = Len(t) /\ t = [k \in 1 .. n |-> t[k]] /\ n <= Len(s) /\ \A k \in 1 .. n : t[k] = s[k]
  BY ListIs DEF Begins
<1>2. PICK u : u = Upto(s, n)
  OBVIOUS
<1>3. IsList(u) /\ Len(u) = n /\ \A k \in 1 .. n : u[k] = s[k]
  BY <1>1, <1>2, UptoIs, ListIs DEF Smaller
<1>4. u = [k \in 1 .. n |-> u[k]]
  BY <1>3, ListIs
<1>5. t = u
  BY <1>1, <1>3, <1>4
<1>6. s # <<>> => Len(s) # 0
  <2>1. s = [k \in 1 .. Len(s) |-> s[k]]
    BY ListIs
  <2>2. Len(s) = 0 => s = <<>>
    BY <2>1
  <2> QED
    BY <2>2
<1>7. Len(s) # 0 => t # <<>>
  BY EmptyIsList DEF Begins
<1> QED
  BY <1>1, <1>2, <1>5, <1>6, <1>7

LEMMA UptoBegins ==
  ASSUME NEW s, IsList(s), NEW k \in Nat \ {0}
  PROVE  Begins(Upto(s, k), s)
BY UptoIs, ListIs DEF Begins, Smaller

LEMMA BeginsBegins ==
  ASSUME NEW s, IsList(s), NEW t, Begins(t, s), NEW u, Begins(u, t)
  PROVE  Begins(u, s)
BY ListIs DEF Begins

LEMMA BeginsItself ==
  ASSUME NEW s, IsList(s)
  PROVE  Begins(s, s)
BY ListIs DEF Begins

LEMMA Division ==
  ASSUME NEW d \in Nat \ {0}, NEW c \in Nat
  PROVE  c \div d \in Nat /\ d * (c \div d) <= c
OBVIOUS

LEMMA Multiplied ==
  ASSUME NEW d \in Nat, NEW a \in Nat, NEW b \in Nat, a <= b
  PROVE  d * a \in Nat /\ d * b \in Nat /\ d * a <= d * b
OBVIOUS

LEMMA WeightsAreNatural ==
  /\ DocumentWeight \in Nat \ {0} /\ NodeWeight \in Nat \ {0}
  /\ RawCap \in Nat /\ LastRoundCap \in Nat /\ ReceiptCap \in Nat
BY TranscriptAssumption

LEMMA SizeIs ==
  ASSUME NEW b, Lists5(b)
  PROVE  Size(b) \in Nat
<1>1. PICK p \in Nat, q \in Nat, r \in Nat, t \in Nat :
        p = Len(b.nodes) /\ q = Len(b.related) /\ r = Len(b.missing) /\ t = Len(b.hints)
  BY ListIs DEF Lists5
<1>2. PICK n \in Nat : n = p + q + r + t
  OBVIOUS
<1>3. PICK m \in Nat : m = Len(b.documents)
  BY ListIs DEF Lists5
<1>4. Size(b) = DocumentWeight * m + NodeWeight * n
  <2>1. Size(b) = DocumentWeight * m + NodeWeight * (p + q + r + t)
    BY <1>1, <1>3 DEF Size
  <2> QED
    BY <1>2, <2>1
<1>5. DocumentWeight * m \in Nat /\ NodeWeight * n \in Nat
  BY Multiplied, WeightsAreNatural
<1> QED
  BY <1>4, <1>5

\* What a cut leaves of the documents and the nodes.
CutDocuments(b, cap) == Upto(b.documents, Larger(1, cap \div DocumentWeight))
Room(b, cap) == Larger(0, cap - DocumentWeight * Len(CutDocuments(b, cap)))
CutNodes(b, cap) == Upto(b.nodes, Room(b, cap) \div NodeWeight)

LEMMA CutDocumentsIs ==
  ASSUME NEW b, Lists5(b), NEW cap \in Nat
  PROVE  /\ Begins(CutDocuments(b, cap), b.documents)
         /\ DocumentWeight * Len(CutDocuments(b, cap)) \in Nat
         /\ DocumentWeight * Len(CutDocuments(b, cap)) <= Larger(DocumentWeight, cap)
<1>1. PICK q \in Nat : q = cap \div DocumentWeight /\ DocumentWeight * q <= cap
  BY Division, WeightsAreNatural
<1>2. PICK k \in Nat \ {0} : k = Larger(1, q)
  BY DEF Larger
<1>3. PICK docs : docs = Upto(b.documents, k)
  OBVIOUS
<1>4. IsList(docs) /\ Len(docs) = Smaller(k, Len(b.documents)) /\ Len(b.documents) \in Nat
  BY <1>3, UptoIs, ListIs DEF Lists5
<1>5. PICK n \in Nat : n = Len(docs) /\ n <= k
  BY <1>4 DEF Smaller
<1>6. DocumentWeight * n \in Nat /\ DocumentWeight * n <= DocumentWeight * k
  BY <1>5, Multiplied, WeightsAreNatural
<1>7. DocumentWeight * k <= Larger(DocumentWeight, cap)
  <2>1. CASE k = 1
    BY <2>1, WeightsAreNatural DEF Larger
  <2>2. CASE k = q
    BY <1>1, <2>2, WeightsAreNatural DEF Larger
  <2> QED
    BY <1>2, <2>1, <2>2 DEF Larger
<1>8. Begins(docs, b.documents)
  BY <1>3, UptoBegins DEF Lists5
<1>9. CutDocuments(b, cap) = docs
  BY <1>1, <1>2, <1>3 DEF CutDocuments
<1>10. PICK x \in Nat : x = DocumentWeight * k
  BY Multiplied, WeightsAreNatural
<1>11. PICK y \in Nat : y = Larger(DocumentWeight, cap)
  BY WeightsAreNatural DEF Larger
<1>12. PICK z \in Nat : z = DocumentWeight * n
  BY <1>6
<1>13. z <= y
  BY <1>6, <1>7, <1>10, <1>11, <1>12
<1> QED
  BY <1>5, <1>8, <1>9, <1>11, <1>12, <1>13

LEMMA CutNodesIs ==
  ASSUME NEW b, Lists5(b), NEW cap \in Nat
  PROVE  /\ IsList(CutNodes(b, cap)) /\ NodeWeight * Len(CutNodes(b, cap)) \in Nat
         /\ NodeWeight * Len(CutNodes(b, cap)) <= Room(b, cap)
<1>1. PICK r \in Nat : r = Room(b, cap)
  BY CutDocumentsIs, SMTT(30) DEF Room, Larger
<1>2. PICK q \in Nat : q = r \div NodeWeight /\ NodeWeight * q <= r
  BY Division, WeightsAreNatural
<1>3. PICK nodes : nodes = Upto(b.nodes, q)
  OBVIOUS
<1>4. IsList(nodes) /\ Len(nodes) = Smaller(q, Len(b.nodes)) /\ Len(b.nodes) \in Nat
  BY <1>3, UptoIs, ListIs DEF Lists5
<1>5. PICK n \in Nat : n = Len(nodes) /\ n <= q
  BY <1>4 DEF Smaller
<1>6. NodeWeight * n \in Nat /\ NodeWeight * q \in Nat /\ NodeWeight * n <= NodeWeight * q
  BY <1>5, Multiplied, WeightsAreNatural
<1>7. CutNodes(b, cap) = nodes
  BY <1>1, <1>2, <1>3 DEF CutNodes
<1>8. PICK x \in Nat : x = NodeWeight * n
  BY <1>6
<1>9. PICK y \in Nat : y = NodeWeight * q
  BY <1>6
<1>10. x <= r
  BY <1>2, <1>6, <1>8, <1>9
<1> QED
  BY <1>1, <1>4, <1>5, <1>7, <1>8, <1>10

\* A cut keeps the beginning of the documents and no more than its cap, or one reference.
LEMMA CutIs ==
  ASSUME NEW b, IsBody(b), NEW cap \in Nat
  PROVE  /\ IsBody(Cut(b, cap)) /\ Begins(Cut(b, cap).documents, b.documents)
         /\ Size(Cut(b, cap)) \in Nat /\ Size(Cut(b, cap)) <= Larger(DocumentWeight, cap)
         /\ Size(b) <= cap => Cut(b, cap) = b
         /\ b.broken \/ b.compacted => Cut(b, cap).broken \/ Cut(b, cap).compacted
<1>1. Lists5(b) /\ Size(b) \in Nat
  BY SizeIs DEF IsBody
<1>2. CASE Size(b) <= cap
  <2>1. Cut(b, cap) = b
    BY <1>2 DEF Cut
  <2>2. Size(b) <= Larger(DocumentWeight, cap)
    BY <1>1, <1>2, WeightsAreNatural DEF Larger
  <2> QED
    BY <1>1, <2>1, <2>2, BeginsItself DEF Lists5
<1>3. CASE ~ (Size(b) <= cap)
  <2>1. PICK docs : docs = CutDocuments(b, cap)
    OBVIOUS
  <2>2. PICK nodes : nodes = CutNodes(b, cap)
    OBVIOUS
  <2>3. PICK c : c = [b EXCEPT !.documents = docs, !.nodes = nodes, !.related = <<>>, !.missing = <<>>,
                               !.hints = <<>>, !.broken = TRUE]
    OBVIOUS
  <2>4. Cut(b, cap) = c
    BY <1>3, <2>1, <2>2, <2>3 DEF Cut, CutDocuments, CutNodes, Room
  <2>5. IsList(docs) /\ Begins(docs, b.documents) /\ IsList(nodes)
    BY <1>1, <2>1, <2>2, CutDocumentsIs, CutNodesIs DEF Begins
  <2>6. /\ DOMAIN c = BodyFields /\ c.documents = docs /\ c.nodes = nodes /\ c.related = <<>> /\ c.missing = <<>>
        /\ c.hints = <<>> /\ c.broken = TRUE /\ c.compacted = b.compacted
    BY <2>3 DEF IsBody, BodyFields, Fields
  <2>7. IsBody(c)
    BY <2>5, <2>6, EmptyIsList DEF IsBody, Lists5
  <2>8. PICK x \in Nat : x = DocumentWeight * Len(docs) /\ x <= Larger(DocumentWeight, cap)
    BY <1>1, <2>1, CutDocumentsIs
  <2>9. PICK y \in Nat : y = NodeWeight * Len(nodes) /\ y <= Larger(0, cap - x)
    BY <1>1, <2>1, <2>2, <2>8, CutNodesIs DEF Room
  <2>10. Len(nodes) + 0 + 0 + 0 = Len(nodes)
    BY <2>5, ListIs
  <2>11. Size(c) = x + y
    BY <2>6, <2>8, <2>9, <2>10, EmptyIsList DEF Size
  <2>12. x + y <= Larger(DocumentWeight, cap)
    BY <2>8, <2>9, WeightsAreNatural DEF Larger
  <2> QED
    BY <1>3, <2>4, <2>5, <2>6, <2>7, <2>11, <2>12
<1> QED
  BY <1>2, <1>3

LEMMA WholeIs ==
  ASSUME NEW r, IsResult(r)
  PROVE  IsBody(Whole(r)) /\ Whole(r).documents = r.documents
<1>1. PICK w : w = Whole(r)
  OBVIOUS
<1>2. /\ DOMAIN w = BodyFields
      /\ w.documents = r.documents /\ w.nodes = r.nodes /\ w.related = r.related /\ w.missing = r.missing
      /\ w.hints = r.hints /\ w.compacted = FALSE /\ w.broken = FALSE
  BY <1>1 DEF Whole, IsResult, BodyFields, Fields
<1> QED
  BY <1>1, <1>2 DEF IsBody, IsResult, Lists5

\* What a tool message says of a result at first.
LEMMA BodyIs ==
  ASSUME NEW r, IsResult(r)
  PROVE  IsBody(Body(r)) /\ Begins(Body(r).documents, r.documents)
BY WholeIs, CutIs, WeightsAreNatural DEF Body

LEMMA BriefIs ==
  ASSUME NEW b, IsBody(b)
  PROVE  LET c == [Brief(b) EXCEPT !.compacted = TRUE]
         IN  IsBody(c) /\ Begins(c.documents, b.documents) /\ c.compacted = TRUE
<1>1. PICK docs : docs = Upto(b.documents, 8)
  OBVIOUS
<1>2. PICK nodes : nodes = Upto(b.nodes, 8)
  OBVIOUS
<1>3. PICK related : related = Upto(b.related, 8)
  OBVIOUS
<1>4. IsList(docs) /\ IsList(nodes) /\ IsList(related) /\ Begins(docs, b.documents)
  BY <1>1, <1>2, <1>3, UptoIs, UptoBegins DEF IsBody, Lists5
<1>5. PICK c : c = [Brief(b) EXCEPT !.compacted = TRUE]
  OBVIOUS
<1>6. c = [[b EXCEPT !.documents = docs, !.nodes = nodes, !.related = related, !.hints = <<>>] EXCEPT !.compacted = TRUE]
  BY <1>1, <1>2, <1>3, <1>5 DEF Brief
<1>7. /\ DOMAIN c = BodyFields /\ c.documents = docs /\ c.nodes = nodes /\ c.related = related
      /\ c.missing = b.missing /\ c.hints = <<>> /\ c.broken = b.broken /\ c.compacted = TRUE
  BY <1>6 DEF IsBody, BodyFields, Fields
<1>8. IsBody(c)
  BY <1>4, <1>7, EmptyIsList DEF IsBody, Lists5
<1> QED
  BY <1>4, <1>5, <1>7, <1>8

\* A receipt is a receipt: a second one is only a cut.
LEMMA ReceiptIs ==
  ASSUME NEW b, IsBody(b), NEW cap \in Nat
  PROVE  /\ IsBody(Receipt(b, cap)) /\ Begins(Receipt(b, cap).documents, b.documents)
         /\ Size(Receipt(b, cap)) \in Nat /\ Size(Receipt(b, cap)) <= Larger(DocumentWeight, cap)
         /\ Receipt(b, cap).broken \/ Receipt(b, cap).compacted
<1>1. CASE b.broken \/ b.compacted
  <2>1. Receipt(b, cap) = Cut(b, cap)
    BY <1>1 DEF Receipt
  <2> QED
    BY <1>1, <2>1, CutIs
<1>2. CASE ~ (b.broken \/ b.compacted)
  <2>1. PICK c : c = [Brief(b) EXCEPT !.compacted = TRUE]
    OBVIOUS
  <2>2. IsBody(c) /\ Begins(c.documents, b.documents) /\ c.compacted
    BY <2>1, BriefIs
  <2>3. Receipt(b, cap) = Cut(c, cap)
    BY <1>2, <2>1 DEF Receipt
  <2>4. /\ IsBody(Cut(c, cap)) /\ Begins(Cut(c, cap).documents, c.documents)
        /\ Size(Cut(c, cap)) \in Nat /\ Size(Cut(c, cap)) <= Larger(DocumentWeight, cap)
        /\ Cut(c, cap).broken \/ Cut(c, cap).compacted
    BY <2>2, CutIs
  <2>5. IsList(b.documents)
    BY DEF IsBody, Lists5
  <2> QED
    BY <2>2, <2>3, <2>4, <2>5, BeginsBegins
<1> QED
  BY <1>1, <1>2

\* A smaller or larger cap the second time leaves what fits the first within it.
LEMMA SecondReceipt ==
  ASSUME NEW b, IsBody(b), b.broken \/ b.compacted, NEW cap \in Nat, NEW cap2 \in Nat,
         Size(b) <= Larger(DocumentWeight, cap)
  PROVE  Size(Receipt(b, cap2)) <= Larger(DocumentWeight, cap)
<1>1. Receipt(b, cap2) = Cut(b, cap2)
  BY DEF Receipt
<1>2. PICK m \in Nat : m = Size(b)
  BY SizeIs DEF IsBody
<1>3. PICK n \in Nat : n = Size(Cut(b, cap2)) /\ n <= Larger(DocumentWeight, cap2)
  BY CutIs
<1>4. m <= cap2 => n = m
  BY <1>2, <1>3, CutIs
<1>5. m <= Larger(DocumentWeight, cap)
  BY <1>2
<1>6. n <= Larger(DocumentWeight, cap)
  BY <1>3, <1>4, <1>5, WeightsAreNatural DEF Larger
<1> QED
  BY <1>1, <1>3, <1>6

-----------------------------------------------------------------------------
(* The inductive invariant.  A turn's tool messages stand right behind its *)
(* assistant message, in the order of its calls.                           *)

MessageFields == {"role", "id", "calls", "body"}
IsMessage(m) ==
  /\ DOMAIN m = MessageFields /\ IsList(m.calls)
  /\ m.role = "tool" => IsBody(m.body)
  /\ m.role # "assistant" => m.calls = <<>>
IsTranscript(ms) == IsList(ms) /\ \A i \in DOMAIN ms : IsMessage(ms[i])

Asks(ms, i) == i \in DOMAIN ms /\ ms[i].role = "assistant"
Opens(ms) == Len(ms) >= 2 /\ ms[1].role = "system" /\ ms[2].role = "user"

\* The ids of a call are its turn and its place in the turn; no two turns are the same.
Numbered(ms, t) ==
  \A i \in DOMAIN ms : ms[i].calls # <<>> =>
    /\ Asks(ms, i)
    /\ \E u \in 1 .. t : \A k \in DOMAIN ms[i].calls : ms[i].calls[k] = <<u, k>>
Different(ms) ==
  \A i, j \in DOMAIN ms : \A k \in DOMAIN ms[i].calls : \A l \in DOMAIN ms[j].calls :
    ms[i].calls[k] = ms[j].calls[l] => i = j /\ k = l

\* A tool message answers a call of the turn it stands in; what stands in a turn is an answer.
Answers1(ms, j) ==
  \E i \in DOMAIN ms : \E k \in DOMAIN ms[i].calls :
    /\ j = i + k /\ ms[j].id = ms[i].calls[k] /\ \A l \in i + 1 .. j - 1 : ms[l].role = "tool"
Answering(ms) == \A j \in DOMAIN ms : ms[j].role = "tool" => Answers1(ms, j)
Answered(ms) ==
  \A i \in DOMAIN ms : \A k \in DOMAIN ms[i].calls :
    i + k <= Len(ms) => ms[i + k].role = "tool" /\ ms[i + k].id = ms[i].calls[k]

\* Every turn is complete, or all but the last one, of which n calls are answered.
Closed(ms, i) == i + Len(ms[i].calls) <= Len(ms)
AllClosed(ms) == \A i \in DOMAIN ms : Closed(ms, i)
OpenAt(ms, cs, t, n) ==
  LET a == Len(ms) - n
  IN  /\ Asks(ms, a) /\ ms[a].calls = [k \in DOMAIN cs |-> <<t, k>>]
      /\ \A i \in DOMAIN ms : i # a => Closed(ms, i)

Structured(ms, t) ==
  IsTranscript(ms) /\ Opens(ms) /\ Numbered(ms, t) /\ Different(ms) /\ Answering(ms) /\ Answered(ms)

\* A result has its tool message, with the first of its documents.
Told(ms, rs) ==
  /\ \A n \in DOMAIN rs : \E j \in DOMAIN ms : ms[j].role = "tool" /\ ms[j].id = rs[n].id
  /\ \A n \in DOMAIN rs : \A j \in DOMAIN ms :
       ms[j].role = "tool" /\ ms[j].id = rs[n].id => Begins(ms[j].body.documents, rs[n].result.documents)

Fits(ms) ==
  \A i \in DOMAIN ms : ms[i].role = "tool" =>
    Size(ms[i].body) <= Larger(DocumentWeight, IF i >= LastAssistant(ms) THEN LastRoundCap ELSE ReceiptCap)

\* The documents of all results.
ReadSet(rs) == UNION {ToSet(rs[n].result.documents) : n \in DOMAIN rs}
AreResults(rs) == IsList(rs) /\ \A n \in DOMAIN rs : IsResult(rs[n].result)
AreCalls(cs) == IsList(cs) /\ \A k \in DOMAIN cs : cs[k].limit \in Nat

Stored(c, docs) ==
  /\ IsList(docs) /\ \A i \in DOMAIN docs : docs[i] \in Storable(c)
  /\ \A i, j \in DOMAIN docs : docs[i].id = docs[j].id => i = j

Entry == {"coll", "docs", "then", "complete", "steady"}
Listed(f) ==
  /\ IsList(f) /\ Len(f) <= Len(Names)
  /\ \A i \in DOMAIN f : DOMAIN f[i] = Entry /\ f[i].coll = Names[i] /\ f[i].docs \in Listings(Names[i])

Before == {"index", "list", "count", "save", "start", "load", "prompt"}
Asking == {"top", "model", "calls", "reading"}

SourceInv == DOMAIN db = DOMAIN Database /\ \A c \in DOMAIN db : Stored(c, db[c])
FoundInv ==
  /\ most \in Nat /\ (pc = "index" => found = <<>>)
  /\ pc \in {"list", "count", "save"} => Listed(found)
  /\ pc = "list" => Len(found) < Len(Names)
  /\ pc = "count" => Len(found) # 0
  /\ pc = "save" => Len(found) = Len(Names)
IndexInv ==
  /\ index = NoIndex \/ IsIndex(index)
  /\ pc \in {"prompt"} \cup Asking => IsIndex(index)
CallInv ==
  /\ IsGot(got) /\ AreCalls(calls) /\ at \in 1 .. Len(calls) + 1
  /\ pc = "reading" => at <= Len(calls)
TurnInv ==
  /\ turns \in 0 .. MaxTurns + 1 /\ forced \in BOOLEAN
  /\ pc \in Asking => turns <= MaxTurns
  /\ pc = "model" /\ ~ forced => turns < MaxTurns
  /\ pc \in Before => turns = 0
TranscriptInv ==
  /\ pc \in Before => results = <<>>
  /\ pc \in Asking => Structured(messages, turns) /\ Told(messages, results)
  /\ pc \in {"top", "model"} => AllClosed(messages)
  /\ pc \in {"calls", "reading"} => OpenAt(messages, calls, turns, at - 1)
  /\ pc = "model" => Fits(messages) /\ (forced => messages[Len(messages)].role = "force")
GatheredInv ==
  /\ pc \notin {"done", "raised"} => AreResults(results) /\ IsList(gathered) /\ ToSet(gathered) = ReadSet(results)
  /\ CitationsRead
PlaceInv ==
  /\ pc \in Before \cup Asking \cup {"refused", "finish", "done", "raised"}
  /\ sidecar \in {"none", "open", "closed"} /\ bounced \in BOOLEAN /\ edits \in 0 .. MaxEdits
  /\ draft.submitted \in BOOLEAN

IInv ==
  SourceInv /\ FoundInv /\ IndexInv /\ CallInv /\ TurnInv /\ TranscriptInv /\ GatheredInv /\ PlaceInv

-----------------------------------------------------------------------------
(* Shortening a transcript.                                                *)

Shortens(out, ms) ==
  /\ IsTranscript(out) /\ Len(out) = Len(ms) /\ DOMAIN out = DOMAIN ms
  /\ \A i \in DOMAIN ms : /\ out[i].role = ms[i].role /\ out[i].id = ms[i].id /\ out[i].calls = ms[i].calls
                          /\ ms[i].role = "tool" => Begins(out[i].body.documents, ms[i].body.documents)

LEMMA ShortenedIs ==
  ASSUME NEW ms, IsTranscript(ms), NEW lim \in [DOMAIN ms -> Nat], NEW out,
         out = [i \in DOMAIN ms |-> IF ms[i].role = "tool" THEN [ms[i] EXCEPT !.body = Receipt(@, lim[i])] ELSE ms[i]]
  PROVE  /\ Shortens(out, ms)
         /\ \A i \in DOMAIN ms : ms[i].role = "tool" =>
              /\ Size(out[i].body) <= Larger(DocumentWeight, lim[i])
              /\ out[i].body = Receipt(ms[i].body, lim[i]) /\ (out[i].body.broken \/ out[i].body.compacted)
<1>1. PICK n \in Nat : n = Len(ms) /\ DOMAIN ms = 1 .. n
  BY ListIs DEF IsTranscript
<1>2. out = [i \in 1 .. n |-> out[i]]
  BY <1>1
<1>3. IsList(out) /\ Len(out) = n /\ DOMAIN out = 1 .. n
  BY <1>2, ListOf
<1>4. ASSUME NEW i \in DOMAIN ms
      PROVE  /\ IsMessage(out[i])
             /\ out[i].role = ms[i].role /\ out[i].id = ms[i].id /\ out[i].calls = ms[i].calls
             /\ ms[i].role = "tool" =>
                  /\ Begins(out[i].body.documents, ms[i].body.documents)
                  /\ Size(out[i].body) <= Larger(DocumentWeight, lim[i])
                  /\ out[i].body = Receipt(ms[i].body, lim[i]) /\ (out[i].body.broken \/ out[i].body.compacted)
  <2>1. IsMessage(ms[i])
    BY DEF IsTranscript
  <2>2. CASE ms[i].role # "tool"
    BY <2>1, <2>2
  <2>3. CASE ms[i].role = "tool"
    <3>1. PICK b : b = Receipt(ms[i].body, lim[i])
      OBVIOUS
    <3>2. IsBody(ms[i].body) /\ lim[i] \in Nat
      BY <2>1, <2>3 DEF IsMessage
    <3>3. /\ IsBody(b) /\ Begins(b.documents, ms[i].body.documents)
          /\ Size(b) <= Larger(DocumentWeight, lim[i]) /\ (b.broken \/ b.compacted)
      BY <3>1, <3>2, ReceiptIs
    <3>4. out[i] = [ms[i] EXCEPT !.body = b]
      BY <2>3, <3>1
    <3>5. /\ DOMAIN out[i] = MessageFields /\ out[i].role = ms[i].role /\ out[i].id = ms[i].id
          /\ out[i].calls = ms[i].calls /\ out[i].body = b
      BY <2>1, <3>4 DEF IsMessage, MessageFields
    <3> QED
      BY <2>1, <2>3, <3>1, <3>3, <3>5 DEF IsMessage
  <2> QED
    BY <2>2, <2>3
<1> QED
  BY <1>1, <1>3, <1>4 DEF Shortens, IsTranscript

LEMMA ShortensAgain ==
  ASSUME NEW ms, IsTranscript(ms), NEW out, Shortens(out, ms), NEW more, Shortens(more, out)
  PROVE  Shortens(more, ms)
<1>1. ASSUME NEW i \in DOMAIN ms, ms[i].role = "tool"
      PROVE  Begins(more[i].body.documents, ms[i].body.documents)
  <2>1. IsList(ms[i].body.documents)
    BY <1>1 DEF IsTranscript, IsMessage, IsBody, Lists5
  <2> QED
    BY <1>1, <2>1, BeginsBegins DEF Shortens
<1> QED
  BY <1>1 DEF Shortens

LEMMA SameLastAssistant ==
  ASSUME NEW ms, IsTranscript(ms), Len(ms) # 0, NEW out, Shortens(out, ms)
  PROVE  LastAssistant(out) = LastAssistant(ms)
<1>1. PICK n \in Nat \ {0} : n = Len(ms) /\ DOMAIN ms = 1 .. n /\ Len(out) = n
  BY ListIs DEF IsTranscript, Shortens
<1>2. \A i \in 1 .. n : out[i].role = ms[i].role /\ out[i].calls = ms[i].calls
  BY <1>1 DEF Shortens
<1>3. Prefix(out) = Prefix(ms) /\ Prefix(ms) \in Nat
  BY <1>1, <1>2 DEF Prefix
<1>4. Forces(out) = Forces(ms)
  BY <1>1, <1>2, <1>3 DEF Forces
<1>5. BodyEnd(out) = BodyEnd(ms) /\ BodyEnd(ms) \in 0 .. n
  BY <1>1, <1>4 DEF BodyEnd
<1>6. PICK p \in Nat \ {0} : p = Prefix(ms)
  BY DEF Prefix
<1>7. PICK e \in 0 .. n : e = BodyEnd(ms)
  BY <1>5
<1>8. PICK S : S = {i \in p + 1 .. e : ms[i].role = "assistant" /\ ms[i].calls # <<>>}
  OBVIOUS
<1>9. S = {i \in p + 1 .. e : out[i].role = "assistant" /\ out[i].calls # <<>>}
  BY <1>2, <1>8
<1>10. LastAssistant(ms) = IF S = {} THEN Len(ms) + 1 ELSE Max(S)
  BY <1>6, <1>7, <1>8 DEF LastAssistant
<1>11. LastAssistant(out) = IF S = {} THEN Len(out) + 1 ELSE Max(S)
  BY <1>3, <1>5, <1>6, <1>7, <1>9 DEF LastAssistant
<1> QED
  BY <1>1, <1>10, <1>11

\* A transcript that was compacted is the same but for its tool messages, which fit.
LEMMA CompactIs ==
  ASSUME NEW ms, IsTranscript(ms), Len(ms) # 0
  PROVE  Shortens(CompactMessages(ms), ms) /\ Fits(CompactMessages(ms))
<1>1. PICK last : last = LastAssistant(ms)
  OBVIOUS
<1>2. PICK lim : lim = [i \in DOMAIN ms |-> IF i >= last THEN LastRoundCap ELSE ReceiptCap]
  OBVIOUS
<1>3. lim \in [DOMAIN ms -> Nat]
  BY <1>2, WeightsAreNatural
<1>4. PICK out : out = [i \in DOMAIN ms |-> IF ms[i].role = "tool" THEN [ms[i] EXCEPT !.body = Receipt(@, lim[i])] ELSE ms[i]]
  OBVIOUS
<1>5. /\ Shortens(out, ms)
      /\ \A i \in DOMAIN ms : ms[i].role = "tool" =>
           /\ Size(out[i].body) <= Larger(DocumentWeight, lim[i])
           /\ out[i].body.broken \/ out[i].body.compacted
  BY <1>3, <1>4, ShortenedIs
<1>6. IsTranscript(out) /\ DOMAIN out = DOMAIN ms /\ LastAssistant(out) = last
  BY <1>1, <1>5, SameLastAssistant DEF Shortens
<1>7. Fits(out)
  BY <1>2, <1>5, <1>6 DEF Fits, Shortens
<1>8. PICK small : small = [i \in DOMAIN out |-> ReceiptCap]
  OBVIOUS
<1>9. small \in [DOMAIN out -> Nat]
  BY <1>8, WeightsAreNatural
<1>10. PICK more : more = [i \in DOMAIN out |-> IF out[i].role = "tool" THEN [out[i] EXCEPT !.body = Receipt(@, small[i])] ELSE out[i]]
  OBVIOUS
<1>11. /\ Shortens(more, out)
       /\ \A i \in DOMAIN out : out[i].role = "tool" => more[i].body = Receipt(out[i].body, ReceiptCap)
  BY <1>6, <1>8, <1>9, <1>10, ShortenedIs, SMTT(30)
<1>12. Shortens(more, ms)
  BY <1>5, <1>11, ShortensAgain
<1>13. LastAssistant(more) = last
  BY <1>1, <1>12, SameLastAssistant
<1>14. Fits(more)
  <2>1. SUFFICES ASSUME NEW i \in DOMAIN more, more[i].role = "tool"
                 PROVE  Size(more[i].body) <= Larger(DocumentWeight, IF i >= last THEN LastRoundCap ELSE ReceiptCap)
    BY <1>13 DEF Fits
  <2>2. i \in DOMAIN ms /\ i \in DOMAIN out /\ out[i].role = "tool" /\ ms[i].role = "tool"
    BY <1>5, <1>11, <2>1 DEF Shortens
  <2>3. more[i].body = Receipt(out[i].body, ReceiptCap)
    BY <1>11, <2>2
  <2>4. IsBody(out[i].body) /\ (out[i].body.broken \/ out[i].body.compacted) /\ Size(out[i].body) <= Larger(DocumentWeight, lim[i])
    BY <1>5, <1>6, <2>2 DEF IsTranscript, IsMessage
  <2>5. lim[i] \in Nat /\ lim[i] = IF i >= last THEN LastRoundCap ELSE ReceiptCap
    BY <1>2, <1>3, <2>2
  <2>6. Size(more[i].body) <= Larger(DocumentWeight, lim[i])
    BY <2>3, <2>4, <2>5, SecondReceipt, WeightsAreNatural
  <2> QED
    BY <2>5, <2>6
<1>15. CompactMessages(ms) = out \/ CompactMessages(ms) = more
  <2>1. Shortened(ms, LAMBDA i : IF i >= last THEN LastRoundCap ELSE ReceiptCap) = out
    BY <1>2, <1>4 DEF Shortened
  <2>2. Shortened(out, LAMBDA i : ReceiptCap) = more
    BY <1>8, <1>10 DEF Shortened
  <2> QED
    BY <1>1, <2>1, <2>2 DEF CompactMessages
<1> QED
  BY <1>5, <1>7, <1>12, <1>14, <1>15

LEMMA ShortensKeeps ==
  ASSUME NEW t, NEW ms, Structured(ms, t), NEW out, Shortens(out, ms)
  PROVE  Structured(out, t) /\ (AllClosed(ms) => AllClosed(out))
<1>1. /\ IsTranscript(out) /\ Len(out) = Len(ms) /\ DOMAIN out = DOMAIN ms
      /\ \A i \in DOMAIN ms : out[i].role = ms[i].role /\ out[i].id = ms[i].id /\ out[i].calls = ms[i].calls
  BY DEF Shortens
<1>2. PICK n \in Nat : n = Len(ms) /\ DOMAIN ms = 1 .. n
  BY ListIs DEF Structured, IsTranscript
<1>3. Opens(out)
  BY <1>1, <1>2 DEF Opens, Structured
<1>4. Numbered(out, t)
  BY <1>1 DEF Numbered, Asks, Structured
<1>5. Different(out)
  BY <1>1 DEF Different, Structured
<1>6. Answering(out)
  <2>1. SUFFICES ASSUME NEW j \in DOMAIN ms, ms[j].role = "tool" PROVE Answers1(out, j)
    BY <1>1 DEF Answering
  <2>2. PICK i \in DOMAIN ms : \E k \in DOMAIN ms[i].calls :
               j = i + k /\ ms[j].id = ms[i].calls[k] /\ \A l \in i + 1 .. j - 1 : ms[l].role = "tool"
    BY <2>1 DEF Structured, Answering, Answers1
  <2>3. \A l \in i + 1 .. j - 1 : l \in DOMAIN ms
    BY <1>2
  <2> QED
    BY <1>1, <2>2, <2>3 DEF Answers1
<1>7. Answered(out)
  <2>1. SUFFICES ASSUME NEW i \in DOMAIN ms, NEW k \in DOMAIN ms[i].calls, i + k <= Len(ms)
                 PROVE  out[i + k].role = "tool" /\ out[i + k].id = ms[i].calls[k]
    BY <1>1 DEF Answered
  <2>2. k \in Nat
    BY ListIs DEF Structured, IsTranscript, IsMessage
  <2>3. i + k \in DOMAIN ms
    BY <1>2, <2>1, <2>2
  <2> QED
    BY <1>1, <2>1, <2>3 DEF Structured, Answered
<1>8. AllClosed(ms) => AllClosed(out)
  BY <1>1 DEF AllClosed, Closed
<1> QED
  BY <1>1, <1>3, <1>4, <1>5, <1>6, <1>7, <1>8 DEF Structured

LEMMA ShortensTells ==
  ASSUME NEW t, NEW ms, Structured(ms, t), NEW rs, AreResults(rs), Told(ms, rs), NEW out, Shortens(out, ms)
  PROVE  Told(out, rs)
<1>1. ASSUME NEW n \in DOMAIN rs, NEW j \in DOMAIN ms, out[j].role = "tool", out[j].id = rs[n].id
      PROVE  Begins(out[j].body.documents, rs[n].result.documents)
  <2>1. ms[j].role = "tool" /\ ms[j].id = rs[n].id
    BY <1>1 DEF Shortens
  <2>2. Begins(ms[j].body.documents, rs[n].result.documents) /\ Begins(out[j].body.documents, ms[j].body.documents)
    BY <2>1 DEF Shortens, Told
  <2>3. IsList(rs[n].result.documents)
    BY DEF AreResults, IsResult, Lists5
  <2> QED
    BY <2>2, <2>3, BeginsBegins
<1>2. \A n \in DOMAIN rs : \E j \in DOMAIN out : out[j].role = "tool" /\ out[j].id = rs[n].id
  BY DEF Shortens, Told
<1> QED
  BY <1>1, <1>2 DEF Told, Shortens

-----------------------------------------------------------------------------
(* Growing a transcript.                                                   *)

LEMMA TranscriptGrows ==
  ASSUME NEW ms, IsTranscript(ms), NEW m, IsMessage(m)
  PROVE  /\ IsTranscript(Append(ms, m)) /\ Len(ms) \in Nat /\ DOMAIN ms = 1 .. Len(ms)
         /\ Len(Append(ms, m)) = Len(ms) + 1 /\ DOMAIN Append(ms, m) = 1 .. Len(ms) + 1
         /\ \A i \in DOMAIN ms : Append(ms, m)[i] = ms[i]
         /\ Append(ms, m)[Len(ms) + 1] = m
<1>1. PICK n \in Nat : n = Len(ms) /\ DOMAIN ms = 1 .. n /\ IsList(ms)
  BY ListIs DEF IsTranscript
<1>2. PICK out : out = Append(ms, m)
  OBVIOUS
<1>3. IsList(out) /\ Len(out) = n + 1 /\ (\A i \in 1 .. n : out[i] = ms[i]) /\ out[n + 1] = m
  BY <1>1, <1>2, Appended
<1>4. DOMAIN out = 1 .. n + 1
  BY <1>3, ListIs
<1>5. \A i \in 1 .. n + 1 : IsMessage(out[i])
  <2>1. SUFFICES ASSUME NEW i \in 1 .. n + 1 PROVE IsMessage(out[i])
    OBVIOUS
  <2>2. CASE i = n + 1
    BY <1>3, <2>2
  <2>3. CASE i \in 1 .. n
    BY <1>1, <1>3, <2>3 DEF IsTranscript
  <2> QED
    BY <2>2, <2>3
<1> QED
  BY <1>1, <1>2, <1>3, <1>4, <1>5 DEF IsTranscript

LEMMA StillAnswers ==
  ASSUME NEW n \in Nat, NEW ms, DOMAIN ms = 1 .. n, NEW out, DOMAIN out = 1 .. n + 1, \A i \in 1 .. n : out[i] = ms[i],
         NEW j \in 1 .. n, Answers1(ms, j)
  PROVE  Answers1(out, j)
<1>1. PICK i \in 1 .. n : \E k \in DOMAIN ms[i].calls :
             j = i + k /\ ms[j].id = ms[i].calls[k] /\ \A l \in i + 1 .. j - 1 : ms[l].role = "tool"
  BY DEF Answers1
<1>2. PICK k \in DOMAIN ms[i].calls :
             j = i + k /\ ms[j].id = ms[i].calls[k] /\ \A l \in i + 1 .. j - 1 : ms[l].role = "tool"
  BY <1>1
<1>3. \A l \in i + 1 .. j - 1 : out[l].role = "tool"
  <2>1. SUFFICES ASSUME NEW l \in i + 1 .. j - 1 PROVE out[l].role = "tool"
    OBVIOUS
  <2>2. l \in 1 .. n
    OBVIOUS
  <2> QED
    BY <1>2, <2>2
<1>4. i \in DOMAIN out /\ k \in DOMAIN out[i].calls /\ out[j].id = out[i].calls[k]
  BY <1>2
<1> QED
  BY <1>2, <1>3, <1>4 DEF Answers1

\* Behind complete turns stands another message that asks for nothing and answers nothing.
LEMMA PlainMessage ==
  ASSUME NEW t, NEW ms, Structured(ms, t), AllClosed(ms), NEW rs, Told(ms, rs),
         NEW m, IsMessage(m), m.role # "tool", m.calls = <<>>
  PROVE  Structured(Append(ms, m), t) /\ AllClosed(Append(ms, m)) /\ Told(Append(ms, m), rs)
<1>1. PICK n \in Nat : n = Len(ms) /\ DOMAIN ms = 1 .. n
  BY ListIs DEF Structured, IsTranscript
<1>2. PICK out : out = Append(ms, m)
  OBVIOUS
<1>3. /\ IsTranscript(out) /\ Len(out) = n + 1 /\ DOMAIN out = 1 .. n + 1
      /\ (\A i \in 1 .. n : out[i] = ms[i]) /\ out[n + 1] = m
  BY <1>1, <1>2, TranscriptGrows DEF Structured
<1>4. /\ out[n + 1].calls = <<>> /\ DOMAIN out[n + 1].calls = {} /\ Len(out[n + 1].calls) = 0
      /\ out[n + 1].role # "tool"
  BY <1>3, EmptyIsList
<1>5. \A i \in 1 .. n + 1 : i \in 1 .. n \/ i = n + 1
  BY <1>1
<1>6. Opens(out)
  BY <1>1, <1>3 DEF Opens, Structured
<1>7. Numbered(out, t)
  <2>1. SUFFICES ASSUME NEW i \in 1 .. n, out[i].calls # <<>>
                 PROVE  Asks(out, i) /\ \E u \in 1 .. t : \A k \in DOMAIN out[i].calls : out[i].calls[k] = <<u, k>>
    BY <1>3, <1>4, <1>5 DEF Numbered
  <2> QED
    BY <1>1, <1>3, <2>1 DEF Numbered, Asks, Structured
<1>8. Different(out)
  BY <1>1, <1>3, <1>4, <1>5 DEF Different, Structured
<1>9. Answering(out)
  <2>1. SUFFICES ASSUME NEW j \in 1 .. n, ms[j].role = "tool" PROVE Answers1(out, j)
    BY <1>3, <1>4, <1>5 DEF Answering
  <2>2. Answers1(ms, j)
    BY <1>1, <2>1 DEF Structured, Answering
  <2> QED
    BY <1>1, <1>3, <2>2, StillAnswers
<1>10. Answered(out)
  <2>1. SUFFICES ASSUME NEW i \in 1 .. n, NEW k \in DOMAIN ms[i].calls
                 PROVE  out[i + k].role = "tool" /\ out[i + k].id = ms[i].calls[k]
    BY <1>3, <1>4, <1>5 DEF Answered
  <2>2. k \in 1 .. Len(ms[i].calls) /\ Len(ms[i].calls) \in Nat
    BY <1>1, ListIs DEF Structured, IsTranscript, IsMessage
  <2>3. i + k <= n /\ i + k \in 1 .. n
    BY <1>1, <2>2 DEF AllClosed, Closed
  <2> QED
    BY <1>1, <1>3, <2>3 DEF Structured, Answered
<1>11. AllClosed(out)
  <2>1. SUFFICES ASSUME NEW i \in 1 .. n PROVE i + Len(ms[i].calls) <= n + 1
    BY <1>3, <1>4, <1>5 DEF AllClosed, Closed
  <2>2. Len(ms[i].calls) \in Nat
    BY <1>1, ListIs DEF Structured, IsTranscript, IsMessage
  <2> QED
    BY <1>1, <2>2 DEF AllClosed, Closed
<1>12. Told(out, rs)
  BY <1>1, <1>3, <1>4, <1>5 DEF Told
<1> QED
  BY <1>2, <1>3, <1>6, <1>7, <1>8, <1>9, <1>10, <1>11, <1>12 DEF Structured

\* So does an assistant message with the calls of a new turn.
LEMMA AskingMessage ==
  ASSUME NEW t \in Nat, NEW ms, Structured(ms, t), AllClosed(ms), NEW rs, Told(ms, rs), NEW cs, IsList(cs),
         NEW m, m = AssistantMessage([k \in DOMAIN cs |-> <<t + 1, k>>])
  PROVE  Structured(Append(ms, m), t + 1) /\ OpenAt(Append(ms, m), cs, t + 1, 0) /\ Told(Append(ms, m), rs)
<1>1. PICK n \in Nat : n = Len(ms) /\ DOMAIN ms = 1 .. n
  BY ListIs DEF Structured, IsTranscript
<1>2. PICK out : out = Append(ms, m)
  OBVIOUS
<1>3. PICK ids : ids = [k \in DOMAIN cs |-> <<t + 1, k>>]
  OBVIOUS
<1>4. IsList(ids) /\ DOMAIN ids = DOMAIN cs /\ \A k \in DOMAIN ids : ids[k] = <<t + 1, k>>
  <2>1. DOMAIN ids = DOMAIN cs /\ ids = [k \in DOMAIN cs |-> ids[k]]
    BY <1>3
  <2> QED
    BY <1>3, <2>1, SortedList
<1>5. m.role = "assistant" /\ m.calls = ids /\ IsMessage(m)
  BY <1>3, <1>4 DEF AssistantMessage, Message, IsMessage, MessageFields
<1>6. /\ IsTranscript(out) /\ Len(out) = n + 1 /\ DOMAIN out = 1 .. n + 1
      /\ (\A i \in 1 .. n : out[i] = ms[i]) /\ out[n + 1] = m
  BY <1>1, <1>2, <1>5, TranscriptGrows DEF Structured
<1>7. \A i \in 1 .. n + 1 : i \in 1 .. n \/ i = n + 1
  BY <1>1
<1>8. Opens(out)
  BY <1>1, <1>6 DEF Opens, Structured
<1>9. ASSUME NEW i \in 1 .. n, ms[i].calls # <<>>
      PROVE  Asks(out, i) /\ \E u \in 1 .. t : \A k \in DOMAIN ms[i].calls : ms[i].calls[k] = <<u, k>>
  BY <1>1, <1>6, <1>9 DEF Numbered, Asks, Structured
<1>10. Numbered(out, t + 1)
  <2>1. ASSUME NEW i \in 1 .. n, out[i].calls # <<>>
        PROVE  Asks(out, i) /\ \E u \in 1 .. t + 1 : \A k \in DOMAIN out[i].calls : out[i].calls[k] = <<u, k>>
    <3>1. PICK u \in 1 .. t : \A k \in DOMAIN ms[i].calls : ms[i].calls[k] = <<u, k>>
      BY <1>6, <1>9, <2>1
    <3>2. u \in 1 .. t + 1
      OBVIOUS
    <3> QED
      BY <1>6, <1>9, <2>1, <3>1, <3>2
  <2>2. Asks(out, n + 1) /\ t + 1 \in 1 .. t + 1 /\ \A k \in DOMAIN out[n + 1].calls : out[n + 1].calls[k] = <<t + 1, k>>
    BY <1>4, <1>5, <1>6, SMTT(30) DEF Asks
  <2> QED
    BY <1>6, <1>7, <2>1, <2>2 DEF Numbered
<1>11. ASSUME NEW i \in 1 .. n, NEW k \in DOMAIN ms[i].calls, NEW l \in DOMAIN ids
       PROVE  ms[i].calls[k] # ids[l]
  <2>1. ms[i].calls # <<>>
    BY EmptyIsList
  <2>2. PICK u \in 1 .. t : ms[i].calls[k] = <<u, k>>
    BY <1>9, <2>1
  <2>3. ids[l] = <<t + 1, l>> /\ u # t + 1
    BY <1>4
  <2> QED
    BY <2>2, <2>3
<1>12. Different(out)
  <2>1. SUFFICES ASSUME NEW i \in 1 .. n + 1, NEW j \in 1 .. n + 1,
                        NEW k \in DOMAIN out[i].calls, NEW l \in DOMAIN out[j].calls,
                        out[i].calls[k] = out[j].calls[l]
                 PROVE  i = j /\ k = l
    BY <1>6 DEF Different
  <2>2. CASE i \in 1 .. n /\ j \in 1 .. n
    BY <1>1, <1>6, <2>1, <2>2 DEF Different, Structured
  <2>3. CASE i \in 1 .. n /\ j = n + 1
    BY <1>5, <1>6, <1>11, <2>1, <2>3
  <2>4. CASE i = n + 1 /\ j \in 1 .. n
    BY <1>5, <1>6, <1>11, <2>1, <2>4
  <2>5. CASE i = n + 1 /\ j = n + 1
    <3>1. <<t + 1, k>> = <<t + 1, l>>
      BY <1>4, <1>5, <1>6, <2>1, <2>5
    <3> QED
      BY <2>5, <3>1
  <2> QED
    BY <1>7, <2>2, <2>3, <2>4, <2>5
<1>13. Answering(out)
  <2>1. SUFFICES ASSUME NEW j \in 1 .. n, ms[j].role = "tool" PROVE Answers1(out, j)
    BY <1>5, <1>6, <1>7 DEF Answering
  <2>2. Answers1(ms, j)
    BY <1>1, <2>1 DEF Structured, Answering
  <2> QED
    BY <1>1, <1>6, <2>2, StillAnswers
<1>14. Answered(out)
  <2>1. ASSUME NEW i \in 1 .. n, NEW k \in DOMAIN ms[i].calls
        PROVE  out[i + k].role = "tool" /\ out[i + k].id = ms[i].calls[k]
    <3>1. k \in 1 .. Len(ms[i].calls) /\ Len(ms[i].calls) \in Nat
      BY <1>1, ListIs DEF Structured, IsTranscript, IsMessage
    <3>2. i + k <= n /\ i + k \in 1 .. n
      BY <1>1, <3>1 DEF AllClosed, Closed
    <3> QED
      BY <1>1, <1>6, <3>2 DEF Structured, Answered
  <2>2. ASSUME NEW k \in DOMAIN out[n + 1].calls PROVE ~ (n + 1 + k <= n + 1)
    <3>1. k \in Nat \ {0}
      BY <1>4, <1>5, <1>6, <2>2, ListIs
    <3> QED
      BY <3>1
  <2> QED
    BY <1>6, <1>7, <2>1, <2>2 DEF Answered
<1>15. OpenAt(out, cs, t + 1, 0)
  <2>1. ASSUME NEW i \in 1 .. n PROVE Closed(out, i)
    <3>1. Len(ms[i].calls) \in Nat
      BY <1>1, ListIs DEF Structured, IsTranscript, IsMessage
    <3> QED
      BY <1>1, <1>6, <3>1 DEF AllClosed, Closed
  <2>2. Asks(out, n + 1) /\ out[n + 1].calls = [k \in DOMAIN cs |-> <<t + 1, k>>]
    BY <1>3, <1>5, <1>6 DEF Asks
  <2>3. Len(out) - 0 = n + 1
    BY <1>6
  <2> QED
    BY <1>6, <1>7, <2>1, <2>2, <2>3 DEF OpenAt
<1>16. Told(out, rs)
  BY <1>1, <1>5, <1>6, <1>7 DEF Told
<1> QED
  BY <1>2, <1>6, <1>8, <1>10, <1>12, <1>13, <1>14, <1>15, <1>16 DEF Structured

\* The next call of the open turn gets its answer, and no call had that id before.
LEMMA AnsweringMessage ==
  ASSUME NEW t \in Nat, NEW ms, Structured(ms, t), NEW cs, IsList(cs), NEW q \in Nat, q < Len(cs), OpenAt(ms, cs, t, q),
         NEW m, IsMessage(m), m.role = "tool", m.id = <<t, q + 1>>
  PROVE  /\ Structured(Append(ms, m), t) /\ OpenAt(Append(ms, m), cs, t, q + 1)
         /\ \A j \in DOMAIN ms : ms[j].role = "tool" => ms[j].id # m.id
<1>1. PICK n \in Nat : n = Len(ms) /\ DOMAIN ms = 1 .. n
  BY ListIs DEF Structured, IsTranscript
<1>2. PICK out : out = Append(ms, m)
  OBVIOUS
<1>3. /\ IsTranscript(out) /\ Len(out) = n + 1 /\ DOMAIN out = 1 .. n + 1
      /\ (\A i \in 1 .. n : out[i] = ms[i]) /\ out[n + 1] = m
  BY <1>1, <1>2, TranscriptGrows DEF Structured
<1>4. \A i \in 1 .. n + 1 : i \in 1 .. n \/ i = n + 1
  BY <1>1
<1>5. PICK c \in Nat : c = Len(cs) /\ DOMAIN cs = 1 .. c /\ q + 1 \in 1 .. c
  BY ListIs
<1>6. PICK a \in 1 .. n : a = n - q
  BY <1>1 DEF OpenAt, Asks
<1>7. /\ ms[a].role = "assistant" /\ ms[a].calls = [k \in 1 .. c |-> <<t, k>>]
      /\ \A i \in 1 .. n : i # a => Closed(ms, i)
  BY <1>1, <1>5, <1>6 DEF OpenAt, Asks
<1>8. /\ DOMAIN ms[a].calls = 1 .. c /\ Len(ms[a].calls) = c /\ \A k \in 1 .. c : ms[a].calls[k] = <<t, k>>
  BY <1>7
<1>9. m.calls = <<>> /\ DOMAIN m.calls = {} /\ Len(m.calls) = 0
  BY EmptyIsList DEF IsMessage
<1>10. \A i \in 1 .. n : IsList(ms[i].calls) /\ Len(ms[i].calls) \in Nat /\ DOMAIN ms[i].calls = 1 .. Len(ms[i].calls)
  BY <1>1, ListIs DEF Structured, IsTranscript, IsMessage
<1>11. Opens(out)
  BY <1>1, <1>3 DEF Opens, Structured
<1>12. Numbered(out, t)
  <2>1. SUFFICES ASSUME NEW i \in 1 .. n, out[i].calls # <<>>
                 PROVE  Asks(out, i) /\ \E u \in 1 .. t : \A k \in DOMAIN out[i].calls : out[i].calls[k] = <<u, k>>
    BY <1>3, <1>4, <1>9 DEF Numbered
  <2> QED
    BY <1>1, <1>3, <2>1, SMTT(30) DEF Numbered, Asks, Structured
<1>13. Different(out)
  BY <1>1, <1>3, <1>4, <1>9 DEF Different, Structured
<1>14. \A l \in a + 1 .. n : ms[l].role = "tool"
  <2>1. SUFFICES ASSUME NEW l \in a + 1 .. n PROVE ms[l].role = "tool"
    OBVIOUS
  <2>2. PICK k : k = l - a
    OBVIOUS
  <2>3. k \in 1 .. c /\ a + k = l /\ a + k <= Len(ms)
    BY <1>1, <1>5, <1>6, <2>2
  <2> QED
    BY <1>1, <1>8, <2>3 DEF Structured, Answered
<1>15. Answering(out)
  <2>1. ASSUME NEW j \in 1 .. n, ms[j].role = "tool" PROVE Answers1(out, j)
    <3>1. Answers1(ms, j)
      BY <1>1, <2>1 DEF Structured, Answering
    <3> QED
      BY <1>1, <1>3, <3>1, StillAnswers
  <2>2. Answers1(out, n + 1)
    <3>1. PICK k : k = q + 1
      OBVIOUS
    <3>2. k \in DOMAIN out[a].calls /\ n + 1 = a + k /\ out[n + 1].id = out[a].calls[k]
      <4>1. n + 1 = a + k
        <5>1. n \in Int /\ q \in Int /\ a \in Int /\ a = n - q
          BY <1>1, <1>6
        <5>2. n + 1 = a + (q + 1)
          BY <5>1
        <5> QED
          BY <3>1, <5>2
      <4>2. out[a] = ms[a] /\ k \in 1 .. c
        BY <1>3, <1>5, <3>1
      <4>3. out[n + 1].id = <<t, k>>
        BY <1>3, <3>1
      <4> QED
        BY <1>8, <4>1, <4>2, <4>3
    <3>3. \A l \in a + 1 .. n + 1 - 1 : out[l].role = "tool"
      BY <1>3, <1>6, <1>14
    <3> QED
      BY <1>3, <1>4, <3>2, <3>3 DEF Answers1
  <2> QED
    BY <1>3, <1>4, <2>1, <2>2 DEF Answering
<1>16. Answered(out)
  <2>1. SUFFICES ASSUME NEW i \in 1 .. n, NEW k \in DOMAIN ms[i].calls, i + k <= n + 1
                 PROVE  out[i + k].role = "tool" /\ out[i + k].id = ms[i].calls[k]
    BY <1>3, <1>4, <1>9 DEF Answered
  <2>2. k \in 1 .. Len(ms[i].calls) /\ Len(ms[i].calls) \in Nat
    BY <1>10
  <2>3. CASE i + k <= n
    <3>1. i + k \in 1 .. n
      BY <2>2, <2>3
    <3> QED
      BY <1>1, <1>3, <2>3, <3>1 DEF Structured, Answered
  <2>4. CASE i + k = n + 1
    <3>1. i = a
      <4>1. i # a => i + Len(ms[i].calls) <= n
        BY <1>1, <1>7 DEF Closed
      <4>2. i \in Int /\ k \in Int /\ n \in Int /\ Len(ms[i].calls) \in Int /\ k <= Len(ms[i].calls)
        BY <2>2
      <4> QED
        BY <2>4, <4>1, <4>2
    <3>2. k = q + 1
      BY <1>6, <2>2, <2>4, <3>1
    <3>3. out[i + k] = m
      BY <1>3, <2>4
    <3>4. ms[i].calls[k] = <<t, k>>
      BY <1>5, <1>8, <3>1, <3>2
    <3>5. m.role = "tool" /\ m.id = <<t, k>>
      BY <3>2
    <3> QED
      BY <3>3, <3>4, <3>5
  <2>5. i + k <= n \/ i + k = n + 1
    <3>1. i + k \in Int /\ n \in Int
      BY <2>2
    <3> QED
      BY <2>1, <3>1
  <2> QED
    BY <2>3, <2>4, <2>5
<1>17. OpenAt(out, cs, t, q + 1)
  <2>1. \A i \in 1 .. n + 1 : i # a => Closed(out, i)
    <3>1. SUFFICES ASSUME NEW i \in 1 .. n, i # a PROVE i + Len(ms[i].calls) <= n + 1
      BY <1>3, <1>4, <1>9, SMTT(30) DEF Closed
    <3> QED
      BY <1>1, <1>7, <1>10, <3>1 DEF Closed
  <2>2. Len(out) - (q + 1) = a
    BY <1>3, <1>6
  <2>3. Asks(out, a) /\ out[a].calls = [k \in DOMAIN cs |-> <<t, k>>]
    BY <1>3, <1>4, <1>5, <1>7 DEF Asks
  <2> QED
    BY <1>3, <2>1, <2>2, <2>3 DEF OpenAt
<1>18. ASSUME NEW j \in 1 .. n, ms[j].role = "tool", ms[j].id = m.id PROVE FALSE
  <2>1. PICK i \in 1 .. n : \E k \in DOMAIN ms[i].calls : j = i + k /\ ms[j].id = ms[i].calls[k]
    BY <1>1, <1>18 DEF Structured, Answering, Answers1
  <2>2. PICK k \in DOMAIN ms[i].calls : j = i + k /\ ms[j].id = ms[i].calls[k]
    BY <2>1
  <2>3. PICK l : l = q + 1
    OBVIOUS
  <2>4. l \in DOMAIN ms[a].calls /\ ms[a].calls[l] = m.id
    BY <1>5, <1>8, <2>3
  <2>5. i = a /\ k = l
    BY <1>1, <1>18, <2>2, <2>4 DEF Different, Structured
  <2>6. j = a + (q + 1)
    BY <2>2, <2>3, <2>5
  <2>7. j \in Int /\ j <= n /\ a \in Int /\ n \in Int /\ q \in Int /\ a = n - q
    BY <1>1, <1>6
  <2> QED
    BY <2>6, <2>7
<1> QED
  BY <1>1, <1>2, <1>3, <1>11, <1>12, <1>13, <1>15, <1>16, <1>17, <1>18 DEF Structured

\* When every call is answered, the turn is complete.
LEMMA TurnCompletes ==
  ASSUME NEW t, NEW ms, Structured(ms, t), NEW cs, IsList(cs), NEW q, q = Len(cs), OpenAt(ms, cs, t, q)
  PROVE  AllClosed(ms)
<1>1. PICK n \in Nat : n = Len(ms) /\ DOMAIN ms = 1 .. n
  BY ListIs DEF Structured, IsTranscript
<1>2. q \in Nat /\ DOMAIN cs = 1 .. q
  BY ListIs
<1>3. PICK a \in 1 .. n : a = n - q
  BY <1>1, <1>2 DEF OpenAt, Asks
<1>4. ms[a].calls = [k \in 1 .. q |-> <<t, k>>] /\ \A i \in 1 .. n : i # a => Closed(ms, i)
  BY <1>1, <1>2, <1>3 DEF OpenAt
<1>5. Len(ms[a].calls) = q
  BY <1>2, <1>4
<1>6. Closed(ms, a)
  BY <1>1, <1>2, <1>3, <1>5 DEF Closed
<1> QED
  BY <1>1, <1>4, <1>6 DEF AllClosed

LEMMA AnotherAnswer ==
  ASSUME NEW ms, IsTranscript(ms), NEW rs, Told(ms, rs), NEW m, IsMessage(m),
         \A j \in DOMAIN ms : ms[j].role = "tool" => ms[j].id # m.id
  PROVE  Told(Append(ms, m), rs)
<1>1. PICK n \in Nat : n = Len(ms) /\ DOMAIN ms = 1 .. n
  BY ListIs DEF IsTranscript
<1>2. PICK out : out = Append(ms, m)
  OBVIOUS
<1>3. DOMAIN out = 1 .. n + 1 /\ (\A i \in 1 .. n : out[i] = ms[i]) /\ out[n + 1] = m
  BY <1>1, <1>2, TranscriptGrows
<1>4. ASSUME NEW k \in DOMAIN rs PROVE rs[k].id # m.id
  BY DEF Told
<1>5. ASSUME NEW k \in DOMAIN rs, NEW j \in 1 .. n + 1, out[j].role = "tool", out[j].id = rs[k].id
      PROVE  Begins(out[j].body.documents, rs[k].result.documents)
  <2>1. j \in 1 .. n
    BY <1>3, <1>4, <1>5
  <2> QED
    BY <1>1, <1>3, <1>5, <2>1 DEF Told
<1>6. \A k \in DOMAIN rs : \E j \in 1 .. n + 1 : out[j].role = "tool" /\ out[j].id = rs[k].id
  BY <1>1, <1>3 DEF Told
<1> QED
  BY <1>2, <1>3, <1>5, <1>6 DEF Told

LEMMA AnotherResult ==
  ASSUME NEW ms, IsTranscript(ms), NEW rs, IsList(rs), Told(ms, rs), NEW m, IsMessage(m), m.role = "tool",
         \A j \in DOMAIN ms : ms[j].role = "tool" => ms[j].id # m.id,
         NEW e, e.id = m.id, Begins(m.body.documents, e.result.documents)
  PROVE  Told(Append(ms, m), Append(rs, e))
<1>1. PICK n \in Nat : n = Len(ms) /\ DOMAIN ms = 1 .. n
  BY ListIs DEF IsTranscript
<1>2. PICK out : out = Append(ms, m)
  OBVIOUS
<1>3. DOMAIN out = 1 .. n + 1 /\ (\A i \in 1 .. n : out[i] = ms[i]) /\ out[n + 1] = m
  BY <1>1, <1>2, TranscriptGrows
<1>4. PICK all : all = Append(rs, e)
  OBVIOUS
<1>5. PICK q \in Nat : q = Len(rs) /\ DOMAIN rs = 1 .. q
  BY ListIs
<1>6. IsList(all) /\ Len(all) = q + 1 /\ (\A k \in 1 .. q : all[k] = rs[k]) /\ all[q + 1] = e
  BY <1>4, <1>5, Appended
<1>7. DOMAIN all = 1 .. q + 1
  BY <1>6, ListIs
<1>8. Told(out, rs)
  BY <1>2, AnotherAnswer
<1>9. ASSUME NEW k \in 1 .. q + 1, NEW j \in 1 .. n + 1, out[j].role = "tool", out[j].id = all[k].id
      PROVE  Begins(out[j].body.documents, all[k].result.documents)
  <2>1. CASE k \in 1 .. q
    BY <1>3, <1>5, <1>6, <1>8, <1>9, <2>1 DEF Told
  <2>2. CASE k = q + 1
    <3>1. j = n + 1
      BY <1>1, <1>3, <1>6, <1>9, <2>2
    <3> QED
      BY <1>3, <1>6, <2>2, <3>1
  <2> QED
    BY <1>5, <2>1, <2>2
<1>10. ASSUME NEW k \in 1 .. q + 1 PROVE \E j \in 1 .. n + 1 : out[j].role = "tool" /\ out[j].id = all[k].id
  <2>1. CASE k \in 1 .. q
    BY <1>3, <1>5, <1>6, <1>8, <2>1, SMTT(30) DEF Told
  <2>2. CASE k = q + 1
    BY <1>1, <1>3, <1>6, <2>2
  <2> QED
    BY <1>5, <2>1, <2>2
<1> QED
  BY <1>2, <1>3, <1>4, <1>7, <1>9, <1>10 DEF Told

LEMMA LargestIs ==
  ASSUME NEW S \in SUBSET Int, NEW m \in S, \A x \in S : x <= m
  PROVE  Max(S) = m
<1>1. \E x \in S : \A y \in S : x >= y
  OBVIOUS
<1>2. PICK x : x = Max(S)
  OBVIOUS
<1>3. x \in S /\ \A y \in S : x >= y
  BY <1>1, <1>2 DEF Max
<1>4. x \in Int /\ m \in Int /\ x >= m /\ x <= m
  BY <1>3
<1> QED
  BY <1>2, <1>4

\* What assert_tool_pairing asks for, and one answer to every call.
LEMMA CompleteIsPaired ==
  ASSUME NEW t, NEW ms, Structured(ms, t), AllClosed(ms)
  PROVE  /\ Paired(ms)
         /\ \A i \in DOMAIN ms : \A id \in ToSet(ms[i].calls) :
              Cardinality({j \in DOMAIN ms : ms[j].role = "tool" /\ ms[j].id = id}) = 1
<1>1. PICK n \in Nat : n = Len(ms) /\ DOMAIN ms = 1 .. n
  BY ListIs DEF Structured, IsTranscript
<1>2. \A i \in 1 .. n : Len(ms[i].calls) \in Nat /\ DOMAIN ms[i].calls = 1 .. Len(ms[i].calls)
  BY <1>1, ListIs DEF Structured, IsTranscript, IsMessage
<1>3. ASSUME NEW i \in 1 .. n, NEW k \in DOMAIN ms[i].calls
      PROVE  ms[i].role = "assistant" /\ \E u \in 1 .. t : \A l \in DOMAIN ms[i].calls : ms[i].calls[l] = <<u, l>>
  <2>1. ms[i].calls # <<>>
    BY EmptyIsList
  <2> QED
    BY <1>1, <2>1 DEF Structured, Numbered, Asks
<1>4. ASSUME NEW j \in 1 .. n, ms[j].role = "tool"
      PROVE  /\ Asker(ms, j) # 0 /\ Contains(ms[Asker(ms, j)].calls, ms[j].id)
             /\ \A l \in Asker(ms, j) + 1 .. j - 1 : ms[l].id # ms[j].id
  <2>1. PICK i \in 1 .. n : \E k \in DOMAIN ms[i].calls :
               j = i + k /\ ms[j].id = ms[i].calls[k] /\ \A l \in i + 1 .. j - 1 : ms[l].role = "tool"
    BY <1>1, <1>4 DEF Structured, Answering, Answers1
  <2>2. PICK k \in DOMAIN ms[i].calls :
               j = i + k /\ ms[j].id = ms[i].calls[k] /\ \A l \in i + 1 .. j - 1 : ms[l].role = "tool"
    BY <2>1
  <2>3. k \in Nat \ {0}
    BY <1>2
  <2>4. PICK S : S = {x \in 1 .. j - 1 : ms[x].role = "assistant"}
    OBVIOUS
  <2>5. i \in S
    BY <1>3, <2>2, <2>3, <2>4
  <2>6. ASSUME NEW x \in S PROVE x <= i
    <3>1. x \in 1 .. j - 1 /\ ms[x].role # "tool"
      BY <2>4
    <3>2. ~ (x \in i + 1 .. j - 1)
      BY <2>2, <3>1
    <3> QED
      BY <3>1, <3>2
  <2>7. S \in SUBSET Int
    BY <2>4
  <2>8. Asker(ms, j) = i
    <3>1. Max(S) = i
      BY <2>5, <2>6, <2>7, LargestIs
    <3> QED
      BY <2>4, <2>5, <3>1 DEF Asker
  <2>9. Contains(ms[i].calls, ms[j].id)
    BY <1>2, <2>2 DEF Contains
  <2>10. ASSUME NEW l \in i + 1 .. j - 1 PROVE ms[l].id # ms[j].id
    <3>1. PICK p : p = l - i
      OBVIOUS
    <3>2. p \in 1 .. k - 1 /\ i + p = l
      BY <2>2, <2>3, <3>1
    <3>3. p \in DOMAIN ms[i].calls /\ i + p <= Len(ms) /\ p # k
      BY <1>1, <1>2, <2>2, <2>3, <3>2
    <3>4. ms[l].id = ms[i].calls[p]
      BY <1>1, <3>2, <3>3 DEF Structured, Answered
    <3>5. PICK u \in 1 .. t : \A x \in DOMAIN ms[i].calls : ms[i].calls[x] = <<u, x>>
      BY <1>3, <2>2
    <3>6. ms[i].calls[p] = <<u, p>> /\ ms[i].calls[k] = <<u, k>>
      BY <2>2, <3>3, <3>5
    <3> QED
      BY <2>2, <3>3, <3>4, <3>6
  <2> QED
    BY <2>8, <2>9, <2>10
<1>5. ASSUME NEW i \in 1 .. n, NEW id \in ToSet(ms[i].calls)
      PROVE  Cardinality({j \in 1 .. n : ms[j].role = "tool" /\ ms[j].id = id}) = 1
  <2>1. PICK k \in DOMAIN ms[i].calls : id = ms[i].calls[k]
    BY DEF ToSet
  <2>2. i + k \in 1 .. n /\ i + k <= Len(ms)
    BY <1>1, <1>2 DEF AllClosed, Closed
  <2>3. ms[i + k].role = "tool" /\ ms[i + k].id = id
    BY <1>1, <2>1, <2>2 DEF Structured, Answered
  <2>4. ASSUME NEW j \in 1 .. n, ms[j].role = "tool", ms[j].id = id PROVE j = i + k
    <3>1. PICK i2 \in 1 .. n : \E k2 \in DOMAIN ms[i2].calls : j = i2 + k2 /\ ms[j].id = ms[i2].calls[k2]
      BY <1>1, <2>4 DEF Structured, Answering, Answers1
    <3>2. PICK k2 \in DOMAIN ms[i2].calls : j = i2 + k2 /\ ms[j].id = ms[i2].calls[k2]
      BY <3>1
    <3>3. ms[i].calls[k] = ms[i2].calls[k2]
      BY <2>1, <2>4, <3>2
    <3>4. i = i2 /\ k = k2
      BY <1>1, <3>3 DEF Structured, Different
    <3> QED
      BY <3>2, <3>4
  <2>5. PICK p : p = i + k
    OBVIOUS
  <2>6. {j \in 1 .. n : ms[j].role = "tool" /\ ms[j].id = id} = {p}
    BY <2>2, <2>3, <2>4, <2>5
  <2> QED
    BY <2>6, FS_Singleton
<1>6. Paired(ms)
  BY <1>1, <1>4 DEF Paired
<1> QED
  BY <1>1, <1>5, <1>6

-----------------------------------------------------------------------------
(* What the session cites.                                                 *)

LEMMA ReadMore ==
  ASSUME NEW rs, AreResults(rs), NEW e, IsResult(e.result)
  PROVE  AreResults(Append(rs, e)) /\ ReadSet(Append(rs, e)) = ReadSet(rs) \cup ToSet(e.result.documents)
<1>1. PICK all : all = Append(rs, e)
  OBVIOUS
<1>2. PICK q \in Nat : q = Len(rs) /\ DOMAIN rs = 1 .. q
  BY ListIs DEF AreResults
<1>3. IsList(all) /\ Len(all) = q + 1 /\ (\A k \in 1 .. q : all[k] = rs[k]) /\ all[q + 1] = e
  BY <1>1, <1>2, Appended DEF AreResults
<1>4. DOMAIN all = 1 .. q + 1 /\ \A k \in 1 .. q + 1 : k \in 1 .. q \/ k = q + 1
  BY <1>2, <1>3, ListIs
<1>5. AreResults(all)
  BY <1>2, <1>3, <1>4 DEF AreResults
<1>6. ASSUME NEW x PROVE x \in ReadSet(all) <=> x \in ReadSet(rs) \/ x \in ToSet(e.result.documents)
  BY <1>2, <1>3, <1>4 DEF ReadSet
<1> QED
  BY <1>1, <1>5, <1>6

IsSet(s) == IsList(s) /\ \A i, j \in DOMAIN s : i # j => s[i] # s[j]

\* The cited ones come first; nothing is lost, added or repeated.
LEMMA PreferredIs ==
  ASSUME NEW s, IsSet(s), NEW cited
  PROVE  /\ IsList(PreferCited(s, cited)) /\ ToSet(PreferCited(s, cited)) = ToSet(s)
         /\ \A i, j \in DOMAIN PreferCited(s, cited) : i < j =>
              /\ PreferCited(s, cited)[i] # PreferCited(s, cited)[j]
              /\ Contains(cited, PreferCited(s, cited)[j].id) => Contains(cited, PreferCited(s, cited)[i].id)
<1>1. PICK I : I = {k \in DOMAIN s : Contains(cited, s[k].id)}
  OBVIOUS
<1>2. PICK J : J = {k \in DOMAIN s : ~ Contains(cited, s[k].id)}
  OBVIOUS
<1>3. PICK a : a = Picked(s, I)
  OBVIOUS
<1>4. PICK b : b = Picked(s, J)
  OBVIOUS
<1>5. IsList(s) /\ I \in SUBSET (DOMAIN s) /\ J \in SUBSET (DOMAIN s)
  BY <1>1, <1>2 DEF IsSet
<1>6. IsList(a) /\ ToSet(a) = {s[k] : k \in I} /\ IsList(b) /\ ToSet(b) = {s[k] : k \in J}
  <2>1. IsList(a) /\ IsList(b)
    BY <1>5, <1>3, <1>4, PickedIs
  <2>2. ToSet(a) = {s[k] : k \in I}
    BY <1>5, <1>3, PickedSet
  <2>3. ToSet(b) = {s[k] : k \in J}
    BY <1>5, <1>4, PickedSet
  <2> QED
    BY <2>1, <2>2, <2>3
<1>7. PICK p \in [1 .. Len(a) -> I] :
        (\A k \in 1 .. Len(a) : a[k] = s[p[k]]) /\ (\A k, l \in 1 .. Len(a) : k < l => p[k] < p[l])
  BY <1>5, <1>3, PickedIs
<1>8. PICK q \in [1 .. Len(b) -> J] :
        (\A k \in 1 .. Len(b) : b[k] = s[q[k]]) /\ (\A k, l \in 1 .. Len(b) : k < l => q[k] < q[l])
  BY <1>5, <1>4, PickedIs
<1>9. PICK m \in Nat, n \in Nat : m = Len(a) /\ n = Len(b)
  BY <1>6, ListIs
<1>10. PICK c : c = a \o b
  OBVIOUS
<1>11. /\ IsList(c) /\ Len(c) = m + n /\ ToSet(c) = ToSet(a) \cup ToSet(b)
       /\ (\A k \in 1 .. m : c[k] = a[k]) /\ (\A k \in 1 .. n : c[m + k] = b[k])
  <2>1. IsList(a) /\ IsList(b)
    BY <1>6
  <2>2. ToSet(c) = ToSet(a) \cup ToSet(b)
    BY <1>10, <2>1, ConcatenatedSet
  <2>3. /\ IsList(c) /\ Len(c) = Len(a) + Len(b)
        /\ (\A k \in 1 .. Len(a) : c[k] = a[k]) /\ (\A k \in 1 .. Len(b) : c[Len(a) + k] = b[k])
    BY <1>10, <2>1, Concatenated
  <2> QED
    BY <1>9, <2>2, <2>3
<1>12. PreferCited(s, cited) = c
  BY <1>1, <1>2, <1>3, <1>4, <1>10 DEF PreferCited, Filter
<1>13. ToSet(c) = ToSet(s)
  <2>1. I \cup J = DOMAIN s
    BY <1>1, <1>2
  <2> QED
    BY <1>6, <1>11, <2>1 DEF ToSet
<1>14. \A x, y \in DOMAIN s : x < y => s[x] # s[y]
  <2>1. DOMAIN s \subseteq Nat
    BY ListIs DEF IsSet
  <2> QED
    BY <2>1 DEF IsSet
<1>15. DOMAIN c = 1 .. m + n
  BY <1>11, ListIs
<1>16. ASSUME NEW k \in 1 .. m PROVE Contains(cited, c[k].id) /\ p[k] \in DOMAIN s /\ c[k] = s[p[k]]
  <2>1. p[k] \in I
    BY <1>7, <1>9
  <2> QED
    BY <1>1, <1>7, <1>9, <1>11, <2>1
<1>17. ASSUME NEW k \in 1 .. n PROVE ~ Contains(cited, c[m + k].id) /\ q[k] \in DOMAIN s /\ c[m + k] = s[q[k]]
  <2>1. q[k] \in J
    BY <1>8, <1>9
  <2> QED
    BY <1>2, <1>8, <1>9, <1>11, <2>1
<1>18. ASSUME NEW i \in 1 .. m + n, NEW j \in 1 .. m + n, i < j
       PROVE  c[i] # c[j] /\ (Contains(cited, c[j].id) => Contains(cited, c[i].id))
  <2>1. CASE j <= m
    <3>1. i \in 1 .. m /\ j \in 1 .. m
      BY <1>18, <2>1
    <3>2. p[i] < p[j]
      BY <1>7, <1>9, <1>18, <3>1
    <3> QED
      BY <1>14, <1>16, <3>1, <3>2
  <2>2. CASE i <= m /\ j > m
    <3>1. PICK k : k = j - m
      OBVIOUS
    <3>2. i \in 1 .. m /\ k \in 1 .. n /\ j = m + k
      BY <1>18, <2>2, <3>1
    <3>3. Contains(cited, c[i].id) /\ ~ Contains(cited, c[j].id)
      BY <1>16, <1>17, <3>2
    <3> QED
      BY <3>3
  <2>3. CASE i > m
    <3>1. PICK k : k = i - m
      OBVIOUS
    <3>2. PICK l : l = j - m
      OBVIOUS
    <3>3. k \in 1 .. n /\ l \in 1 .. n /\ i = m + k /\ j = m + l /\ k < l
      BY <1>18, <2>3, <3>1, <3>2
    <3>4. q[k] < q[l]
      BY <1>8, <1>9, <3>3
    <3> QED
      BY <1>14, <1>17, <3>3, <3>4
  <2> QED
    BY <1>18, <2>1, <2>2, <2>3
<1> QED
  BY <1>11, <1>12, <1>13, <1>15, <1>18

-----------------------------------------------------------------------------
(* The source database, and the index that is made of it.                  *)

LEMMA StoredUpto ==
  ASSUME NEW c, NEW docs, Stored(c, docs), NEW k \in Nat
  PROVE  Stored(c, Upto(docs, k))
<1>1. PICK n \in Nat : n = Len(docs) /\ DOMAIN docs = 1 .. n
  BY ListIs DEF Stored
<1>2. PICK t : t = Upto(docs, k)
  OBVIOUS
<1>3. IsList(t) /\ Len(t) = Smaller(k, n) /\ \A i \in 1 .. Len(t) : t[i] = docs[i]
  BY <1>1, <1>2, UptoIs DEF Stored
<1>4. PICK m \in Nat : m = Len(t) /\ DOMAIN t = 1 .. m /\ m <= n
  BY <1>1, <1>3, ListIs DEF Smaller
<1>5. \A i \in 1 .. m : i \in 1 .. n /\ t[i] = docs[i]
  BY <1>3, <1>4
<1> QED
  BY <1>1, <1>2, <1>3, <1>4, <1>5 DEF Stored

\* What a collection holds is one of the listings the assumption speaks of.
LEMMA StoredIsListing ==
  ASSUME NEW c, NEW docs, Stored(c, docs)
  PROVE  docs \in Listings(c)
<1>1. PICK n \in Nat : n = Len(docs) /\ DOMAIN docs = 1 .. n /\ docs = [i \in 1 .. n |-> docs[i]]
  BY ListIs DEF Stored
<1>2. PICK S : S = {docs[i] : i \in 1 .. n}
  OBVIOUS
<1>3. docs \in [1 .. n -> S] /\ \A i, j \in 1 .. n : docs[i] = docs[j] => i = j
  BY <1>1, <1>2 DEF Stored
<1>4. docs \in Bijection(1 .. n, S)
  BY <1>2, <1>3 DEF Bijection, Injection, Surjection, IsInjective
<1>5. IsFiniteSet(1 .. n) /\ Cardinality(1 .. n) = n
  BY FS_Interval
<1>6. Cardinality(S) = n
  BY <1>4, <1>5, FS_Bijection DEF ExistsBijection
<1>7. docs \in SetToSeqs(S)
  <2>1. SetToSeqs(S) = {f \in [1 .. n -> S] : \A i, j \in 1 .. n : i # j => f[i] # f[j]}
    BY <1>6 DEF SetToSeqs
  <2> QED
    BY <1>3, <2>1
<1>8. S \in SUBSET Storable(c)
  <2>1. \A i \in 1 .. n : docs[i] \in Storable(c)
    BY <1>1 DEF Stored
  <2>2. \A x \in S : x \in Storable(c)
    BY <1>2, <2>1
  <2> QED
    BY <2>2
<1> QED
  BY <1>7, <1>8 DEF Listings

LEMMA RemovedIs ==
  ASSUME NEW c, NEW docs, Stored(c, docs), NEW i \in DOMAIN docs
  PROVE  Stored(c, RemoveAt(docs, i))
<1>1. PICK n \in Nat : n = Len(docs) /\ DOMAIN docs = 1 .. n /\ IsList(docs)
  BY ListIs DEF Stored
<1>2. PICK a : a = SubSeq(docs, 1, i - 1)
  OBVIOUS
<1>3. PICK b : b = SubSeq(docs, i + 1, n)
  OBVIOUS
<1>4. IsList(a) /\ Len(a) = i - 1 /\ \A k \in 1 .. i - 1 : a[k] = docs[k]
  <2>1. 1 \in 1 .. Len(docs) + 1 /\ i - 1 \in 0 .. Len(docs)
    BY <1>1
  <2>2. /\ IsList(a) /\ Len(a) = IF 1 <= i - 1 THEN i - 1 - 1 + 1 ELSE 0
        /\ \A k \in 1 .. Len(a) : a[k] = docs[1 + k - 1]
    BY <1>1, <1>2, <2>1, Sliced
  <2> QED
    BY <1>1, <2>2
<1>5. IsList(b) /\ Len(b) = n - i /\ \A k \in 1 .. n - i : b[k] = docs[i + k]
  <2>1. i + 1 \in 1 .. Len(docs) + 1 /\ n \in 0 .. Len(docs)
    BY <1>1
  <2>2. /\ IsList(b) /\ Len(b) = IF i + 1 <= n THEN n - (i + 1) + 1 ELSE 0
        /\ \A k \in 1 .. Len(b) : b[k] = docs[i + 1 + k - 1]
    BY <1>1, <1>3, <2>1, Sliced
  <2>3. Len(b) = n - i
    BY <1>1, <2>2
  <2>4. \A k \in 1 .. n - i : i + 1 + k - 1 = i + k
    BY <1>1
  <2> QED
    BY <2>2, <2>3, <2>4
<1>6. PICK t : t = a \o b
  OBVIOUS
<1>7. /\ IsList(t) /\ Len(t) = n - 1 /\ (\A k \in 1 .. i - 1 : t[k] = docs[k])
      /\ \A k \in 1 .. n - i : t[i - 1 + k] = docs[i + k]
  <2>1. /\ IsList(t) /\ Len(t) = Len(a) + Len(b) /\ (\A k \in 1 .. Len(a) : t[k] = a[k])
        /\ \A k \in 1 .. Len(b) : t[Len(a) + k] = b[k]
    <3>1. IsList(a) /\ IsList(b)
      BY <1>4, <1>5
    <3> QED
      BY <1>6, <3>1, Concatenated
  <2>2. (i - 1) + (n - i) = n - 1
    BY <1>1
  <2> QED
    BY <1>4, <1>5, <2>1, <2>2
<1>8. DOMAIN t = 1 .. n - 1
  BY <1>7, ListIs
<1>9. \A k \in 1 .. n - 1 : t[k] = docs[IF k < i THEN k ELSE k + 1]
  <2>1. SUFFICES ASSUME NEW k \in 1 .. n - 1 PROVE t[k] = docs[IF k < i THEN k ELSE k + 1]
    OBVIOUS
  <2>2. CASE k < i
    BY <1>1, <1>7, <2>2
  <2>3. CASE ~ (k < i)
    <3>1. PICK l : l = k - (i - 1)
      OBVIOUS
    <3>2. l \in 1 .. n - i /\ i - 1 + l = k /\ i + l = k + 1
      BY <1>1, <2>3, <3>1
    <3> QED
      BY <1>7, <2>3, <3>2
  <2> QED
    BY <2>2, <2>3
<1>10. \A k \in 1 .. n - 1 : (IF k < i THEN k ELSE k + 1) \in 1 .. n
  BY <1>1
<1>11. \A k \in 1 .. n - 1 : t[k] \in Storable(c)
  BY <1>1, <1>9, <1>10 DEF Stored
<1>12. ASSUME NEW k \in 1 .. n - 1, NEW l \in 1 .. n - 1, t[k].id = t[l].id PROVE k = l
  <2>0. PICK v \in 1 .. n, w \in 1 .. n : v = (IF k < i THEN k ELSE k + 1) /\ w = (IF l < i THEN l ELSE l + 1)
    BY <1>10
  <2>1. t[k] = docs[v] /\ t[l] = docs[w]
    BY <1>9, <2>0
  <2>2. v = w
    BY <1>1, <1>12, <2>1 DEF Stored
  <2> QED
    BY <1>1, <2>0, <2>2
<1>13. RemoveAt(docs, i) = t
  BY <1>1, <1>2, <1>3, <1>6 DEF RemoveAt
<1> QED
  BY <1>7, <1>8, <1>11, <1>12, <1>13 DEF Stored

LEMMA InsertedIs ==
  ASSUME NEW c, NEW docs, Stored(c, docs), NEW x \in Storable(c), \A i \in DOMAIN docs : docs[i].id # x.id
  PROVE  Stored(c, Append(docs, x))
<1>1. PICK n \in Nat : n = Len(docs) /\ DOMAIN docs = 1 .. n /\ IsList(docs)
  BY ListIs DEF Stored
<1>2. PICK t : t = Append(docs, x)
  OBVIOUS
<1>3. IsList(t) /\ Len(t) = n + 1 /\ (\A i \in 1 .. n : t[i] = docs[i]) /\ t[n + 1] = x
  BY <1>1, <1>2, Appended
<1>4. DOMAIN t = 1 .. n + 1 /\ \A i \in 1 .. n + 1 : i \in 1 .. n \/ i = n + 1
  BY <1>1, <1>3, ListIs
<1> QED
  BY <1>1, <1>2, <1>3, <1>4 DEF Stored

LEMMA ReplacedIs ==
  ASSUME NEW c, NEW docs, Stored(c, docs), NEW x \in Storable(c), NEW i \in DOMAIN docs, docs[i].id = x.id
  PROVE  Stored(c, [docs EXCEPT ![i] = x])
<1>1. PICK n \in Nat : n = Len(docs) /\ DOMAIN docs = 1 .. n /\ IsList(docs)
  BY ListIs DEF Stored
<1>2. PICK t : t = [docs EXCEPT ![i] = x]
  OBVIOUS
<1>3. DOMAIN t = 1 .. n /\ t = [k \in 1 .. n |-> t[k]] /\ \A k \in 1 .. n : t[k] = IF k = i THEN x ELSE docs[k]
  BY <1>1, <1>2
<1>4. IsList(t)
  BY <1>3, ListOf
<1>5. \A k \in 1 .. n : t[k].id = docs[k].id
  BY <1>3
<1> QED
  BY <1>1, <1>2, <1>3, <1>4, <1>5 DEF Stored

\* What SaveIndex makes of a complete reading of the source: nodes of its collections,
\* and plans that lead to them.
LEMMA NavNodesList ==
  ASSUME Listed(found)
  PROVE  /\ IsList(NavNodes)
         /\ \A n \in ToSet(NavNodes) : n.coll \in ToSet(Names) /\ n._id[1] # "hop" /\ IsList(n.ids)
<1>1. PICK n \in Nat : n = Len(found) /\ DOMAIN found = 1 .. n /\ n <= Len(Names)
  BY ListIs DEF Listed
<1>2. PICK seqs : seqs = [i \in DOMAIN found |-> Cards(found[i].coll, found[i].docs)]
  OBVIOUS
<1>3. DOMAIN seqs = 1 .. n /\ seqs = [i \in 1 .. n |-> seqs[i]]
  BY <1>1, <1>2
<1>4. IsList(seqs)
  BY <1>3, ListOf
<1>5. ASSUME NEW i \in 1 .. n
      PROVE  /\ IsList(seqs[i]) /\ found[i].coll \in ToSet(Names)
             /\ \A m \in ToSet(seqs[i]) : m.coll = found[i].coll /\ m._id[1] # "hop" /\ IsList(m.ids)
  <2>1. i \in DOMAIN Names
    BY <1>1, ListIs, SessionAssumption
  <2>2. found[i].coll \in ToSet(Names) /\ found[i].docs \in Listings(found[i].coll)
    BY <1>1, <2>1 DEF Listed, ToSet
  <2> QED
    BY <1>1, <1>2, <2>2, SessionAssumption
<1>6. IsList(FlattenSeq(seqs)) /\ ToSet(FlattenSeq(seqs)) = Elements(seqs, 1 .. n)
  BY <1>3, <1>4, <1>5, FlattenedIs
<1>7. PICK cols : cols = [i \in DOMAIN found |-> [_id |-> <<"col", found[i].coll>>, coll |-> found[i].coll, ids |-> <<>>,
                                                  words |-> {found[i].coll}]]
  OBVIOUS
<1>8. DOMAIN cols = 1 .. n /\ cols = [i \in 1 .. n |-> cols[i]]
  BY <1>1, <1>7
<1>9. IsList(cols)
  BY <1>8, ListOf
<1>10. IsList(NavNodes) /\ ToSet(NavNodes) = Elements(seqs, 1 .. n) \cup ToSet(cols)
  BY <1>2, <1>6, <1>7, <1>9, Concatenated, ConcatenatedSet DEF NavNodes
<1>11. ASSUME NEW m \in ToSet(cols) PROVE m.coll \in ToSet(Names) /\ m._id[1] # "hop" /\ IsList(m.ids)
  <2>1. PICK i \in 1 .. n : m = cols[i]
    BY <1>8 DEF ToSet
  <2>2. m._id = <<"col", found[i].coll>> /\ m.coll = found[i].coll /\ m.ids = <<>>
    BY <1>1, <1>7, <2>1
  <2>3. m._id[1] = "col"
    BY <2>2
  <2> QED
    BY <1>5, <2>2, <2>3, EmptyIsList
<1>12. \A m \in Elements(seqs, 1 .. n) : m.coll \in ToSet(Names) /\ m._id[1] # "hop" /\ IsList(m.ids)
  BY <1>5 DEF Elements
<1> QED
  BY <1>10, <1>11, <1>12

LEMMA PlansList ==
  ASSUME Listed(found), Len(found) = Len(Names)
  PROVE  LET ps == Plans([c \in ToSet(Names) |-> EntryOf(c).docs])
         IN  IsList(ps) /\ \A p \in ToSet(ps) : p.to \in ToSet(Names)
<1>1. PICK n \in Nat : n = Len(found) /\ DOMAIN found = 1 .. n /\ DOMAIN Names = 1 .. n
  BY ListIs, SessionAssumption DEF Listed
<1>2. ASSUME NEW c \in ToSet(Names) PROVE EntryOf(c).docs \in Listings(c)
  <2>1. PICK i \in 1 .. n : c = Names[i]
    BY <1>1 DEF ToSet
  <2>2. found[i] \in ToSet(found) /\ found[i].coll = c
    BY <1>1, <2>1 DEF Listed, ToSet
  <2>3. PICK f : f = EntryOf(c)
    OBVIOUS
  <2>4. f \in ToSet(found) /\ f.coll = c
    BY <2>2, <2>3 DEF EntryOf
  <2>5. PICK j \in 1 .. n : f = found[j]
    BY <1>1, <2>4 DEF ToSet
  <2>6. f.docs \in Listings(c)
    BY <1>1, <2>4, <2>5 DEF Listed
  <2> QED
    BY <2>3, <2>6
<1>3. PICK docs : docs = [c \in ToSet(Names) |-> EntryOf(c).docs]
  OBVIOUS
<1>4. \A c \in ToSet(Names) : docs[c] \in Listings(c)
  BY <1>2, <1>3
<1>5. docs \in [ToSet(Names) -> UNION {Listings(c) : c \in ToSet(Names)}]
  BY <1>3, <1>4
<1> QED
  BY <1>3, <1>4, <1>5, SessionAssumption

-----------------------------------------------------------------------------
(* The steps keep the invariant: while the source is indexed.              *)

LEMMA NamesAre ==
  /\ IsList(Names) /\ Len(Names) \in Nat \ {0} /\ DOMAIN Names = 1 .. Len(Names)
  /\ \A i \in 1 .. Len(Names) : Names[i] \in ToSet(Names) /\ Names[i] \in DOMAIN Database
<1>1. IsList(Names) /\ Names # <<>> /\ ToSet(Names) \subseteq DOMAIN Database
  BY SessionAssumption
<1>2. PICK n \in Nat : n = Len(Names) /\ DOMAIN Names = 1 .. n /\ Names = [i \in 1 .. n |-> Names[i]]
  BY <1>1, ListIs
<1>3. n # 0
  BY <1>1, <1>2
<1> QED
  BY <1>1, <1>2, <1>3 DEF ToSet

LEMMA NothingIsCited == ASSUME pc' # "done" PROVE CitationsRead'
BY DEF CitationsRead

LEMMA StartInv == Init => IInv
<1> SUFFICES ASSUME Init PROVE IInv
  OBVIOUS
<1>1. SourceInv
  <2>1. ASSUME NEW c \in DOMAIN Database PROVE Stored(c, Database[c])
    <3>1. IsList(Database[c]) /\ \A i, j \in DOMAIN Database[c] : Database[c][i].id = Database[c][j].id => i = j
      BY SessionAssumption
    <3>2. \A i \in DOMAIN Database[c] : Database[c][i] \in Storable(c)
      BY DEF Storable, ToSet
    <3> QED
      BY <3>1, <3>2 DEF Stored
  <2> QED
    BY <2>1 DEF SourceInv, Init
<1>2. FoundInv
  BY SessionAssumption DEF FoundInv, Init
<1>3. IndexInv
  BY SessionAssumption DEF IndexInv, IsIndex, Init, Asking
<1>4. CallInv
  <2>1. IsGot(NothingRead)
    BY EmptyIsList DEF IsGot, NothingRead, ReadFields
  <2>2. AreCalls(<<>>) /\ 1 \in 1 .. Len(<<>>) + 1
    BY EmptyIsList DEF AreCalls
  <2>3. got = NothingRead /\ calls = <<>> /\ at = 1 /\ pc # "reading"
    BY DEF Init
  <2> QED
    BY <2>1, <2>2, <2>3 DEF CallInv
<1>5. TurnInv
  <2>1. 0 \in 0 .. MaxTurns + 1
    BY SessionAssumption
  <2>2. turns = 0 /\ forced = FALSE /\ pc \in Before
    BY DEF Init, Before
  <2> QED
    BY <2>1, <2>2 DEF TurnInv, Before, Asking
<1>6. TranscriptInv
  BY DEF TranscriptInv, Init, Asking
<1>7. GatheredInv
  <2>1. AreResults(<<>>) /\ ToSet(<<>>) = ReadSet(<<>>)
    BY EmptyIsList DEF AreResults, ReadSet, ToSet
  <2> QED
    BY <2>1, EmptyIsList DEF GatheredInv, Init, CitationsRead
<1>8. PlaceInv
  <2>1. 0 \in 0 .. MaxEdits
    BY SessionAssumption
  <2>2. None.submitted = FALSE
    BY DEF None
  <2>3. pc \in Before
    BY DEF Init, Before
  <2> QED
    BY <2>1, <2>2, <2>3 DEF PlaceInv, Init
<1> QED
  BY <1>1, <1>2, <1>3, <1>4, <1>5, <1>6, <1>7, <1>8 DEF IInv

\* What none of these steps touches.
Quiet == UNCHANGED <<most, sidecar, bounced, draft, loop, calls, at, got, results, gathered>>

LEMMA QuietKeeps ==
  ASSUME IInv, Quiet, pc' \notin Asking \cup {"finish", "done", "raised", "index"}, pc \in Before,
         pc' \in Before \cup {"refused"}
  PROVE  CallInv' /\ TurnInv' /\ TranscriptInv' /\ GatheredInv' /\ most' \in Nat
         /\ ((edits \in 0 .. MaxEdits => edits' \in 0 .. MaxEdits) => PlaceInv')
<1>1. CallInv'
  BY DEF IInv, CallInv, Quiet, Asking
<1>2. TurnInv'
  BY DEF IInv, TurnInv, Quiet, loop, Asking
<1>3. TranscriptInv'
  BY DEF IInv, TranscriptInv, Quiet, Asking
<1>4. GatheredInv'
  BY NothingIsCited DEF IInv, GatheredInv, Quiet, Before
<1>5. most' \in Nat
  BY DEF IInv, FoundInv, Quiet
<1>6. (edits \in 0 .. MaxEdits => edits' \in 0 .. MaxEdits) => PlaceInv'
  BY DEF IInv, PlaceInv, Quiet, loop
<1> QED
  BY <1>1, <1>2, <1>3, <1>4, <1>5, <1>6

LEMMA BuildIndexKeeps == ASSUME IInv, BuildIndex PROVE IInv'
<1>1. /\ pc = "index" /\ pc' \in {"list", "refused", "start"} /\ Quiet
      /\ index' = index /\ found' = found /\ db' = db /\ edits' = edits
  <2>1. UNCHANGED setting /\ UNCHANGED Rest
    BY DEF BuildIndex
  <2>2. UNCHANGED source /\ UNCHANGED turn /\ UNCHANGED reading /\ UNCHANGED outcome
      /\ UNCHANGED loop /\ UNCHANGED sidecar /\ UNCHANGED results
    BY <2>1 DEF Rest
  <2> QED
    BY <2>1, <2>2 DEF BuildIndex, Quiet, setting, request, source, turn, reading, outcome, loop
<1>2. CallInv' /\ TurnInv' /\ TranscriptInv' /\ GatheredInv' /\ PlaceInv' /\ most' \in Nat
  BY <1>1, QuietKeeps DEF Before, Asking
<1>3. SourceInv'
  BY <1>1 DEF IInv, SourceInv
<1>4. FoundInv'
  <2>1. found' = <<>>
    BY <1>1 DEF IInv, FoundInv
  <2>2. Listed(<<>>) /\ Len(<<>>) = 0
    BY EmptyIsList, NamesAre DEF Listed
  <2> QED
    BY <1>1, <1>2, <2>1, <2>2, NamesAre DEF FoundInv
<1>5. IndexInv'
  BY <1>1 DEF IInv, IndexInv, Asking
<1> QED
  BY <1>2, <1>3, <1>4, <1>5 DEF IInv

LEMMA ListSourceKeeps == ASSUME IInv, ListSource PROVE IInv'
<1>1. /\ pc = "list" /\ pc' = "count" /\ Quiet /\ index' = index /\ db' = db /\ edits' = edits
  <2>1. index' = index /\ UNCHANGED request /\ UNCHANGED Rest
    BY DEF ListSource
  <2>2. UNCHANGED source /\ UNCHANGED turn /\ UNCHANGED reading /\ UNCHANGED outcome
      /\ UNCHANGED loop /\ UNCHANGED sidecar /\ UNCHANGED results
    BY <2>1 DEF Rest
  <2> QED
    BY <2>1, <2>2 DEF ListSource, Quiet, setting, request, source, turn, reading, outcome, loop
<1>2. CallInv' /\ TurnInv' /\ TranscriptInv' /\ GatheredInv' /\ PlaceInv' /\ most' \in Nat
  BY <1>1, QuietKeeps DEF Before, Asking
<1>3. SourceInv'
  BY <1>1 DEF IInv, SourceInv
<1>4. FoundInv'
  <2>1. PICK n \in Nat : n = Len(found) /\ DOMAIN found = 1 .. n /\ n < Len(Names) /\ IsList(found)
    BY <1>1, ListIs DEF IInv, FoundInv, Listed
  <2>2. PICK c : c = Names[n + 1]
    OBVIOUS
  <2>3. n + 1 \in 1 .. Len(Names) /\ c \in DOMAIN db
    BY <2>1, <2>2, NamesAre DEF IInv, SourceInv
  <2>4. PICK docs : docs = IF most = 0 THEN db[c] ELSE Upto(db[c], most)
    OBVIOUS
  <2>5. docs \in Listings(c)
    BY <2>3, <2>4, StoredUpto, StoredIsListing DEF IInv, SourceInv, FoundInv
  <2>6. PICK e : e = [coll |-> c, docs |-> docs, then |-> db[c], complete |-> FALSE, steady |-> FALSE]
    OBVIOUS
  <2>7. found' = Append(found, e)
    BY <2>1, <2>2, <2>4, <2>6 DEF ListSource
  <2>8. /\ IsList(found') /\ Len(found') = n + 1 /\ (\A i \in 1 .. n : found'[i] = found[i]) /\ found'[n + 1] = e
    BY <2>1, <2>7, Appended
  <2>9. DOMAIN found' = 1 .. n + 1 /\ \A i \in 1 .. n + 1 : i \in 1 .. n \/ i = n + 1
    BY <2>1, <2>8, ListIs
  <2>10. DOMAIN e = Entry /\ e.coll = Names[n + 1] /\ e.docs \in Listings(Names[n + 1])
    BY <2>2, <2>5, <2>6 DEF Entry
  <2>11. \A i \in 1 .. n : DOMAIN found[i] = Entry /\ found[i].coll = Names[i] /\ found[i].docs \in Listings(Names[i])
    BY <1>1, <2>1 DEF IInv, FoundInv, Listed
  <2>12. n + 1 <= Len(Names)
    BY <2>1, NamesAre
  <2>13. Listed(found')
    BY <2>8, <2>9, <2>10, <2>11, <2>12 DEF Listed
  <2> QED
    BY <1>1, <1>2, <2>8, <2>13 DEF FoundInv
<1>5. IndexInv'
  BY <1>1 DEF IInv, IndexInv, Asking
<1> QED
  BY <1>2, <1>3, <1>4, <1>5 DEF IInv

LEMMA CountSourceKeeps == ASSUME IInv, CountSource PROVE IInv'
<1>1. /\ pc = "count" /\ pc' = (IF Len(found) = Len(Names) THEN "save" ELSE "list") /\ Quiet
      /\ index' = index /\ db' = db /\ edits' = edits
  <2>1. index' = index /\ UNCHANGED request /\ UNCHANGED Rest
    BY DEF CountSource
  <2>2. UNCHANGED source /\ UNCHANGED turn /\ UNCHANGED reading /\ UNCHANGED outcome
      /\ UNCHANGED loop /\ UNCHANGED sidecar /\ UNCHANGED results
    BY <2>1 DEF Rest
  <2> QED
    BY <2>1, <2>2 DEF CountSource, Quiet, setting, request, source, turn, reading, outcome, loop
<1>2. CallInv' /\ TurnInv' /\ TranscriptInv' /\ GatheredInv' /\ PlaceInv' /\ most' \in Nat
  BY <1>1, QuietKeeps DEF Before, Asking
<1>3. SourceInv'
  BY <1>1 DEF IInv, SourceInv
<1>4. FoundInv'
  <2>1. PICK n \in Nat \ {0} : n = Len(found) /\ DOMAIN found = 1 .. n /\ n <= Len(Names) /\ IsList(found)
    BY <1>1, ListIs DEF IInv, FoundInv, Listed
  <2>2. \A i \in 1 .. n : DOMAIN found[i] = Entry /\ found[i].coll = Names[i] /\ found[i].docs \in Listings(Names[i])
    BY <1>1, <2>1 DEF IInv, FoundInv, Listed
  <2>3. PICK f : f = found[n]
    OBVIOUS
  <2>4. PICK e : e = [f EXCEPT !.complete = Complete(f.docs, Len(db[f.coll])), !.steady = (db[f.coll] = f.then)]
    OBVIOUS
  <2>5. DOMAIN e = Entry /\ e.coll = Names[n] /\ e.docs \in Listings(Names[n])
    BY <2>2, <2>3, <2>4 DEF Entry
  <2>6. PICK s : s = SubSeq(found, 1, n - 1)
    OBVIOUS
  <2>7. IsList(s) /\ Len(s) = n - 1 /\ \A i \in 1 .. n - 1 : s[i] = found[i]
    <3>1. 1 \in 1 .. Len(found) + 1 /\ n - 1 \in 0 .. Len(found)
      BY <2>1
    <3>2. /\ IsList(s) /\ Len(s) = IF 1 <= n - 1 THEN n - 1 - 1 + 1 ELSE 0
          /\ \A i \in 1 .. Len(s) : s[i] = found[1 + i - 1]
      BY <2>1, <2>6, <3>1, Sliced
    <3> QED
      BY <2>1, <3>2
  <2>8. found' = Append(s, e)
    BY <2>1, <2>3, <2>4, <2>6 DEF CountSource, Front, Last
  <2>9. /\ IsList(found') /\ Len(found') = n /\ (\A i \in 1 .. n - 1 : found'[i] = found[i]) /\ found'[n] = e
    <3>1. /\ IsList(found') /\ Len(found') = Len(s) + 1 /\ (\A i \in 1 .. Len(s) : found'[i] = s[i])
          /\ found'[Len(s) + 1] = e
      BY <2>7, <2>8, Appended
    <3>2. Len(s) + 1 = n
      BY <2>1, <2>7
    <3> QED
      BY <2>7, <3>1, <3>2
  <2>10. DOMAIN found' = 1 .. n /\ \A i \in 1 .. n : i \in 1 .. n - 1 \/ i = n
    BY <2>1, <2>9, ListIs
  <2>11. Listed(found')
    BY <2>1, <2>2, <2>5, <2>9, <2>10 DEF Listed
  <2>12. pc' = "list" => Len(found') < Len(Names)
    <3>1. Len(Names) \in Int /\ n \in Int /\ n <= Len(Names)
      BY <2>1, NamesAre
    <3>2. pc' = "list" => n # Len(Names)
      BY <1>1, <2>1
    <3> QED
      BY <2>9, <3>1, <3>2
  <2>13. pc' = "save" => Len(found') = Len(Names)
    BY <1>1, <2>1, <2>9
  <2>14. pc' # "count" /\ pc' # "index"
    BY <1>1
  <2> QED
    BY <1>2, <2>11, <2>12, <2>13, <2>14 DEF FoundInv
<1>5. IndexInv'
  BY <1>1 DEF IInv, IndexInv, Asking
<1> QED
  BY <1>2, <1>3, <1>4, <1>5 DEF IInv

LEMMA SaveIndexKeeps == ASSUME IInv, SaveIndex PROVE IInv'
<1>1. /\ pc = "save" /\ pc' \in {"start", "refused"} /\ Quiet /\ db' = db /\ edits' = edits
  <2>1. UNCHANGED request /\ UNCHANGED Rest
    BY DEF SaveIndex
  <2>2. UNCHANGED source /\ UNCHANGED turn /\ UNCHANGED reading /\ UNCHANGED outcome
      /\ UNCHANGED loop /\ UNCHANGED sidecar /\ UNCHANGED results
    BY <2>1 DEF Rest
  <2> QED
    BY <2>1, <2>2 DEF SaveIndex, Quiet, setting, request, source, turn, reading, outcome, loop
<1>2. CallInv' /\ TurnInv' /\ TranscriptInv' /\ GatheredInv' /\ PlaceInv' /\ most' \in Nat
  BY <1>1, QuietKeeps DEF Before, Asking
<1>3. SourceInv'
  BY <1>1 DEF IInv, SourceInv
<1>4. FoundInv'
  BY <1>1, <1>2 DEF FoundInv
<1>5. IndexInv'
  <2>1. IsList(NavNodes) /\ IsList(Plans([c \in ToSet(Names) |-> EntryOf(c).docs]))
    BY <1>1, NavNodesList, PlansList DEF IInv, FoundInv
  <2>2. CASE index' = index
    BY <1>1, <2>2 DEF IInv, IndexInv, Asking
  <2>3. CASE index' # index
    <3>1. index'.nodes = NavNodes /\ index'.plans = Plans([c \in ToSet(Names) |-> EntryOf(c).docs])
      BY <2>3 DEF SaveIndex
    <3> QED
      BY <1>1, <2>1, <3>1 DEF IndexInv, IsIndex, Asking
  <2> QED
    BY <2>2, <2>3
<1> QED
  BY <1>2, <1>3, <1>4, <1>5 DEF IInv

-----------------------------------------------------------------------------
(* The steps keep the invariant: while the question is asked.              *)

LEMMA AskKeeps == ASSUME IInv, Ask \/ Load PROVE IInv'
<1>1. /\ pc \in {"start", "load"} /\ pc' \in {"load", "refused", "prompt"} /\ Quiet
      /\ index' = index /\ found' = found /\ db' = db /\ edits' = edits /\ (pc' = "prompt" => index # NoIndex)
  <2>1. UNCHANGED setting /\ UNCHANGED source /\ UNCHANGED turn /\ UNCHANGED reading /\ UNCHANGED outcome
        /\ UNCHANGED loop /\ UNCHANGED sidecar /\ UNCHANGED results
    BY DEF Ask, Load
  <2> QED
    BY <2>1 DEF Ask, Load, Quiet, setting, request, source, turn, reading, outcome, loop
<1>2. CallInv' /\ TurnInv' /\ TranscriptInv' /\ GatheredInv' /\ PlaceInv' /\ most' \in Nat
  BY <1>1, QuietKeeps DEF Before, Asking
<1>3. SourceInv'
  BY <1>1 DEF IInv, SourceInv
<1>4. FoundInv'
  BY <1>1, <1>2 DEF FoundInv
<1>5. IndexInv'
  BY <1>1 DEF IInv, IndexInv, Asking
<1> QED
  BY <1>2, <1>3, <1>4, <1>5 DEF IInv

\* What the steps of the session leave alone.
Settled == UNCHANGED <<index, most, db>>

LEMMA SettledKeeps ==
  ASSUME IInv, Settled, pc \in {"prompt"} \cup Asking, pc' \in Asking \cup {"finish", "done", "raised"}
  PROVE  SourceInv' /\ FoundInv' /\ IndexInv'
<1>1. SourceInv'
  BY DEF IInv, SourceInv, Settled
<1>2. FoundInv'
  BY DEF IInv, FoundInv, Settled, Asking
<1>3. IndexInv'
  BY DEF IInv, IndexInv, Settled
<1> QED
  BY <1>1, <1>2, <1>3

LEMMA SaidIs ==
  ASSUME NEW role, role # "tool"
  PROVE  IsMessage(Said(role)) /\ Said(role).role = role /\ Said(role).calls = <<>>
BY EmptyIsList DEF IsMessage, Said, Message, MessageFields

LEMMA HeardIs ==
  ASSUME NEW next, Heard(next), sidecar \in {"none", "open", "closed"}
  PROVE  (pc' = next \/ pc' = "raised") /\ sidecar' \in {"none", "open", "closed"}
BY DEF Heard, CloseSidecar

LEMMA PromptKeeps == ASSUME IInv, Prompt PROVE IInv'
<1>1. /\ pc = "prompt" /\ pc' \in {"top", "raised"} /\ Settled
      /\ edits' = edits /\ sidecar' = sidecar /\ turns' = turns /\ forced' = forced /\ bounced' = bounced
      /\ calls' = calls /\ at' = at /\ got' = got /\ gathered' = gathered /\ draft' = draft /\ results' = results
      /\ messages' = <<Said("system"), Said("user")>>
  <2>1. UNCHANGED setting /\ UNCHANGED source /\ UNCHANGED turn /\ UNCHANGED reading /\ UNCHANGED outcome
        /\ UNCHANGED loop /\ UNCHANGED sidecar /\ UNCHANGED results
    BY DEF Prompt
  <2> QED
    BY <2>1 DEF Prompt, Settled, setting, request, source, turn, reading, outcome, loop
<1>2. SourceInv' /\ FoundInv' /\ IndexInv'
  BY <1>1, SettledKeeps DEF Asking
<1>3. CallInv'
  BY <1>1 DEF IInv, CallInv
<1>4. TurnInv'
  <2>1. turns = 0 /\ MaxTurns \in Nat /\ 0 <= MaxTurns
    BY <1>1, SessionAssumption DEF IInv, TurnInv, Before
  <2> QED
    BY <1>1, <2>1 DEF IInv, TurnInv, Asking, Before
<1>5. TranscriptInv'
  <2>1. PICK ms : ms = <<Said("system"), Said("user")>>
    OBVIOUS
  <2>2. IsList(ms) /\ Len(ms) = 2 /\ DOMAIN ms = {1, 2}
    <3>1. ms = [i \in 1 .. 2 |-> ms[i]]
      BY <2>1
    <3>2. IsList(ms) /\ Len(ms) = 2 /\ DOMAIN ms = 1 .. 2
      BY <3>1, ListOf
    <3>3. 1 .. 2 = {1, 2}
      OBVIOUS
    <3> QED
      BY <3>2, <3>3
  <2>3. ms[1] = Said("system") /\ ms[2] = Said("user")
    BY <2>1
  <2>4. \A i \in {1, 2} : IsMessage(ms[i]) /\ ms[i].role # "tool" /\ ms[i].calls = <<>>
    BY <2>3, SaidIs
  <2>5. ms[1].role = "system" /\ ms[2].role = "user"
    BY <2>3, SaidIs
  <2>6. \A i \in {1, 2} : DOMAIN ms[i].calls = {} /\ Len(ms[i].calls) = 0
    BY <2>4, EmptyIsList
  <2>7. IsTranscript(ms) /\ Opens(ms)
    BY <2>2, <2>4, <2>5 DEF IsTranscript, Opens
  <2>8. Numbered(ms, turns) /\ Different(ms) /\ Answering(ms) /\ Answered(ms)
    BY <2>2, <2>4, <2>6 DEF Numbered, Different, Answering, Answered
  <2>9. AllClosed(ms)
    BY <2>2, <2>6 DEF AllClosed, Closed
  <2>10. results = <<>>
    BY <1>1 DEF IInv, TranscriptInv, Before
  <2>11. Told(ms, results)
    BY <2>10, EmptyIsList DEF Told
  <2>12. messages' = ms /\ results' = results /\ turns' = turns
    BY <1>1, <2>1
  <2> QED
    BY <1>1, <2>7, <2>8, <2>9, <2>11, <2>12 DEF TranscriptInv, Structured, Before, Asking
<1>6. GatheredInv'
  BY <1>1, NothingIsCited DEF IInv, GatheredInv
<1>7. PlaceInv'
  BY <1>1 DEF IInv, PlaceInv, Asking
<1> QED
  BY <1>2, <1>3, <1>4, <1>5, <1>6, <1>7 DEF IInv

LEMMA TopOfLoopKeeps == ASSUME IInv, TopOfLoop PROVE IInv'
<1>1. /\ pc = "top" /\ pc' = "model" /\ Settled /\ forced' = (turns >= MaxTurns)
      /\ edits' = edits /\ sidecar' = sidecar /\ turns' = turns /\ bounced' = bounced
      /\ calls' = calls /\ at' = at /\ got' = got /\ gathered' = gathered /\ draft' = draft /\ results' = results
  <2>1. UNCHANGED setting /\ UNCHANGED source /\ UNCHANGED turn /\ UNCHANGED reading /\ UNCHANGED outcome
    BY DEF TopOfLoop
  <2> QED
    BY <2>1 DEF TopOfLoop, Settled, setting, request, source, turn, reading, outcome
<1>2. SourceInv' /\ FoundInv' /\ IndexInv'
  BY <1>1, SettledKeeps DEF Asking
<1>3. CallInv'
  BY <1>1 DEF IInv, CallInv
<1>4. TurnInv'
  <2>1. turns \in 0 .. MaxTurns + 1 /\ turns <= MaxTurns /\ MaxTurns \in Nat
    BY <1>1, SessionAssumption DEF IInv, TurnInv, Asking
  <2>2. forced' \in BOOLEAN /\ (forced' <=> turns >= MaxTurns)
    <3>1. (turns >= MaxTurns) \in BOOLEAN
      BY <2>1
    <3>2. PICK b : b = (turns >= MaxTurns)
      OBVIOUS
    <3>3. b \in BOOLEAN /\ (b <=> turns >= MaxTurns)
      BY <3>1, <3>2, Zenon
    <3>4. forced' = b
      BY <1>1, <3>2, Zenon
    <3> QED
      BY <3>3, <3>4, Zenon
  <2>3. ~ forced' => turns' < MaxTurns
    <3>1. ~ (turns >= MaxTurns) => turns < MaxTurns
      BY <2>1
    <3> QED
      BY <1>1, <2>2, <3>1
  <2> QED
    BY <1>1, <2>1, <2>2, <2>3 DEF TurnInv, Before
<1>5. TranscriptInv'
  <2>1. Structured(messages, turns) /\ Told(messages, results) /\ AllClosed(messages) /\ AreResults(results)
    BY <1>1 DEF IInv, TranscriptInv, GatheredInv, Asking
  <2>2. PICK m : m = Said("force")
    OBVIOUS
  <2>3. IsMessage(m) /\ m.role = "force" /\ m.calls = <<>>
    BY <2>2, SaidIs
  <2>4. PICK now : now = IF turns >= MaxTurns THEN Append(messages, m) ELSE messages
    OBVIOUS
  <2>5. Structured(now, turns) /\ Told(now, results) /\ AllClosed(now)
    BY <2>1, <2>3, <2>4, PlainMessage
  <2>6. IsTranscript(now) /\ Len(now) # 0
    BY <2>5 DEF Structured, Opens
  <2>7. turns >= MaxTurns => now[Len(now)].role = "force"
    BY <2>1, <2>3, <2>4, TranscriptGrows DEF Structured
  <2>8. messages' = IF \E i \in DOMAIN now : now[i].role = "tool" THEN CompactMessages(now) ELSE now
    BY <2>2, <2>4 DEF TopOfLoop
  <2>9. CASE messages' = now /\ ~ \E i \in DOMAIN now : now[i].role = "tool"
    <3>1. Fits(now)
      BY <2>9 DEF Fits
    <3> QED
      BY <1>1, <2>5, <2>7, <2>9, <3>1 DEF TranscriptInv, Before, Asking
  <2>10. CASE messages' = CompactMessages(now)
    <3>1. PICK out : out = CompactMessages(now)
      OBVIOUS
    <3>2. Shortens(out, now) /\ Fits(out)
      BY <2>6, <3>1, CompactIs
    <3>3. Structured(out, turns) /\ AllClosed(out) /\ Told(out, results)
      BY <2>1, <2>5, <3>2, ShortensKeeps, ShortensTells
    <3>4. Len(now) \in DOMAIN now
      BY <2>6, ListIs DEF IsTranscript
    <3>5. turns >= MaxTurns => out[Len(out)].role = "force"
      BY <2>7, <3>2, <3>4 DEF Shortens
    <3>6. messages' = out
      BY <2>10, <3>1
    <3> QED
      BY <1>1, <3>2, <3>3, <3>5, <3>6 DEF TranscriptInv, Before, Asking
  <2> QED
    BY <2>8, <2>9, <2>10
<1>6. GatheredInv'
  BY <1>1, NothingIsCited DEF IInv, GatheredInv
<1>7. PlaceInv'
  BY <1>1 DEF IInv, PlaceInv, Asking
<1> QED
  BY <1>2, <1>3, <1>4, <1>5, <1>6, <1>7 DEF IInv

LEMMA ReplyCallsKeeps == ASSUME IInv, ReplyCalls PROVE IInv'
<1>1. /\ pc = "model" /\ Settled /\ forced' = forced /\ turns' = turns + 1 /\ at' = 1
      /\ (pc' = (IF forced THEN "finish" ELSE "calls") \/ pc' = "raised") /\ sidecar' \in {"none", "open", "closed"}
      /\ edits' = edits /\ bounced' = bounced /\ got' = got /\ gathered' = gathered /\ draft' = draft
      /\ results' = results
  <2>1. UNCHANGED setting /\ UNCHANGED source /\ UNCHANGED reading /\ UNCHANGED outcome
    BY DEF ReplyCalls
  <2>2. (pc' = (IF forced THEN "finish" ELSE "calls") \/ pc' = "raised") /\ sidecar' \in {"none", "open", "closed"}
    BY HeardIs DEF ReplyCalls, IInv, PlaceInv
  <2> QED
    BY <2>1, <2>2 DEF ReplyCalls, Settled, setting, request, source, reading, outcome
<1>2. PICK asked \in Turns : /\ calls' = asked
                             /\ messages' = Append(messages, AssistantMessage([i \in DOMAIN asked |-> <<turns + 1, i>>]))
  BY DEF ReplyCalls
<1>3. AreCalls(asked)
  BY SessionAssumption DEF AreCalls, IsCall
<1>4. SourceInv' /\ FoundInv' /\ IndexInv'
  BY <1>1, SettledKeeps DEF Asking
<1>5. CallInv'
  <2>1. Len(asked) \in Nat
    BY <1>3, ListIs DEF AreCalls
  <2> QED
    BY <1>1, <1>2, <1>3, <2>1 DEF IInv, CallInv
<1>6. TurnInv'
  <2>1. turns \in 0 .. MaxTurns + 1 /\ turns <= MaxTurns /\ MaxTurns \in Nat /\ (~ forced => turns < MaxTurns)
    BY <1>1, SessionAssumption DEF IInv, TurnInv, Asking
  <2>2. forced \in BOOLEAN
    BY DEF IInv, TurnInv
  <2>3. turns' \in 0 .. MaxTurns + 1 /\ (~ forced => turns' <= MaxTurns)
    BY <1>1, <2>1
  <2> QED
    BY <1>1, <2>2, <2>3 DEF TurnInv, Asking, Before
<1>7. TranscriptInv'
  <2>1. Structured(messages, turns) /\ Told(messages, results) /\ AllClosed(messages)
    BY <1>1 DEF IInv, TranscriptInv, Asking
  <2>2. turns \in Nat /\ IsList(asked)
    BY <1>3 DEF IInv, TurnInv, AreCalls
  <2>3. PICK m : m = AssistantMessage([k \in DOMAIN asked |-> <<turns + 1, k>>])
    OBVIOUS
  <2>4. /\ Structured(Append(messages, m), turns + 1) /\ OpenAt(Append(messages, m), asked, turns + 1, 0)
        /\ Told(Append(messages, m), results)
    BY <2>1, <2>2, <2>3, AskingMessage
  <2>5. messages' = Append(messages, m) /\ at' - 1 = 0
    BY <1>1, <1>2, <2>3
  <2>6. OpenAt(messages', calls', turns', at' - 1)
    BY <1>1, <1>2, <2>4, <2>5
  <2>7. Structured(messages', turns') /\ Told(messages', results')
    BY <1>1, <2>4, <2>5
  <2> QED
    BY <1>1, <2>6, <2>7 DEF TranscriptInv, Before, Asking
<1>8. GatheredInv'
  BY <1>1, NothingIsCited DEF IInv, GatheredInv
<1>9. PlaceInv'
  BY <1>1 DEF IInv, PlaceInv, Asking
<1> QED
  BY <1>4, <1>5, <1>6, <1>7, <1>8, <1>9 DEF IInv

LEMMA ReplyTextKeeps == ASSUME IInv, ReplyText PROVE IInv'
<1>1. /\ pc = "model" /\ Settled /\ forced' = forced /\ turns' = turns + 1 /\ at' = at /\ calls' = calls
      /\ edits' = edits /\ got' = got /\ gathered' = gathered /\ results' = results
  <2>1. UNCHANGED setting /\ UNCHANGED source /\ UNCHANGED turn /\ UNCHANGED reading
    BY DEF ReplyText
  <2> QED
    BY <2>1 DEF ReplyText, Settled, setting, request, source, turn, reading
<1>2. PICK said : said = Append(messages, AssistantMessage(<<>>))
  OBVIOUS
<1>3. \/ /\ pc' \in {"finish", "raised"} /\ bounced' = bounced /\ draft'.submitted = TRUE
         /\ sidecar' \in {"none", "open", "closed"}
      \/ /\ pc' \in {"top", "raised"} /\ bounced' = TRUE /\ draft' = draft /\ ~ forced
         /\ messages' = Append(said, Said("user"))
         /\ sidecar' \in {"none", "open", "closed"}
  BY <1>2, HeardIs DEF ReplyText, IInv, PlaceInv
<1>4. pc' \in {"finish", "top", "raised"} /\ (pc' = "top" => ~ forced /\ messages' = Append(said, Said("user")))
      /\ bounced' \in BOOLEAN /\ draft'.submitted \in BOOLEAN /\ sidecar' \in {"none", "open", "closed"}
  BY <1>3 DEF IInv, PlaceInv
<1>5. SourceInv' /\ FoundInv' /\ IndexInv'
  BY <1>1, <1>4, SettledKeeps DEF Asking
<1>6. CallInv'
  BY <1>1, <1>4 DEF IInv, CallInv
<1>7. TurnInv'
  <2>1. turns \in 0 .. MaxTurns + 1 /\ turns <= MaxTurns /\ MaxTurns \in Nat /\ (~ forced => turns < MaxTurns)
    BY <1>1, SessionAssumption DEF IInv, TurnInv, Asking
  <2>2. forced \in BOOLEAN
    BY DEF IInv, TurnInv
  <2>3. turns' \in 0 .. MaxTurns + 1 /\ (~ forced => turns' <= MaxTurns)
    BY <1>1, <2>1
  <2> QED
    BY <1>1, <1>4, <2>2, <2>3 DEF TurnInv, Asking, Before
<1>8. TranscriptInv'
  <2>1. Structured(messages, turns) /\ Told(messages, results) /\ AllClosed(messages)
    BY <1>1 DEF IInv, TranscriptInv, Asking
  <2>2. PICK a : a = AssistantMessage(<<>>)
    OBVIOUS
  <2>3. IsMessage(a) /\ a.role = "assistant" /\ a.calls = <<>>
    BY <2>2, EmptyIsList DEF AssistantMessage, Message, IsMessage, MessageFields
  <2>4. Structured(said, turns) /\ Told(said, results) /\ AllClosed(said)
    BY <1>2, <2>1, <2>2, <2>3, PlainMessage
  <2>5. PICK u : u = Said("user")
    OBVIOUS
  <2>6. IsMessage(u) /\ u.role = "user" /\ u.calls = <<>>
    BY <2>5, SaidIs
  <2>7. PICK out : out = Append(said, u)
    OBVIOUS
  <2>8. Structured(out, turns) /\ Told(out, results) /\ AllClosed(out)
    BY <2>4, <2>6, <2>7, PlainMessage
  <2>9. Numbered(out, turns + 1)
    <3>1. turns \in Nat
      BY DEF IInv, TurnInv
    <3>2. \A x \in 1 .. turns : x \in 1 .. turns + 1
      BY <3>1
    <3> QED
      BY <2>8, <3>2 DEF Structured, Numbered
  <2>10. Structured(out, turns + 1)
    BY <2>8, <2>9 DEF Structured
  <2> QED
    BY <1>1, <1>4, <2>5, <2>7, <2>8, <2>10 DEF TranscriptInv, Before, Asking
<1>9. GatheredInv'
  BY <1>1, <1>4, NothingIsCited DEF IInv, GatheredInv
<1>10. PlaceInv'
  BY <1>1, <1>4 DEF IInv, PlaceInv, Asking
<1> QED
  BY <1>5, <1>6, <1>7, <1>8, <1>9, <1>10 DEF IInv

LEMMA AnswerIs ==
  ASSUME NEW r, IsResult(r), NEW id
  PROVE  LET m == Message("tool", id, <<>>, Body(r))
         IN  IsMessage(m) /\ m.role = "tool" /\ m.id = id /\ Begins(m.body.documents, r.documents)
BY BodyIs, EmptyIsList DEF Message, IsMessage, MessageFields

\* In the middle of a turn, the next answer is that of the call being executed.
LEMMA NextAnswer ==
  ASSUME IInv, pc \in {"calls", "reading"}, at <= Len(calls), NEW r, IsResult(r),
         NEW m, m = Message("tool", CallId(at), <<>>, Body(r))
  PROVE  /\ Structured(Append(messages, m), turns) /\ OpenAt(Append(messages, m), calls, turns, at + 1 - 1)
         /\ \A j \in DOMAIN messages : messages[j].role = "tool" => messages[j].id # m.id
<1>1. Structured(messages, turns) /\ OpenAt(messages, calls, turns, at - 1)
  BY DEF IInv, TranscriptInv, Asking
<1>2. turns \in Nat /\ IsList(calls) /\ at \in Nat \ {0} /\ Len(calls) \in Nat
  BY ListIs DEF IInv, TurnInv, CallInv, AreCalls
<1>3. PICK q : q = at - 1
  OBVIOUS
<1>4. q \in Nat /\ q < Len(calls) /\ q + 1 = at /\ at + 1 - 1 = q + 1
  BY <1>2, <1>3
<1>5. IsMessage(m) /\ m.role = "tool" /\ m.id = <<turns, q + 1>>
  BY <1>4, AnswerIs DEF CallId
<1> QED
  BY <1>1, <1>2, <1>3, <1>4, <1>5, AnsweringMessage

LEMMA DispatchKeeps == ASSUME IInv, Dispatch PROVE IInv'
<1>1. /\ pc = "calls" /\ at <= Len(calls) /\ Settled /\ edits' = edits /\ turns' = turns /\ forced' = forced
      /\ bounced' = bounced /\ calls' = calls /\ gathered' = gathered /\ draft' = draft /\ results' = results
  <2>1. UNCHANGED setting /\ UNCHANGED loop /\ UNCHANGED outcome
    BY DEF Dispatch
  <2> QED
    BY <2>1 DEF Dispatch, Settled, setting, request, loop, outcome
<1>2. \/ /\ messages' = AnswerWith(Body(Error)) /\ at' = at + 1 /\ got' = got
         /\ pc' \in {"calls", "raised"} /\ sidecar' \in {"none", "open", "closed"}
      \/ /\ \E b : got' = [NothingRead EXCEPT !.raised = b]
         /\ pc' = "reading" /\ sidecar' = sidecar /\ messages' = messages /\ at' = at
  BY HeardIs DEF Dispatch, IInv, PlaceInv
<1>3. pc' \in {"calls", "reading", "raised"}
  BY <1>2
<1>4. SourceInv' /\ FoundInv' /\ IndexInv'
  BY <1>1, <1>3, SettledKeeps DEF Asking
<1>5. TurnInv'
  BY <1>1, <1>3 DEF IInv, TurnInv, Asking, Before
<1>6. GatheredInv'
  BY <1>1, <1>3, NothingIsCited DEF IInv, GatheredInv
<1>7. PlaceInv'
  BY <1>1, <1>2, <1>3 DEF IInv, PlaceInv, Asking
<1>8. CallInv'
  <2>1. ASSUME NEW b PROVE IsGot([NothingRead EXCEPT !.raised = b])
    BY EmptyIsList DEF IsGot, NothingRead, ReadFields
  <2>2. Len(calls) \in Nat /\ at \in 1 .. Len(calls) + 1
    BY ListIs DEF IInv, CallInv, AreCalls
  <2>3. at + 1 \in 1 .. Len(calls) + 1
    BY <1>1, <2>2
  <2> QED
    BY <1>1, <1>2, <2>1, <2>2, <2>3 DEF IInv, CallInv
<1>9. TranscriptInv'
  <2>1. Structured(messages, turns) /\ Told(messages, results) /\ OpenAt(messages, calls, turns, at - 1)
    BY <1>1 DEF IInv, TranscriptInv, Asking
  <2>2. CASE messages' = messages /\ at' = at /\ pc' = "reading"
    BY <1>1, <2>1, <2>2 DEF TranscriptInv, Asking, Before
  <2>3. CASE messages' = AnswerWith(Body(Error)) /\ at' = at + 1 /\ pc' \in {"calls", "raised"}
    <3>1. PICK m : m = Message("tool", CallId(at), <<>>, Body(Error))
      OBVIOUS
    <3>2. PICK out : out = Append(messages, m)
      OBVIOUS
    <3>3. /\ Structured(out, turns) /\ OpenAt(out, calls, turns, at + 1 - 1)
          /\ \A j \in DOMAIN messages : messages[j].role = "tool" => messages[j].id # m.id
      BY <1>1, <3>1, <3>2, ErrorIsResult, NextAnswer
    <3>4. Told(out, results)
      BY <2>1, <3>1, <3>2, <3>3, ErrorIsResult, AnswerIs, AnotherAnswer DEF Structured
    <3>5. messages' = out
      BY <2>3, <3>1, <3>2 DEF AnswerWith
    <3>6. Structured(messages', turns')
      BY <1>1, <3>3, <3>5
    <3>7. Told(messages', results')
      BY <1>1, <3>4, <3>5
    <3>8. OpenAt(messages', calls', turns', at' - 1)
      <4>1. PICK q : q = at + 1 - 1
        OBVIOUS
      <4>2. OpenAt(out, calls, turns, q)
        BY <3>3, <4>1
      <4>3. at \in Nat /\ at' = at + 1
        BY <2>3, ListIs DEF IInv, CallInv, AreCalls
      <4>4. at' - 1 = q
        BY <4>1, <4>3
      <4>5. calls' = calls /\ turns' = turns
        BY <1>1
      <4> QED
        BY <3>5, <4>2, <4>4, <4>5, Zenon
    <3>9. pc' \notin Before /\ pc' \notin {"top", "model"}
      BY <2>3 DEF Before
    <3> QED
      BY <3>6, <3>7, <3>8, <3>9 DEF TranscriptInv
  <2> QED
    BY <1>2, <2>2, <2>3
<1> QED
  BY <1>4, <1>5, <1>6, <1>7, <1>8, <1>9 DEF IInv

LEMMA ReadKeeps == ASSUME IInv, Read PROVE IInv'
<1>1. /\ pc = "reading" /\ pc' = pc /\ Settled /\ edits' = edits /\ turns' = turns /\ forced' = forced
      /\ bounced' = bounced /\ calls' = calls /\ at' = at /\ gathered' = gathered /\ draft' = draft
      /\ results' = results /\ messages' = messages /\ sidecar' = sidecar
      /\ got' = ReadOne(index, db, question, calls[at], got, Head(left))
  <2>1. UNCHANGED setting /\ UNCHANGED source /\ UNCHANGED loop /\ UNCHANGED turn /\ UNCHANGED outcome
    BY DEF Read
  <2> QED
    BY <2>1 DEF Read, Settled, setting, request, source, loop, turn, outcome
<1>2. SourceInv' /\ FoundInv' /\ IndexInv'
  BY <1>1, SettledKeeps DEF Asking
<1>3. TurnInv'
  BY <1>1 DEF IInv, TurnInv, Asking, Before
<1>4. GatheredInv'
  BY <1>1, NothingIsCited DEF IInv, GatheredInv
<1>5. PlaceInv'
  BY <1>1 DEF IInv, PlaceInv, Asking
<1>6. CallInv'
  <2>1. IsDatabase(db)
    BY DEF IInv, SourceInv, Stored, IsDatabase
  <2>2. calls[at].limit \in Nat
    BY <1>1, ListIs DEF IInv, CallInv, AreCalls
  <2>3. IsGot(got')
    BY <1>1, <2>1, <2>2, ReadOneKeepsGot DEF IInv, CallInv
  <2> QED
    BY <1>1, <2>3 DEF IInv, CallInv
<1>7. TranscriptInv'
  BY <1>1 DEF IInv, TranscriptInv, Asking, Before
<1> QED
  BY <1>2, <1>3, <1>4, <1>5, <1>6, <1>7 DEF IInv

LEMMA RecordKeeps == ASSUME IInv, Record PROVE IInv'
<1>1. PICK r : r = Result(index, db, calls[at], got)
  OBVIOUS
<1>2. PICK e : e = [id |-> CallId(at), call |-> calls[at], result |-> r]
  OBVIOUS
<1>3. PICK m : m = Message("tool", CallId(at), <<>>, Body(r))
  OBVIOUS
<1>4. /\ pc = "reading" /\ Settled /\ edits' = edits /\ turns' = turns /\ forced' = forced
      /\ bounced' = bounced /\ calls' = calls /\ at' = at + 1 /\ draft' = draft /\ got' = NothingRead
      /\ pc' \in {"calls", "raised"} /\ sidecar' \in {"none", "open", "closed"}
      /\ results' = Append(results, e) /\ gathered' = gathered \o r.documents /\ messages' = Append(messages, m)
  <2>1. UNCHANGED setting /\ UNCHANGED loop
    BY DEF Record
  <2>2. pc' \in {"calls", "raised"} /\ sidecar' \in {"none", "open", "closed"}
    BY HeardIs DEF Record, IInv, PlaceInv
  <2>3. results' = Append(results, e) /\ gathered' = gathered \o r.documents /\ messages' = Append(messages, m)
    BY <1>1, <1>2, <1>3 DEF Record, DocumentsOf, AnswerWith
  <2> QED
    BY <2>1, <2>2, <2>3 DEF Record, Settled, setting, request, loop
<1>5. at <= Len(calls) /\ at \in DOMAIN calls /\ Len(calls) \in Nat /\ at \in 1 .. Len(calls) + 1
  BY <1>4, ListIs DEF IInv, CallInv, AreCalls
<1>6. IsResult(r)
  <2>1. IsDatabase(db)
    BY DEF IInv, SourceInv, Stored, IsDatabase
  <2>2. calls[at].limit \in Nat
    BY <1>5 DEF IInv, CallInv, AreCalls
  <2>3. IsIndex(index) /\ IsGot(got)
    BY <1>4 DEF IInv, IndexInv, CallInv, Asking
  <2> QED
    BY <1>1, <2>1, <2>2, <2>3, ResultIs
<1>7. SourceInv' /\ FoundInv' /\ IndexInv'
  BY <1>4, SettledKeeps DEF Asking
<1>8. TurnInv'
  BY <1>4 DEF IInv, TurnInv, Asking, Before
<1>9. PlaceInv'
  BY <1>4 DEF IInv, PlaceInv, Asking
<1>10. CallInv'
  <2>1. IsGot(NothingRead)
    BY EmptyIsList DEF IsGot, NothingRead, ReadFields
  <2>2. at + 1 \in 1 .. Len(calls) + 1
    BY <1>5
  <2> QED
    BY <1>4, <2>1, <2>2 DEF IInv, CallInv
<1>11. GatheredInv'
  <2>1. AreResults(results) /\ IsList(gathered) /\ ToSet(gathered) = ReadSet(results)
    BY <1>4 DEF IInv, GatheredInv
  <2>2. e.result = r /\ IsList(r.documents)
    BY <1>2, <1>6 DEF IsResult, Lists5
  <2>3. AreResults(results') /\ ReadSet(results') = ReadSet(results) \cup ToSet(r.documents)
    BY <1>4, <1>6, <2>1, <2>2, ReadMore
  <2>4. IsList(gathered') /\ ToSet(gathered') = ToSet(gathered) \cup ToSet(r.documents)
    BY <1>4, <2>1, <2>2, Concatenated, ConcatenatedSet
  <2> QED
    BY <1>4, <2>1, <2>3, <2>4, NothingIsCited DEF GatheredInv
<1>12. TranscriptInv'
  <2>1. Structured(messages, turns) /\ Told(messages, results) /\ AreResults(results)
    BY <1>4 DEF IInv, TranscriptInv, GatheredInv, Asking
  <2>2. PICK out : out = Append(messages, m)
    OBVIOUS
  <2>3. /\ Structured(out, turns) /\ OpenAt(out, calls, turns, at + 1 - 1)
        /\ \A j \in DOMAIN messages : messages[j].role = "tool" => messages[j].id # m.id
    BY <1>3, <1>4, <1>5, <1>6, <2>2, NextAnswer
  <2>4. IsMessage(m) /\ m.role = "tool" /\ m.id = CallId(at) /\ Begins(m.body.documents, r.documents)
    BY <1>3, <1>6, AnswerIs
  <2>5. e.id = m.id /\ e.result = r
    BY <1>2, <2>4
  <2>6. Told(out, Append(results, e))
    BY <2>1, <2>2, <2>3, <2>4, <2>5, AnotherResult DEF Structured, AreResults
  <2>7. messages' = out
    BY <1>4, <2>2
  <2>8. Structured(messages', turns')
    BY <1>4, <2>3, <2>7
  <2>9. Told(messages', results')
    BY <1>4, <2>6, <2>7
  <2>10. OpenAt(messages', calls', turns', at' - 1)
    <3>1. PICK q : q = at + 1 - 1
      OBVIOUS
    <3>2. OpenAt(out, calls, turns, q)
      BY <2>3, <3>1
    <3>3. at \in Nat /\ at' = at + 1
      BY <1>4, <1>5
    <3>4. at' - 1 = q
      BY <3>1, <3>3
    <3>5. calls' = calls /\ turns' = turns
      BY <1>4
    <3> QED
      BY <2>7, <3>2, <3>4, <3>5, Zenon
  <2>11. pc' \notin Before /\ pc' \notin {"top", "model"}
    BY <1>4 DEF Before
  <2> QED
    BY <2>8, <2>9, <2>10, <2>11 DEF TranscriptInv
<1> QED
  BY <1>7, <1>8, <1>9, <1>10, <1>11, <1>12 DEF IInv

LEMMA EndTurnKeeps == ASSUME IInv, EndTurn PROVE IInv'
<1>1. /\ pc = "calls" /\ pc' = "top" /\ at > Len(calls) /\ Settled /\ edits' = edits /\ turns' = turns
      /\ forced' = forced /\ bounced' = bounced /\ calls' = calls /\ at' = at /\ gathered' = gathered
      /\ draft' = draft /\ results' = results /\ messages' = messages /\ sidecar' = sidecar /\ got' = got
  <2>1. UNCHANGED setting /\ UNCHANGED source /\ UNCHANGED loop /\ UNCHANGED turn /\ UNCHANGED reading
        /\ UNCHANGED outcome
    BY DEF EndTurn
  <2> QED
    BY <2>1 DEF EndTurn, Settled, setting, request, source, loop, turn, reading, outcome
<1>2. SourceInv' /\ FoundInv' /\ IndexInv'
  BY <1>1, SettledKeeps DEF Asking
<1>3. TurnInv'
  BY <1>1 DEF IInv, TurnInv, Asking, Before
<1>4. GatheredInv'
  BY <1>1, NothingIsCited DEF IInv, GatheredInv
<1>5. PlaceInv'
  BY <1>1 DEF IInv, PlaceInv, Asking
<1>6. CallInv'
  BY <1>1 DEF IInv, CallInv
<1>7. TranscriptInv'
  <2>1. Structured(messages, turns) /\ Told(messages, results) /\ OpenAt(messages, calls, turns, at - 1)
    BY <1>1 DEF IInv, TranscriptInv, Asking
  <2>2. IsList(calls) /\ at - 1 = Len(calls)
    BY <1>1, ListIs DEF IInv, CallInv, AreCalls
  <2>3. AllClosed(messages)
    BY <2>1, <2>2, TurnCompletes
  <2> QED
    BY <1>1, <2>1, <2>3 DEF TranscriptInv, Asking, Before
<1> QED
  BY <1>2, <1>3, <1>4, <1>5, <1>6, <1>7 DEF IInv

LEMMA UniqueIsSet ==
  ASSUME NEW s, IsList(s)
  PROVE  IsSet(Unique(s)) /\ ToSet(Unique(s)) = ToSet(s)
BY UniqueIs DEF IsSet

\* What is cited comes from the gathered list.
LEMMA FinishCites == ASSUME IInv, Finish PROVE CitationsRead'
<1>1. /\ pc = "finish" /\ pc' = "done" /\ results' = results /\ draft' = draft /\ gathered' = Unique(gathered)
  BY DEF Finish, Dedupe
<1>2. IsList(gathered) /\ ToSet(gathered) = ReadSet(results)
  BY <1>1 DEF IInv, GatheredInv
<1>3. PICK g : g = Unique(gathered)
  OBVIOUS
<1>4. PICK own : own = Unique(g)
  OBVIOUS
<1>5. IsList(g) /\ IsSet(own) /\ IsList(own) /\ ToSet(own) = ToSet(gathered) /\ ToSet(g) = ToSet(gathered)
  BY <1>2, <1>3, <1>4, UniqueIsSet DEF IsSet
<1>6. PICK merged : merged = Unique(own \o own)
  OBVIOUS
<1>7. IsSet(merged) /\ ToSet(merged) = ToSet(gathered)
  <2>1. IsList(own \o own) /\ ToSet(own \o own) = ToSet(own) \cup ToSet(own)
    BY <1>5, Concatenated, ConcatenatedSet
  <2> QED
    BY <1>5, <1>6, <2>1, UniqueIsSet
<1>8. PICK all : all = IF Synthesis /\ g # <<>> THEN merged ELSE own
  OBVIOUS
<1>9. IsSet(all) /\ ToSet(all) = ReadSet(results)
  BY <1>2, <1>5, <1>7, <1>8
<1>10. citations' = IF draft.cited = <<>> THEN all ELSE PreferCited(all, draft.cited)
  BY <1>1, <1>3, <1>4, <1>6, <1>8 DEF Finish, CitationsFrom, Merge, Synthesized
<1>11. PICK cs : cs = citations'
  OBVIOUS
<1>12. /\ ToSet(cs) = ReadSet(results)
       /\ \A i, j \in DOMAIN cs : i < j => cs[i] # cs[j] /\ (Contains(draft.cited, cs[j].id) => Contains(draft.cited, cs[i].id))
  <2>1. CASE draft.cited # <<>>
    BY <1>9, <1>10, <1>11, <2>1, PreferredIs
  <2>2. CASE draft.cited = <<>>
    <3>1. cs = all
      BY <1>10, <1>11, <2>2
    <3>2. \A x : ~ Contains(draft.cited, x)
      BY <2>2, EmptyIsList DEF Contains
    <3>3. \A i, j \in DOMAIN all : i < j => all[i] # all[j]
      <4>1. DOMAIN all \subseteq Nat
        BY <1>9, ListIs DEF IsSet
      <4> QED
        BY <1>9, <4>1 DEF IsSet
    <3> QED
      BY <1>9, <3>1, <3>2, <3>3
  <2> QED
    BY <2>1, <2>2
<1>13. ReadSet(results) = UNION {ToSet(results'[i].result.documents) : i \in DOMAIN results'}
  BY <1>1 DEF ReadSet
<1> QED
  BY <1>1, <1>11, <1>12, <1>13 DEF CitationsRead

LEMMA FinishKeeps == ASSUME IInv, Finish PROVE IInv'
<1>1. /\ pc = "finish" /\ pc' = "done" /\ UNCHANGED <<index, most, db>> /\ edits' = edits /\ turns' = turns
      /\ forced' = forced /\ bounced' = bounced /\ calls' = calls /\ at' = at /\ draft' = draft /\ got' = got
      /\ sidecar' \in {"none", "open", "closed"}
  <2>1. UNCHANGED setting /\ UNCHANGED source /\ UNCHANGED loop /\ UNCHANGED turn /\ UNCHANGED reading
    BY DEF Finish
  <2>2. sidecar' \in {"none", "open", "closed"}
    BY DEF Finish, CloseSidecar, IInv, PlaceInv
  <2> QED
    BY <2>1, <2>2 DEF Finish, setting, request, source, loop, turn, reading
<1>2. SourceInv'
  BY <1>1 DEF IInv, SourceInv
<1>3. FoundInv' /\ IndexInv'
  BY <1>1 DEF IInv, FoundInv, IndexInv, Asking
<1>4. TurnInv'
  BY <1>1 DEF IInv, TurnInv, Asking, Before
<1>5. GatheredInv'
  BY <1>1, FinishCites DEF GatheredInv
<1>6. PlaceInv'
  BY <1>1 DEF IInv, PlaceInv, Asking
<1>7. CallInv'
  BY <1>1 DEF IInv, CallInv
<1>8. TranscriptInv'
  BY <1>1 DEF TranscriptInv, Asking, Before
<1> QED
  BY <1>2, <1>3, <1>4, <1>5, <1>6, <1>7, <1>8 DEF IInv

LEMMA EditSourceKeeps == ASSUME IInv, EditSource PROVE IInv'
<1>1. /\ pc \in {"list", "count", "reading"} /\ pc' = pc /\ edits < MaxEdits /\ edits' = edits + 1
      /\ UNCHANGED <<index, most, found, turns, forced, bounced, calls, at, got, gathered, draft, results, messages,
                     sidecar, citations>>
  <2>1. UNCHANGED setting /\ UNCHANGED loop /\ UNCHANGED turn /\ UNCHANGED reading /\ UNCHANGED outcome
    BY DEF EditSource
  <2> QED
    BY <2>1 DEF EditSource, setting, request, loop, turn, reading, outcome
<1>2. PICK c \in DOMAIN Documents :
        \/ \E i \in DOMAIN db[c] : db' = [db EXCEPT ![c] = RemoveAt(@, i)]
        \/ \E d \in Documents[c] :
             \/ (\A i \in DOMAIN db[c] : db[c][i].id # d.id) /\ db' = [db EXCEPT ![c] = Append(@, d)]
             \/ \E i \in DOMAIN db[c] : db[c][i].id = d.id /\ db[c][i] # d /\ db' = [db EXCEPT ![c][i] = d]
  BY DEF EditSource
<1>3. c \in DOMAIN db /\ Stored(c, db[c])
  <2>1. c \in DOMAIN Database
    BY SessionAssumption
  <2> QED
    BY <2>1 DEF IInv, SourceInv
<1>4. \A d \in Documents[c] : d \in Storable(c)
  BY DEF Storable
<1>5. PICK docs : Stored(c, docs) /\ db' = [db EXCEPT ![c] = docs]
  <2>1. CASE \E i \in DOMAIN db[c] : db' = [db EXCEPT ![c] = RemoveAt(@, i)]
    BY <1>3, <2>1, RemovedIs
  <2>2. ASSUME NEW d \in Documents[c], \A i \in DOMAIN db[c] : db[c][i].id # d.id, db' = [db EXCEPT ![c] = Append(@, d)]
        PROVE  \E docs : Stored(c, docs) /\ db' = [db EXCEPT ![c] = docs]
    BY <1>3, <1>4, <2>2, InsertedIs
  <2>3. ASSUME NEW d \in Documents[c], NEW i \in DOMAIN db[c], db[c][i].id = d.id, db' = [db EXCEPT ![c][i] = d]
        PROVE  \E docs : Stored(c, docs) /\ db' = [db EXCEPT ![c] = docs]
    <3>1. PICK docs : docs = [db[c] EXCEPT ![i] = d]
      OBVIOUS
    <3>2. Stored(c, docs)
      BY <1>3, <1>4, <2>3, <3>1, ReplacedIs
    <3>3. db' = [db EXCEPT ![c] = docs]
      BY <2>3, <3>1
    <3> QED
      BY <3>2, <3>3
  <2> QED
    BY <1>2, <2>1, <2>2, <2>3
<1>6. SourceInv'
  BY <1>3, <1>5 DEF IInv, SourceInv
<1>7. FoundInv' /\ IndexInv'
  BY <1>1 DEF IInv, FoundInv, IndexInv
<1>8. CallInv' /\ TurnInv' /\ TranscriptInv'
  BY <1>1 DEF IInv, CallInv, TurnInv, TranscriptInv
<1>9. GatheredInv'
  BY <1>1, NothingIsCited DEF IInv, GatheredInv
<1>10. PlaceInv'
  <2>1. edits' \in 0 .. MaxEdits
    <3>1. MaxEdits \in Nat /\ edits \in 0 .. MaxEdits
      BY SessionAssumption DEF IInv, PlaceInv
    <3> QED
      BY <1>1, <3>1
  <2> QED
    BY <1>1, <2>1 DEF IInv, PlaceInv
<1> QED
  BY <1>6, <1>7, <1>8, <1>9, <1>10 DEF IInv

LEMMA StutterKeeps == ASSUME IInv, UNCHANGED vars PROVE IInv'
<1>1. UNCHANGED setting /\ UNCHANGED source /\ UNCHANGED loop /\ UNCHANGED turn /\ UNCHANGED reading /\ UNCHANGED outcome
      /\ UNCHANGED <<pc, sidecar, messages, results>>
  BY DEF vars
<1>2. UNCHANGED <<index, found, most, db, edits, turns, forced, bounced, calls, at, got, gathered, draft, citations>>
  BY <1>1 DEF setting, request, source, loop, turn, reading, outcome
<1>3. SourceInv' /\ FoundInv' /\ IndexInv'
  BY <1>1, <1>2 DEF IInv, SourceInv, FoundInv, IndexInv
<1>4. CallInv' /\ TurnInv' /\ TranscriptInv'
  BY <1>1, <1>2 DEF IInv, CallInv, TurnInv, TranscriptInv
<1>5. GatheredInv'
  BY <1>1, <1>2 DEF IInv, GatheredInv, CitationsRead
<1>6. PlaceInv'
  BY <1>1, <1>2 DEF IInv, PlaceInv
<1> QED
  BY <1>3, <1>4, <1>5, <1>6 DEF IInv

LEMMA NextKeeps == ASSUME IInv, Next PROVE IInv'
<1>1. CASE Indexing
  BY <1>1, BuildIndexKeeps, ListSourceKeeps, CountSourceKeeps, SaveIndexKeeps DEF Indexing
<1>2. CASE Step
  <2>1. CASE Ask \/ Load \/ Prompt \/ TopOfLoop
    BY <2>1, AskKeeps, PromptKeeps, TopOfLoopKeeps
  <2>2. CASE ReplyCalls \/ ReplyText
    BY <2>2, ReplyCallsKeeps, ReplyTextKeeps
  <2>3. CASE Dispatch \/ Read \/ Record
    BY <2>3, DispatchKeeps, ReadKeeps, RecordKeeps
  <2>4. CASE EndTurn \/ Finish
    BY <2>4, EndTurnKeeps, FinishKeeps
  <2> QED
    BY <1>2, <2>1, <2>2, <2>3, <2>4 DEF Step
<1>3. CASE EditSource
  BY <1>3, EditSourceKeeps
<1> QED
  BY <1>1, <1>2, <1>3 DEF Next

\* The inductive invariant holds of every session.
THEOREM InvHolds == Spec => []IInv
<1>1. Init => IInv
  BY StartInv
<1>2. IInv /\ [Next]_vars => IInv'
  BY NextKeeps, StutterKeeps
<1> QED
  BY <1>1, <1>2, PTL DEF Spec

\* What the invariant says of the transcript that is sent.
LEMMA SentIsWhole == ASSUME IInv PROVE TranscriptHolds
<1> SUFFICES ASSUME pc = "model" PROVE
      /\ messages[1].role = "system" /\ messages[2].role = "user"
      /\ Paired(messages)
      /\ \A i \in DOMAIN messages : \A id \in ToSet(messages[i].calls) : Cardinality(Answers(id)) = 1
      /\ forced => messages[Len(messages)].role = "force"
      /\ \A i \in DOMAIN messages : messages[i].role = "tool" =>
           /\ Size(messages[i].body) <= Bound(i)
           /\ \A r \in ResultOf(messages[i].id) :
                /\ messages[i].body.documents = Upto(r.documents, Len(messages[i].body.documents))
                /\ r.documents # <<>> => messages[i].body.documents # <<>>
  BY DEF TranscriptHolds
<1>1. Structured(messages, turns) /\ Told(messages, results) /\ AllClosed(messages) /\ Fits(messages)
  BY DEF IInv, TranscriptInv, Asking
<1>2. forced => messages[Len(messages)].role = "force"
  BY DEF IInv, TranscriptInv
<1>3. messages[1].role = "system" /\ messages[2].role = "user"
  BY <1>1 DEF Structured, Opens
<1>4. Paired(messages) /\ \A i \in DOMAIN messages : \A id \in ToSet(messages[i].calls) : Cardinality(Answers(id)) = 1
  BY <1>1, CompleteIsPaired DEF Answers
<1>5. ASSUME NEW i \in DOMAIN messages, messages[i].role = "tool" PROVE Size(messages[i].body) <= Bound(i)
  BY <1>1, <1>5 DEF Fits, Bound
<1>6. ASSUME NEW i \in DOMAIN messages, messages[i].role = "tool", NEW r \in ResultOf(messages[i].id)
      PROVE  /\ messages[i].body.documents = Upto(r.documents, Len(messages[i].body.documents))
             /\ r.documents # <<>> => messages[i].body.documents # <<>>
  <2>1. PICK n \in DOMAIN results : results[n].id = messages[i].id /\ r = results[n].result
    BY <1>6 DEF ResultOf
  <2>2. Begins(messages[i].body.documents, r.documents)
    BY <1>1, <1>6, <2>1 DEF Told
  <2>3. IsList(r.documents)
    BY <2>1 DEF IInv, GatheredInv, AreResults, IsResult, Lists5
  <2> QED
    BY <2>2, <2>3, BeginsUpto
<1> QED
  BY <1>2, <1>3, <1>4, <1>5, <1>6

\* Whatever was read and however often the transcript was shortened, what the model is
\* sent opens with the prompt and the question, answers every call once and nothing
\* else, ends with the force message of a forced turn, keeps every answer within its
\* cap, and shows the first documents of every result that had any (_tool_loop,
\* compact_messages, _brief and _receipt).
THEOREM TranscriptIsWhole == Spec => []TranscriptHolds
<1>1. IInv => TranscriptHolds
  BY SentIsWhole
<1> QED
  BY <1>1, InvHolds, PTL

\* A finished session cites exactly the documents its tools returned, each once, those
\* the draft cites first (_dedupe_docs, _merge_citations, _prefer_cited).
THEOREM CitesWhatWasRead == Spec => []CitationsRead
<1>1. IInv => CitationsRead
  BY DEF IInv, GatheredInv
<1> QED
  BY <1>1, InvHolds, PTL

\* Every variable keeps to its values: turns never pass the budget by more than the
\* forced one, and the place in a turn is one of its calls or the end.
THEOREM TypeCorrect == Spec => []TypeOK
<1>1. IInv => TypeOK
  <2> SUFFICES ASSUME IInv PROVE TypeOK
    OBVIOUS
  <2>1. pc \in Before \cup Asking \cup {"refused", "finish", "done", "raised"}
    BY DEF IInv, PlaceInv
  <2>2. /\ sidecar \in {"none", "open", "closed"} /\ bounced \in BOOLEAN /\ edits \in 0 .. MaxEdits
        /\ draft.submitted \in BOOLEAN
    BY DEF IInv, PlaceInv
  <2>3. forced \in BOOLEAN /\ turns \in 0 .. MaxTurns + 1 /\ at \in 1 .. Len(calls) + 1
    BY DEF IInv, TurnInv, CallInv
  <2> QED
    BY <2>1, <2>2, <2>3 DEF TypeOK, Before, Asking
<1> QED
  BY <1>1, InvHolds, PTL

-----------------------------------------------------------------------------
(* What a find returns.                                                    *)

Stock(d, coll) == IF coll \in DOMAIN d THEN ToSet(d[coll]) ELSE {}
IdsOnce(s) == \A a, b \in DOMAIN s : s[a].id = s[b].id => a = b
Shelved(d) == \A c \in DOMAIN d : IsList(d[c]) /\ IdsOnce(d[c])

\* What a find matches in the database, and what is left of it when Python has looked again.
Mongo(i, coll, x, ids, clauses) ==
  /\ i.live => Allowed(i, coll, x) /\ (ids # {} => IdIn(coll, x, ids)) /\ \A c \in clauses : MongoClause(coll, x, c)
  /\ ~ i.live => (ids # {} => x.id \in ids) /\ \A c \in clauses : Matches(x, c)
Rechecked(x, clauses) == \A c \in clauses : Matches(x, c)
Suits(i, coll, x, ids, clauses) == Mongo(i, coll, x, ids, clauses) /\ Rechecked(x, clauses)
Suiting(i, d, coll, ids, clauses) == {x \in Stock(d, coll) : Suits(i, coll, x, ids, clauses)}

\* Python refuses nothing that the database lets through.
Exact(i, coll, clauses) == i.live => \A x : \A c \in clauses : MongoClause(coll, x, c) => Matches(x, c)

LEMMA OncePart ==
  ASSUME NEW s, IsList(s), NEW t, IsList(t), ToSet(t) \subseteq ToSet(s), Distinct(t), IdsOnce(s)
  PROVE  IdsOnce(t)
<1>1. SUFFICES ASSUME NEW a \in DOMAIN t, NEW b \in DOMAIN t, t[a].id = t[b].id PROVE a = b
  BY DEF IdsOnce
<1>2. t[a] \in ToSet(s) /\ t[b] \in ToSet(s)
  BY DEF ToSet
<1>3. PICK k \in DOMAIN s, l \in DOMAIN s : t[a] = s[k] /\ t[b] = s[l]
  BY <1>2 DEF ToSet
<1>4. k = l
  BY <1>1, <1>3 DEF IdsOnce
<1> QED
  BY <1>3, <1>4 DEF Distinct

LEMMA OnceDistinct ==
  ASSUME NEW s, IdsOnce(s)
  PROVE  Distinct(s)
BY DEF IdsOnce, Distinct

\* The first of a list, or all of it: with room to spare, all.
LEMMA SomeOf ==
  ASSUME NEW s, IsList(s), Distinct(s), NEW limit \in Nat
  PROVE  LET t == IF limit = 0 THEN s ELSE Upto(s, limit)
         IN  /\ IsList(t) /\ Distinct(t) /\ ToSet(t) \subseteq ToSet(s) /\ (limit # 0 => Len(t) <= limit)
             /\ limit = 0 \/ Len(t) < limit => t = s
<1>1. CASE limit = 0
  BY <1>1
<1>2. CASE limit # 0
  <2>1. PICK t : t = Upto(s, limit)
    OBVIOUS
  <2>2. /\ IsList(t) /\ Len(t) = Smaller(limit, Len(s)) /\ Len(t) <= limit /\ ToSet(t) \subseteq ToSet(s) /\ Distinct(t)
        /\ \A k \in 1 .. Len(t) : t[k] = s[k]
    BY <2>1, UptoPart, UptoIs
  <2>3. ASSUME Len(t) < limit PROVE t = s
    <3>1. Len(t) = Len(s)
      BY <2>2, <2>3, ListIs DEF Smaller
    <3> QED
      BY <2>2, <3>1, SameLists
  <2> QED
    BY <1>2, <2>1, <2>2, <2>3
<1> QED
  BY <1>1, <1>2

\* A find returns documents of S, each once; all of S when exact and with room to spare.
Finds(t, S, exact, limit) ==
  /\ IsList(t) /\ IdsOnce(t) /\ ToSet(t) \subseteq S
  /\ exact => (limit # 0 => Len(t) <= limit) /\ (limit = 0 \/ Len(t) < limit => ToSet(t) = S)

LEMMA FetchIs ==
  ASSUME NEW i, i.live, NEW d, Shelved(d), NEW coll \in DOMAIN d, NEW ids, NEW clauses, NEW limit \in Nat
  PROVE  Finds(Fetch(i, d, coll, ids, clauses, limit), Suiting(i, d, coll, ids, clauses), Exact(i, coll, clauses), limit)
<1>1. PICK s : s = d[coll]
  OBVIOUS
<1>2. IsList(s) /\ IdsOnce(s)
  BY <1>1 DEF Shelved
<1>3. PICK I : I = {k \in DOMAIN s : /\ Allowed(i, coll, s[k])
                                     /\ ids # {} => IdIn(coll, s[k], ids)
                                     /\ \A c \in clauses : MongoClause(coll, s[k], c)}
  OBVIOUS
<1>4. PICK f : f = Picked(s, I)
  OBVIOUS
<1>5. IsList(f) /\ Distinct(f) /\ ToSet(f) = {s[k] : k \in I} /\ ToSet(f) \subseteq ToSet(s)
  BY <1>2, <1>3, <1>4, Kept, OnceDistinct
<1>6. PICK u : u = IF limit = 0 THEN f ELSE Upto(f, limit)
  OBVIOUS
<1>7. /\ IsList(u) /\ Distinct(u) /\ ToSet(u) \subseteq ToSet(f) /\ (limit # 0 => Len(u) <= limit)
      /\ limit = 0 \/ Len(u) < limit => u = f
  BY <1>5, <1>6, SomeOf
<1>8. PICK J : J = {k \in DOMAIN u : \A c \in clauses : Matches(u[k], c)}
  OBVIOUS
<1>9. PICK t : t = Picked(u, J)
  OBVIOUS
<1>10. IsList(t) /\ Distinct(t) /\ ToSet(t) = {u[k] : k \in J} /\ ToSet(t) \subseteq ToSet(u)
  BY <1>7, <1>8, <1>9, Kept
<1>11. Fetch(i, d, coll, ids, clauses, limit) = t
  BY <1>1, <1>3, <1>4, <1>6, <1>8, <1>9 DEF Fetch, Filter
<1>12. \A x \in ToSet(f) : Mongo(i, coll, x, ids, clauses)
  BY <1>3, <1>5 DEF Mongo
<1>13. PICK S : S = Suiting(i, d, coll, ids, clauses)
  OBVIOUS
<1>14. S = {x \in ToSet(s) : Suits(i, coll, x, ids, clauses)}
  BY <1>1, <1>13 DEF Suiting, Stock
<1>15. ToSet(t) \subseteq S
  <2>1. \A x \in ToSet(t) : Rechecked(x, clauses)
    BY <1>8, <1>10 DEF Rechecked
  <2> QED
    BY <1>5, <1>7, <1>10, <1>12, <1>14, <2>1 DEF Suits
<1>16. IdsOnce(t)
  <2>1. ToSet(t) \subseteq ToSet(s)
    BY <1>14, <1>15
  <2> QED
    BY <1>2, <1>10, <2>1, OncePart
<1>17. ASSUME Exact(i, coll, clauses) PROVE ToSet(t) = ToSet(u) /\ Len(t) = Len(u)
  <2>1. \A k \in DOMAIN u : \A c \in clauses : Matches(u[k], c)
    <3>1. ASSUME NEW k \in DOMAIN u PROVE \A c \in clauses : MongoClause(coll, u[k], c)
      BY <1>7, <1>12 DEF ToSet, Mongo
    <3> QED
      BY <1>17, <3>1 DEF Exact
  <2>2. J = DOMAIN u
    BY <1>8, <2>1
  <2>3. ToSet(t) = ToSet(u)
    BY <1>10, <2>2 DEF ToSet
  <2>4. Len(t) = Len(u)
    <3>1. Cardinality(ToSet(t)) = Len(t) /\ Cardinality(ToSet(u)) = Len(u)
      BY <1>7, <1>10, DistinctCount
    <3> QED
      BY <2>3, <3>1
  <2> QED
    BY <2>3, <2>4
<1>18. ASSUME Exact(i, coll, clauses), limit = 0 \/ Len(t) < limit PROVE ToSet(t) = S
  <2>1. ToSet(t) = ToSet(f)
    BY <1>7, <1>17, <1>18
  <2>2. ASSUME NEW x \in S PROVE x \in ToSet(f)
    <3>1. PICK k \in DOMAIN s : x = s[k] /\ Suits(i, coll, x, ids, clauses)
      BY <1>14 DEF ToSet
    <3>2. k \in I
      BY <1>3, <3>1 DEF Suits, Mongo
    <3> QED
      BY <1>5, <3>1, <3>2
  <2> QED
    BY <1>15, <2>1, <2>2
<1>19. Exact(i, coll, clauses) => (limit # 0 => Len(t) <= limit)
  BY <1>7, <1>17
<1> QED
  BY <1>10, <1>11, <1>13, <1>15, <1>16, <1>18, <1>19 DEF Finds

LEMMA InMemoryIs ==
  ASSUME NEW i, ~ i.live, NEW d, Shelved(d), NEW coll \in DOMAIN d, NEW ids, NEW clauses, NEW limit \in Nat
  PROVE  Finds(InMemory(d, coll, ids, clauses, limit), Suiting(i, d, coll, ids, clauses), TRUE, limit)
<1>1. PICK s : s = d[coll]
  OBVIOUS
<1>2. IsList(s) /\ IdsOnce(s)
  BY <1>1 DEF Shelved
<1>3. PICK I : I = {k \in DOMAIN s : (ids # {} => s[k].id \in ids) /\ \A c \in clauses : Matches(s[k], c)}
  OBVIOUS
<1>4. PICK f : f = Picked(s, I)
  OBVIOUS
<1>5. IsList(f) /\ Distinct(f) /\ ToSet(f) = {s[k] : k \in I} /\ ToSet(f) \subseteq ToSet(s)
  BY <1>2, <1>3, <1>4, Kept, OnceDistinct
<1>6. PICK t : t = IF limit = 0 THEN f ELSE Upto(f, limit)
  OBVIOUS
<1>7. /\ IsList(t) /\ Distinct(t) /\ ToSet(t) \subseteq ToSet(f) /\ (limit # 0 => Len(t) <= limit)
      /\ limit = 0 \/ Len(t) < limit => t = f
  BY <1>5, <1>6, SomeOf
<1>8. InMemory(d, coll, ids, clauses, limit) = t
  BY <1>1, <1>3, <1>4, <1>6 DEF InMemory, Filter
<1>9. ToSet(f) = Suiting(i, d, coll, ids, clauses)
  <2>1. ASSUME NEW k \in DOMAIN s PROVE k \in I <=> Suits(i, coll, s[k], ids, clauses)
    BY <1>3 DEF Suits, Mongo, Rechecked
  <2>2. Suiting(i, d, coll, ids, clauses) = {x \in ToSet(s) : Suits(i, coll, x, ids, clauses)}
    BY <1>1 DEF Suiting, Stock
  <2> QED
    BY <1>5, <1>3, <2>1, <2>2 DEF ToSet
<1>10. IdsOnce(t)
  <2>1. ToSet(t) \subseteq ToSet(s)
    BY <1>5, <1>7
  <2> QED
    BY <1>2, <1>7, <2>1, OncePart
<1> QED
  BY <1>7, <1>8, <1>9, <1>10 DEF Finds

\* Documents of the collection that suit, each once; all of them when there is room.
LEMMA RowsAre ==
  ASSUME NEW i, NEW d, Shelved(d), NEW coll, NEW ids, NEW clauses, NEW limit \in Nat
  PROVE  Finds(Rows(i, d, coll, ids, clauses, limit), Suiting(i, d, coll, ids, clauses), Exact(i, coll, clauses), limit)
<1>1. CASE coll \notin DOMAIN d
  <2>1. Rows(i, d, coll, ids, clauses, limit) = <<>> /\ Suiting(i, d, coll, ids, clauses) = {}
    BY <1>1 DEF Rows, Suiting, Stock
  <2>2. IsList(<<>>) /\ IdsOnce(<<>>) /\ ToSet(<<>>) = {} /\ Len(<<>>) = 0
    BY EmptyIsList DEF IdsOnce, ToSet
  <2> QED
    BY <2>1, <2>2 DEF Finds
<1>2. CASE coll \in DOMAIN d /\ i.live
  BY <1>2, FetchIs DEF Rows
<1>3. CASE coll \in DOMAIN d /\ ~ i.live
  <2>1. Finds(InMemory(d, coll, ids, clauses, limit), Suiting(i, d, coll, ids, clauses), TRUE, limit)
    BY <1>3, InMemoryIs
  <2>2. Rows(i, d, coll, ids, clauses, limit) = InMemory(d, coll, ids, clauses, limit)
    BY <1>3 DEF Rows
  <2> QED
    BY <2>1, <2>2 DEF Finds
<1> QED
  BY <1>1, <1>2, <1>3

\* The references to what was found.
LEMMA PayloadsAre ==
  ASSUME NEW coll, NEW docs, IsList(docs)
  PROVE  LET t == Payloads(coll, docs)
         IN  /\ IsList(t) /\ Len(t) = Len(docs) /\ ToSet(t) = {Ref(coll, x) : x \in ToSet(docs)}
             /\ IdsOnce(docs) => Distinct(t)
<1>1. PICK t : t = Payloads(coll, docs)
  OBVIOUS
<1>2. IsList(t) /\ Len(t) = Len(docs)
  BY <1>1, PayloadsList
<1>3. DOMAIN t = DOMAIN docs /\ \A k \in DOMAIN docs : t[k] = Ref(coll, docs[k])
  BY <1>1 DEF Payloads
<1>4. ToSet(t) = {Ref(coll, x) : x \in ToSet(docs)}
  BY <1>3 DEF ToSet
<1>5. \A k, l \in DOMAIN docs : Ref(coll, docs[k]) = Ref(coll, docs[l]) => docs[k].id = docs[l].id
  BY DEF Ref
<1>6. IdsOnce(docs) => Distinct(t)
  BY <1>3, <1>5 DEF IdsOnce, Distinct
<1> QED
  BY <1>1, <1>2, <1>4, <1>6

-----------------------------------------------------------------------------
(* What a call has gathered after one more find.                           *)

\* docs grew to more by references of T, none above the cap and all unless it is reached.
Grown(docs, more, T, cap) ==
  /\ IsList(more) /\ Distinct(more) /\ Len(more) <= cap
  /\ ToSet(docs) \subseteq ToSet(more) /\ ToSet(more) \subseteq ToSet(docs) \cup T
  /\ Len(more) < cap => T \subseteq ToSet(more)

LEMMA ContainsIs ==
  ASSUME NEW s, IsList(s), NEW x
  PROVE  Contains(s, x) <=> x \in ToSet(s)
<1>1. DOMAIN s = 1 .. Len(s)
  BY ListIs
<1> QED
  BY <1>1 DEF Contains, ToSet

LEMMA AddIs ==
  ASSUME NEW g, IsGot(g), Distinct(g.documents), NEW cap \in Nat, Len(g.documents) <= cap,
         NEW refs, IsList(refs), Distinct(refs)
  PROVE  LET t == Add(g, refs, cap)
         IN  /\ IsGot(t) /\ t = [g EXCEPT !.documents = t.documents]
             /\ Grown(g.documents, t.documents, ToSet(refs), cap)
             /\ Len(t.documents) >= Len(g.documents) /\ \A k \in DOMAIN g.documents : t.documents[k] = g.documents[k]
<1>1. PICK docs : docs = g.documents
  OBVIOUS
<1>2. PICK n \in Nat : docs = g.documents /\ n = Len(docs)
  BY <1>1, ListIs DEF IsGot
<1>3. IsList(docs) /\ Distinct(docs) /\ n <= cap /\ DOMAIN docs = 1 .. n
  BY <1>2, ListIs DEF IsGot
<1>4. PICK I : I = {k \in DOMAIN refs : ~ Contains(docs, refs[k])}
  OBVIOUS
<1>5. PICK new : new = Picked(refs, I)
  OBVIOUS
<1>6. PICK m \in Nat : new = Picked(refs, I) /\ m = Len(new)
  <2>1. IsList(new)
    BY <1>4, <1>5, Kept
  <2> QED
    BY <1>5, <2>1, ListIs
<1>7. IsList(new) /\ Distinct(new) /\ ToSet(new) = {refs[k] : k \in I} /\ ToSet(new) \subseteq ToSet(refs)
  BY <1>4, <1>6, Kept
<1>8. ToSet(new) = ToSet(refs) \ ToSet(docs)
  BY <1>3, <1>4, <1>7, ContainsIs DEF ToSet
<1>9. PICK all : all = docs \o new
  OBVIOUS
<1>10. /\ IsList(all) /\ Len(all) = n + m /\ ToSet(all) = ToSet(docs) \cup ToSet(new) /\ Distinct(all)
      /\ \A k \in 1 .. n : all[k] = docs[k]
  <2>1. ToSet(docs) \cap ToSet(new) = {}
    BY <1>8
  <2>2. /\ IsList(docs \o new) /\ Len(docs \o new) = Len(docs) + Len(new)
        /\ \A k \in 1 .. Len(docs) : (docs \o new)[k] = docs[k]
    BY ONLY <1>3, <1>7, Concatenated
  <2>3. ToSet(docs \o new) = ToSet(docs) \cup ToSet(new)
    BY ONLY <1>3, <1>7, ConcatenatedSet
  <2>4. Distinct(docs \o new)
    BY ONLY <1>3, <1>7, <2>1, ConcatenatedDistinct
  <2>5. n = Len(docs) /\ m = Len(new)
    BY <1>2, <1>6
  <2> QED
    BY ONLY <1>9, <2>2, <2>3, <2>4, <2>5
<1>11. PICK more : more = Upto(all, cap)
  OBVIOUS
<1>12. /\ IsList(more) /\ Len(more) = Smaller(cap, n + m) /\ Len(more) <= cap /\ Distinct(more)
       /\ ToSet(more) \subseteq ToSet(all) /\ \A k \in 1 .. Len(more) : more[k] = all[k]
  BY <1>10, <1>11, UptoPart, UptoIs
<1>13. Len(more) >= n /\ Len(more) \in Nat /\ DOMAIN more = 1 .. Len(more)
  BY <1>2, <1>3, <1>6, <1>12, ListIs DEF Smaller
<1>14. \A k \in 1 .. n : k \in 1 .. Len(more) /\ more[k] = docs[k]
  BY <1>10, <1>12, <1>13
<1>15. ToSet(docs) \subseteq ToSet(more)
  BY <1>3, <1>13, <1>14 DEF ToSet
<1>16. ASSUME Len(more) < cap PROVE ToSet(refs) \subseteq ToSet(more)
  <2>1. Len(more) = Len(all)
    BY <1>2, <1>6, <1>10, <1>12, <1>16 DEF Smaller
  <2>2. more = all
    BY <1>10, <1>12, <2>1, SameLists
  <2> QED
    BY <1>8, <1>10, <2>2
<1>17. Add(g, refs, cap) = [g EXCEPT !.documents = more]
  BY <1>2, <1>4, <1>6, <1>9, <1>11 DEF Add, Filter
<1>18. Grown(docs, more, ToSet(refs), cap)
  BY <1>7, <1>10, <1>12, <1>15, <1>16 DEF Grown
<1>19. PICK t : t = Add(g, refs, cap)
  OBVIOUS
<1>20. IsGot(t)
  BY <1>19, AddKeepsGot
<1>21. t.documents = more /\ t = [g EXCEPT !.documents = t.documents]
  BY <1>17, <1>19 DEF IsGot, ReadFields
<1> QED
  BY <1>2, <1>3, <1>13, <1>14, <1>18, <1>19, <1>20, <1>21

-----------------------------------------------------------------------------
(* What a find of the indexed source returns, said of the documents in it. *)

\* What the reader lets through, and what it finds whatever it is asked for.
Open(x) == x.coll \in index.collections => InScope(x)
Findable(x) == InScope(x) /\ (index.scope[x.coll].complete \/ ById(x))
In(coll, d) == [coll |-> coll, doc |-> d]

\* An index in memory has all of its documents in scope.
Held == ~ index.live => \A c \in DOMAIN db \cap index.collections : \A d \in ToSet(db[c]) :
                          index.scope[c].complete \/ d.id \in index.scope[c].ids

AsksFor(x, c) == \E v \in c.values : v.text = Value(x.doc, c.field) /\ Alike(v.kind, x.coll, c.field)

LEMMA StockIsLive ==
  ASSUME NEW coll, NEW d
  PROVE  d \in Stock(db, coll) <=> In(coll, d) \in Live
<1>1. ASSUME d \in Stock(db, coll) PROVE In(coll, d) \in Live
  BY <1>1 DEF Stock, ToSet, In, Live
<1>2. ASSUME In(coll, d) \in Live PROVE d \in Stock(db, coll)
  <2>1. PICK c \in DOMAIN db : In(coll, d) \in {[coll |-> c, doc |-> db[c][k]] : k \in DOMAIN db[c]}
    BY <1>2 DEF Live
  <2>2. PICK k \in DOMAIN db[c] : In(coll, d) = [coll |-> c, doc |-> db[c][k]]
    BY <2>1
  <2>3. coll = c /\ d = db[c][k]
    BY <2>2 DEF In
  <2> QED
    BY <2>3 DEF Stock, ToSet
<1> QED
  BY <1>1, <1>2

LEMMA LiveIs ==
  ASSUME NEW x \in Live
  PROVE  x = In(x.coll, x.doc) /\ x.doc \in Stock(db, x.coll)
<1>1. x = In(x.coll, x.doc)
  BY DEF Live, In
<1> QED
  BY <1>1, StockIsLive

\* A clause that Mongo and Python both let through asks for the document; of an equality
\* it is the same for Mongo alone.
LEMMA ClauseIs ==
  ASSUME NEW coll, NEW d, NEW c, NEW x, x = In(coll, d)
  PROVE  /\ Matches(d, c) /\ (index.live => MongoClause(coll, d, c)) => c.op # "other" /\ AsksFor(x, c)
         /\ c.op # "other" /\ AsksFor(x, c) => Matches(d, c)
         /\ c.op = "eq" /\ AsksFor(x, c) /\ index.live => MongoClause(coll, d, c)
         /\ c.op = "eq" /\ MongoClause(coll, d, c) => Matches(d, c)
<1>1. x.coll = coll /\ x.doc = d
  BY DEF In
<1>2. ASSUME Matches(d, c), index.live => MongoClause(coll, d, c) PROVE c.op # "other" /\ AsksFor(x, c)
  BY <1>1, <1>2 DEF Matches, MongoClause, AsksFor, Alike, IdVariants
<1>3. ASSUME c.op # "other", AsksFor(x, c) PROVE Matches(d, c)
  BY <1>1, <1>3 DEF Matches, AsksFor
<1>4. ASSUME c.op = "eq", AsksFor(x, c), index.live PROVE MongoClause(coll, d, c)
  BY <1>1, <1>4 DEF MongoClause, AsksFor, Alike, IdVariants
<1>5. ASSUME c.op = "eq", MongoClause(coll, d, c) PROVE Matches(d, c)
  BY <1>5 DEF MongoClause, Matches
<1> QED
  BY <1>2, <1>3, <1>4, <1>5

\* What is found was there, in the part that may be read, with an id that was asked for.
LEMMA SuitingIs ==
  ASSUME Held, NEW coll, NEW ids, NEW clauses, NEW d \in Suiting(index, db, coll, ids, clauses), NEW x, x = In(coll, d)
  PROVE  /\ x \in Live /\ Open(x) /\ (ids # {} => d.id \in ids /\ ById(x))
         /\ \A c \in clauses : c.op # "other" /\ AsksFor(x, c)
<1>1. x.coll = coll /\ x.doc = d
  BY DEF In
<1>2. d \in Stock(db, coll) /\ Mongo(index, coll, d, ids, clauses) /\ Rechecked(d, clauses)
  BY DEF Suiting, Suits
<1>3. x \in Live
  BY <1>2, StockIsLive
<1>4. \A c \in clauses : c.op # "other" /\ AsksFor(x, c)
  BY <1>2, ClauseIs DEF Mongo, Rechecked
<1>5. CASE index.live
  <2>1. Allowed(index, coll, d) /\ (ids # {} => IdIn(coll, d, ids))
    BY <1>2, <1>5 DEF Mongo
  <2> QED
    BY <1>1, <1>3, <1>4, <2>1 DEF Allowed, IdIn, Open, InScope, ById, Alike, IdVariants
<1>6. CASE ~ index.live
  <2>1. coll \in DOMAIN db /\ d \in ToSet(db[coll])
    BY <1>2 DEF Stock
  <2>2. Open(x)
    BY <1>1, <1>6, <2>1 DEF Held, Open, InScope
  <2>3. ids # {} => d.id \in ids /\ ById(x)
    BY <1>2, <1>6 DEF Mongo, ById, Alike
  <2> QED
    BY <1>3, <1>4, <2>2, <2>3
<1> QED
  BY <1>5, <1>6

\* A document that can be found is, by equalities that ask for it.
LEMMA FindableSuits ==
  ASSUME NEW x \in Live, Findable(x), NEW ids, ids # {} => x.doc.id \in ids /\ ById(x),
         NEW clauses, \A c \in clauses : c.op = "eq" /\ AsksFor(x, c)
  PROVE  x.doc \in Suiting(index, db, x.coll, ids, clauses)
<1>1. x = In(x.coll, x.doc) /\ x.doc \in Stock(db, x.coll)
  BY LiveIs
<1>2. \A c \in clauses : Matches(x.doc, c) /\ (index.live => MongoClause(x.coll, x.doc, c))
  BY <1>1, ClauseIs
<1>3. index.live => Allowed(index, x.coll, x.doc) /\ (ids # {} => IdIn(x.coll, x.doc, ids))
  BY DEF Findable, InScope, Allowed, IdIn, ById, Alike, IdVariants
<1> QED
  BY <1>1, <1>2, <1>3 DEF Suiting, Suits, Mongo, Rechecked

\* Mongo is exact when it is asked for nothing but equalities.
LEMMA EqualitiesAreExact ==
  ASSUME NEW coll, NEW clauses, \A c \in clauses : c.op = "eq"
  PROVE  Exact(index, coll, clauses)
BY ClauseIs DEF Exact

LEMMA NodeOfIs ==
  ASSUME NEW i, IsList(i.nodes), NEW id \in NodeIds(i)
  PROVE  NodeOf(i, id) \in ToSet(i.nodes) /\ NodeOf(i, id)._id = id
<1>1. PICK n \in Nat : n = Len(i.nodes) /\ DOMAIN i.nodes = 1 .. n
  BY ListIs
<1>2. PICK I : I = {k \in 1 .. n : i.nodes[k]._id = id}
  OBVIOUS
<1>3. I \in SUBSET Nat /\ I # {}
  BY <1>1, <1>2 DEF NodeIds
<1>4. Min(I) \in I
  BY <1>3, MinIs
<1>5. SelectInSeq(i.nodes, LAMBDA m : m._id = id) = Min(I)
  BY <1>1, <1>2, <1>3 DEF SelectInSeq
<1>6. NodeOf(i, id) = i.nodes[Min(I)]
  BY <1>5 DEF NodeOf
<1> QED
  BY <1>1, <1>2, <1>4, <1>6 DEF ToSet

-----------------------------------------------------------------------------
(* What a lookup adds to a call.                                           *)

Asked(coll, ids, clauses, x) ==
  /\ x.coll = coll /\ (ids # {} => x.doc.id \in ids /\ ById(x))
  /\ \A c \in clauses : c.op # "other" /\ AsksFor(x, c)

\* References to documents that were asked for, each once; to all that can be found.
Looked(refs, coll, ids, clauses) ==
  /\ IsList(refs) /\ Distinct(refs)
  /\ \A r \in ToSet(refs) : \E x \in Live : RefOf(x) = r /\ Open(x) /\ Asked(coll, ids, clauses, x)
AllOf(refs, coll, ids, clauses) ==
  \A x \in Live : Findable(x) /\ Asked(coll, ids, clauses, x) => RefOf(x) \in ToSet(refs)

LEMMA LookedUp ==
  ASSUME Held, Shelved(db), NEW coll, NEW ids, NEW clauses, NEW limit \in Nat,
         NEW rows, rows = Rows(index, db, coll, ids, clauses, limit), NEW refs, refs = Payloads(coll, rows)
  PROVE  /\ Looked(refs, coll, ids, clauses) /\ IsList(rows) /\ Len(refs) = Len(rows)
         /\ \A d \in ToSet(rows) : LET x == In(coll, d) IN x \in Live /\ Open(x) /\ Asked(coll, ids, clauses, x)
         /\ (\A c \in clauses : c.op = "eq") /\ (limit = 0 \/ Len(refs) < limit) => AllOf(refs, coll, ids, clauses)
<1>1. PICK S : S = Suiting(index, db, coll, ids, clauses)
  OBVIOUS
<1>2. /\ IsList(rows) /\ IdsOnce(rows) /\ ToSet(rows) \subseteq S
      /\ Exact(index, coll, clauses) => (limit = 0 \/ Len(rows) < limit => ToSet(rows) = S)
  <2>1. Finds(rows, S, Exact(index, coll, clauses), limit)
    BY <1>1, RowsAre
  <2> QED
    BY <2>1 DEF Finds
<1>3. IsList(refs) /\ Len(refs) = Len(rows) /\ ToSet(refs) = {Ref(coll, d) : d \in ToSet(rows)} /\ Distinct(refs)
  BY <1>2, PayloadsAre
<1>4. ASSUME NEW d \in ToSet(rows)
      PROVE  LET x == In(coll, d) IN x \in Live /\ Open(x) /\ Asked(coll, ids, clauses, x) /\ RefOf(x) = Ref(coll, d)
  <2>1. PICK x : x = In(coll, d)
    OBVIOUS
  <2>2. x.coll = coll /\ x.doc = d /\ RefOf(x) = Ref(coll, d)
    BY <2>1 DEF In, RefOf
  <2>3. /\ x \in Live /\ Open(x) /\ (ids # {} => d.id \in ids /\ ById(x))
        /\ \A c \in clauses : c.op # "other" /\ AsksFor(x, c)
    BY <1>1, <1>2, <2>1, SuitingIs
  <2> QED
    BY <2>1, <2>2, <2>3 DEF Asked
<1>5. Looked(refs, coll, ids, clauses)
  BY <1>3, <1>4 DEF Looked
<1>6. ASSUME \A c \in clauses : c.op = "eq", limit = 0 \/ Len(refs) < limit PROVE AllOf(refs, coll, ids, clauses)
  <2>1. ToSet(rows) = S
    BY <1>2, <1>3, <1>6, EqualitiesAreExact
  <2>2. ASSUME NEW x \in Live, Findable(x), Asked(coll, ids, clauses, x) PROVE RefOf(x) \in ToSet(refs)
    <3>1. x.doc \in S
      BY <1>1, <1>6, <2>2, FindableSuits DEF Asked
    <3> QED
      BY <1>3, <2>1, <2>2, <3>1 DEF RefOf, Asked
  <2> QED
    BY <2>2 DEF AllOf
<1> QED
  BY <1>2, <1>3, <1>4, <1>5, <1>6

LEMMA LookedPart ==
  ASSUME NEW refs, NEW coll, NEW ids, NEW clauses, Looked(refs, coll, ids, clauses),
         NEW part, IsList(part), Distinct(part), ToSet(part) \subseteq ToSet(refs)
  PROVE  Looked(part, coll, ids, clauses)
BY DEF Looked

LEMMA OverlapIs ==
  ASSUME NEW words, IsFiniteSet(words), NEW texts
  PROVE  Overlap(words, texts) \in Nat
<1>1. words \cap texts \subseteq words
  OBVIOUS
<1>2. IsFiniteSet(words \cap texts)
  BY <1>1, FS_Subset
<1> QED
  BY <1>2, FS_CardinalityType DEF Overlap

LEMMA SortedSame ==
  ASSUME NEW s, IsList(s), NEW sc, sc \in [DOMAIN s -> Int], NEW t, t = Arranged(s, sc)
  PROVE  IsList(t) /\ Len(t) = Len(s) /\ ToSet(t) = ToSet(s) /\ (Distinct(s) => Distinct(t))
BY ArrangedSame

\* The documents of a card: some of them if it has any.
LEMMA DocsForIs ==
  ASSUME Held, Shelved(db), NEW node, IsList(node.ids), NEW words, IsFiniteSet(words), NEW cap \in Nat \ {0},
         NEW refs, refs = DocsFor(index, db, node, words, cap)
  PROVE  /\ Looked(refs, node.coll, ToSet(node.ids), {})
         /\ refs = <<>> => \A x \in Live : ~ (Findable(x) /\ Asked(node.coll, ToSet(node.ids), {}, x))
<1>1. PICK limit \in Nat : limit = IF index.live /\ node.ids = <<>> THEN Larger(cap, 20) ELSE 0
  BY DEF Larger
<1>2. PICK rows : rows = Rows(index, db, node.coll, ToSet(node.ids), {}, limit)
  OBVIOUS
<1>3. PICK all : all = Payloads(node.coll, rows)
  OBVIOUS
<1>4. /\ Looked(all, node.coll, ToSet(node.ids), {}) /\ IsList(rows) /\ Len(all) = Len(rows)
      /\ limit = 0 \/ Len(all) < limit => AllOf(all, node.coll, ToSet(node.ids), {})
  BY <1>2, <1>3, LookedUp
<1>5. IsList(rows) /\ IdsOnce(rows) /\ Distinct(rows)
  BY <1>2, RowsAre, OnceDistinct DEF Finds
<1>6. PICK byId : byId = SortedBy(rows, LAMBDA d : - FirstAt(TextOrder, d.id))
  OBVIOUS
<1>7. IsList(byId) /\ ToSet(byId) = ToSet(rows) /\ Distinct(byId) /\ Len(byId) = Len(rows)
  <2>1. PICK sc : sc = [k \in DOMAIN rows |-> - FirstAt(TextOrder, rows[k].id)]
    OBVIOUS
  <2>2. \A k \in DOMAIN rows : - FirstAt(TextOrder, rows[k].id) \in Int
    BY FirstAtIs, ListIs, ToolsAssumption
  <2>3. sc \in [DOMAIN rows -> Int]
    BY <2>1, <2>2
  <2>4. byId = Arranged(rows, sc)
    BY <1>6, <2>1 DEF SortedBy
  <2> QED
    BY ONLY <1>5, <2>3, <2>4, SortedSame
<1>8. PICK ranked : ranked = SortedBy(byId, LAMBDA d : Overlap(words, Text(d)))
  OBVIOUS
<1>9. IsList(ranked) /\ ToSet(ranked) = ToSet(rows) /\ Distinct(ranked) /\ Len(ranked) = Len(rows)
  <2>1. PICK sc : sc = [k \in DOMAIN byId |-> Overlap(words, Text(byId[k]))]
    OBVIOUS
  <2>2. sc \in [DOMAIN byId -> Int]
    BY <2>1, OverlapIs
  <2>3. ranked = Arranged(byId, sc)
    BY <1>8, <2>1 DEF SortedBy
  <2>4. IsList(ranked) /\ Len(ranked) = Len(byId) /\ ToSet(ranked) = ToSet(byId) /\ (Distinct(byId) => Distinct(ranked))
    BY ONLY <1>7, <2>2, <2>3, SortedSame
  <2> QED
    BY <1>7, <2>4
<1>10. PICK I : I = {k \in DOMAIN ranked : Overlap(words, Text(ranked[k])) > 0}
  OBVIOUS
<1>11. PICK matched : matched = Picked(ranked, I)
  OBVIOUS
<1>12. IsList(matched) /\ ToSet(matched) \subseteq ToSet(ranked) /\ Distinct(matched)
  BY <1>9, <1>10, <1>11, Kept
<1>13. PICK best : best = IF words = {} THEN rows ELSE IF matched # <<>> THEN matched ELSE ranked
  OBVIOUS
<1>14. IsList(best) /\ ToSet(best) \subseteq ToSet(rows) /\ Distinct(best) /\ (best = <<>> => rows = <<>>)
  BY <1>5, <1>9, <1>12, <1>13, NotEmpty
<1>15. PICK some : some = Upto(best, cap)
  OBVIOUS
<1>16. /\ IsList(some) /\ Distinct(some) /\ ToSet(some) \subseteq ToSet(best)
       /\ some = <<>> => best = <<>>
  <2>1. cap \in Nat /\ cap # 0
    OBVIOUS
  <2>2. IsList(some) /\ Distinct(some) /\ ToSet(some) \subseteq ToSet(best) /\ (Len(some) < cap => some = best)
    BY <1>14, <1>15, <2>1, SomeOf
  <2> QED
    BY <2>1, <2>2, EmptyIsList
<1>17. refs = Payloads(node.coll, some)
  BY <1>1, <1>2, <1>6, <1>8, <1>10, <1>11, <1>13, <1>15 DEF DocsFor, Filter
<1>18. IsList(refs) /\ Len(refs) = Len(some) /\ ToSet(refs) = {Ref(node.coll, d) : d \in ToSet(some)} /\ Distinct(refs)
  <2>1. IdsOnce(some)
    BY <1>5, <1>14, <1>16, OncePart
  <2> QED
    BY <1>16, <1>17, <2>1, PayloadsAre
<1>19. ToSet(all) = {Ref(node.coll, d) : d \in ToSet(rows)}
  BY <1>3, <1>5, PayloadsAre
<1>20. Looked(refs, node.coll, ToSet(node.ids), {})
  <2>1. ToSet(refs) \subseteq ToSet(all)
    BY <1>14, <1>16, <1>18, <1>19
  <2> QED
    BY <1>4, <1>18, <2>1, LookedPart
<1>21. ASSUME refs = <<>> PROVE \A x \in Live : ~ (Findable(x) /\ Asked(node.coll, ToSet(node.ids), {}, x))
  <2>1. some = <<>>
    BY <1>16, <1>18, <1>21, EmptyIsList, ListIs
  <2>2. rows = <<>>
    BY <1>14, <1>16, <2>1
  <2>3. Len(all) = 0 /\ ToSet(all) = {}
    BY <1>4, <1>19, <2>2, EmptyIsList DEF ToSet
  <2>4. limit = 0 \/ 0 < limit
    OBVIOUS
  <2> QED
    BY <1>4, <2>3, <2>4 DEF AllOf
<1> QED
  BY <1>20, <1>21

-----------------------------------------------------------------------------
(* One read of retrieve_evidence.                                          *)

\* Where related nodes may come from: documents that were read, or a small card that was.
Shown(o, refs, ids) ==
  /\ IsList(o.ids)
  /\ \/ \A k \in DOMAIN o.ids : [coll |-> o.coll, id |-> o.ids[k]] \in refs
     \/ \E id \in ids : id \in NodeIds(index) /\ o = NodeOf(index, id) /\ Len(o.ids) <= PrefetchLimit

Aims(id, x) == IF id[1] = "hop" THEN x.coll = id[2] ELSE x.coll \in index.collections

\* t is g with documents of T, and some of those the node stands for if any can be found.
Extends(call, id, g, t, T) ==
  /\ Grown(g.documents, t.documents, T, Cap(call))
  /\ t.missing = g.missing /\ t.hints = g.hints /\ t.raised = g.raised
  /\ \A r \in T : \E x \in Live : RefOf(x) = r /\ Open(x) /\ Aims(id, x)
  /\ (\E x \in Live : Findable(x) /\ StandsFor(id, call, x)) => \E x \in Live : StandsFor(id, call, x) /\ RefOf(x) \in T
  /\ \A o \in ToSet(t.origins) : o \in ToSet(g.origins) \/ Shown(o, ToSet(t.documents), {id})

Misses(call, id, g, t) ==
  /\ t = [g EXCEPT !.missing = Append(@, id)] /\ (id[1] = "hop" \/ id \notin NodeIds(index))
  /\ \A x \in Live : ~ (Findable(x) /\ StandsFor(id, call, x))

Outcome(call, id, g, t) ==
  \/ t.raised
  \/ t = [g EXCEPT !.hints = Append(@, id)]
  \/ Misses(call, id, g, t)
  \/ \E T : Extends(call, id, g, t, T)

Within(call, g) == call.limit \in Nat /\ IsGot(g) /\ Distinct(g.documents) /\ Len(g.documents) <= Cap(call)

\* What was found for a node.
Finding(call, id, refs) ==
  /\ IsList(refs) /\ Distinct(refs)
  /\ \A r \in ToSet(refs) : \E x \in Live : RefOf(x) = r /\ Open(x) /\ Aims(id, x)
  /\ (\E x \in Live : Findable(x) /\ StandsFor(id, call, x))
       => \E x \in Live : StandsFor(id, call, x) /\ RefOf(x) \in ToSet(refs)

LEMMA AddExtends ==
  ASSUME NEW call, NEW id, NEW g, Within(call, g), NEW refs, Finding(call, id, refs),
         NEW t, t = Add(g, refs, Cap(call))
  PROVE  Extends(call, id, g, t, ToSet(refs)) /\ IsGot(t) /\ t.origins = g.origins
<1>1. PICK cap \in Nat : cap = Cap(call)
  BY CapIsNatural DEF Within
<1>2. IsGot(t) /\ t = [g EXCEPT !.documents = t.documents] /\ Grown(g.documents, t.documents, ToSet(refs), cap)
  BY <1>1, AddIs DEF Within, Finding
<1>3. t.missing = g.missing /\ t.hints = g.hints /\ t.raised = g.raised /\ t.origins = g.origins
  BY <1>2 DEF IsGot, ReadFields, Within
<1> QED
  BY <1>1, <1>2, <1>3 DEF Extends, Finding

LEMMA ReadHopIs ==
  ASSUME Held, Shelved(db), NEW call, call.limit \in Nat, NEW id, id[1] = "hop",
         NEW g, IsGot(g), Distinct(g.documents), Len(g.documents) <= Cap(call),
         NEW t, t = ReadHop(index, db, g, id, Cap(call))
  PROVE  Outcome(call, id, g, t)
<1>1. PICK cap \in Nat : cap = Cap(call) /\ cap # 0
  BY CapIsNatural
<1>2. PICK clauses : clauses = Is(id[3], [text |-> id[4], kind |-> "string"])
  OBVIOUS
<1>3. PICK rows : rows = Rows(index, db, id[2], {}, clauses, cap)
  OBVIOUS
<1>4. PICK refs : refs = Payloads(id[2], rows)
  OBVIOUS
<1>5. t = IF rows = <<>> THEN [g EXCEPT !.missing = Append(g.missing, id)] ELSE Add(g, refs, Cap(call))
  BY <1>1, <1>2, <1>3, <1>4 DEF ReadHop
<1>6. \A c \in clauses : c.op = "eq"
  BY <1>2 DEF Is
<1>7. /\ Looked(refs, id[2], {}, clauses) /\ IsList(rows) /\ Len(refs) = Len(rows)
      /\ Len(refs) < cap => AllOf(refs, id[2], {}, clauses)
  BY <1>3, <1>4, <1>6, LookedUp
<1>8. \A x : Asked(id[2], {}, clauses, x) <=> x.coll = id[2] /\ Value(x.doc, id[3]) = id[4] /\ Alike("string", x.coll, id[3])
  <2>1. PICK v, c : v = [text |-> id[4], kind |-> "string"] /\ c = [field |-> id[3], op |-> "eq", values |-> {v}]
    OBVIOUS
  <2>2. clauses = {c}
    BY <1>2, <2>1 DEF Is
  <2>3. c.op # "other" /\ c.field = id[3] /\ c.values = {v} /\ v.text = id[4] /\ v.kind = "string"
    BY <2>1
  <2>4. \A x : AsksFor(x, c) <=> id[4] = Value(x.doc, id[3]) /\ Alike("string", x.coll, id[3])
    BY <2>3 DEF AsksFor
  <2> QED
    BY <2>2, <2>3, <2>4 DEF Asked
<1>9. \A x : StandsFor(id, call, x) <=> Len(id) = 4 /\ Asked(id[2], {}, clauses, x)
  BY <1>8 DEF StandsFor
<1>10. CASE rows = <<>>
  <2>1. refs = <<>> /\ ToSet(refs) = {}
    <3>1. IsList(refs) /\ Len(refs) = 0
      BY <1>7, <1>10, EmptyIsList DEF Looked
    <3> QED
      BY <3>1, ListIs DEF ToSet
  <2>2. Len(refs) < cap
    BY <1>1, <2>1, EmptyIsList
  <2>3. \A x \in Live : ~ (Findable(x) /\ StandsFor(id, call, x))
    BY <1>7, <1>9, <2>1, <2>2 DEF AllOf
  <2> QED
    BY <1>5, <1>10, <2>3 DEF Outcome, Misses
<1>11. CASE rows # <<>>
  <2>1. IsList(refs) /\ Distinct(refs) /\ ToSet(refs) # {}
    <3>1. IsList(refs) /\ Distinct(refs) /\ Len(refs) = Len(rows)
      BY <1>7 DEF Looked
    <3> QED
      BY <1>7, <1>11, <3>1, NotEmpty, EmptyIsList, ListIs
  <2>2. \A r \in ToSet(refs) : \E x \in Live : RefOf(x) = r /\ Open(x) /\ Aims(id, x) /\ Asked(id[2], {}, clauses, x)
    BY <1>7 DEF Looked, Asked, Aims
  <2>3. (\E x \in Live : Findable(x) /\ StandsFor(id, call, x))
          => \E x \in Live : StandsFor(id, call, x) /\ RefOf(x) \in ToSet(refs)
    BY <1>9, <2>1, <2>2
  <2>4. Extends(call, id, g, t, ToSet(refs))
    BY <1>5, <1>11, <2>1, <2>2, <2>3, AddExtends DEF Within, Finding
  <2> QED
    BY <2>4 DEF Outcome
<1> QED
  BY <1>10, <1>11

\* The members of a large card that are named: all of those that can be found.
LEMMA CollectNamedIs ==
  ASSUME Held, Shelved(db), Coherent(index), IsIndex(index), NEW call, call.limit \in Nat,
         NEW id \in NodeIds(index), id[1] # "hop", NEW node, node = NodeOf(index, id),
         NEW named, named = Named(node.ids, question \cup call.words), named # <<>>, Len(node.ids) > PrefetchLimit,
         NEW g, IsGot(g), Distinct(g.documents), Len(g.documents) <= Cap(call),
         NEW t, t = CollectNamed(index, db, g, node, named, Cap(call))
  PROVE  Outcome(call, id, g, t)
<1>1. PICK cap \in Nat : cap = Cap(call) /\ cap # 0
  BY CapIsNatural
<1>2. node.coll \in index.collections /\ IsList(node.ids)
  BY NodeOfIs DEF Coherent, IsIndex
<1>3. IsList(named) /\ ToSet(named) \subseteq ToSet(node.ids)
  <2>1. PICK I : I = {k \in DOMAIN node.ids : node.ids[k] \in (question \cup call.words) \cap NamedId}
    OBVIOUS
  <2>2. named = Picked(node.ids, I)
    BY <2>1 DEF Named, Filter
  <2>3. IsList(Picked(node.ids, I)) /\ ToSet(Picked(node.ids, I)) \subseteq ToSet(node.ids)
    <3>1. I \subseteq DOMAIN node.ids
      BY <2>1
    <3> QED
      BY ONLY <1>2, <3>1, Kept
  <2> QED
    BY <2>2, <2>3
<1>4. PICK ids : ids = ToSet(Upto(named, cap))
  OBVIOUS
<1>5. ids = NamedMembers(node, call) /\ ids # {} /\ ids \subseteq ToSet(node.ids)
  <2>1. IsList(Upto(named, cap)) /\ Len(Upto(named, cap)) = Smaller(cap, Len(named)) /\ ToSet(Upto(named, cap)) \subseteq ToSet(named)
    BY <1>3, UptoIs, UptoPart
  <2>2. Len(named) \in Nat \ {0}
    BY <1>3, NotEmpty
  <2>3. Len(Upto(named, cap)) # 0
    BY <1>1, <2>1, <2>2 DEF Smaller
  <2>4. Upto(named, cap) # <<>>
    BY <2>3, EmptyIsList
  <2> QED
    BY <1>1, <1>3, <1>4, <2>1, <2>4, NotEmpty DEF NamedMembers
<1>6. PICK rows : rows = Rows(index, db, node.coll, ids, {}, 0)
  OBVIOUS
<1>7. PICK refs : refs = Payloads(node.coll, rows)
  OBVIOUS
<1>8. Looked(refs, node.coll, ids, {}) /\ AllOf(refs, node.coll, ids, {})
  BY <1>6, <1>7, LookedUp
<1>9. PICK with : with = Add(g, refs, Cap(call))
  OBVIOUS
<1>10. \A x : StandsFor(id, call, x) <=> Asked(node.coll, ids, {}, x)
  <2>1. node.ids # <<>>
    BY <1>2, <1>5, NotEmpty
  <2>2. \A x : Contains(node.ids, x.doc.id) <=> x.doc.id \in ToSet(node.ids)
    BY <1>2, ContainsIs
  <2> QED
    BY <1>5, <2>1, <2>2 DEF StandsFor, Asked
<1>11. IsList(refs) /\ Distinct(refs)
  BY <1>8 DEF Looked
<1>12. \A r \in ToSet(refs) : \E x \in Live : RefOf(x) = r /\ Open(x) /\ Aims(id, x) /\ Asked(node.coll, ids, {}, x)
  BY <1>2, <1>8 DEF Looked, Aims, Asked
<1>13. (\E x \in Live : Findable(x) /\ StandsFor(id, call, x))
         => \E x \in Live : StandsFor(id, call, x) /\ RefOf(x) \in ToSet(refs)
  BY <1>8, <1>10 DEF AllOf
<1>14. Extends(call, id, g, with, ToSet(refs)) /\ IsGot(with) /\ with.origins = g.origins
  <2>1. Within(call, g)
    BY DEF Within
  <2>2. Finding(call, id, refs)
    BY <1>11, <1>12, <1>13 DEF Finding
  <2> QED
    BY ONLY <1>9, <2>1, <2>2, AddExtends
<1>15. PICK m \in Nat, n \in Nat : m = Len(g.documents) /\ n = Len(with.documents)
  BY <1>14, ListIs DEF IsGot
<1>16. PICK added : added = SubSeq(with.documents, m + 1, n)
  OBVIOUS
<1>17. PICK o : o = Origin(node.coll, [k \in DOMAIN added |-> added[k].id])
  OBVIOUS
<1>18. t = with \/ t = [with EXCEPT !.origins = Append(with.origins, o)]
  <2>1. with = Add(g, Payloads(node.coll, Rows(index, db, node.coll, ToSet(Upto(named, Cap(call))), {}, 0)), Cap(call))
    BY <1>1, <1>4, <1>6, <1>7, <1>9
  <2>2. added = SubSeq(with.documents, Len(g.documents) + 1, Len(with.documents))
    BY <1>15, <1>16
  <2>3. CollectNamed(index, db, g, node, named, Cap(call))
          = IF added = <<>> THEN with ELSE [with EXCEPT !.origins = Append(with.origins, o)]
    BY ONLY <2>1, <2>2, <1>17 DEF CollectNamed
  <2> QED
    BY <2>3
<1>19. Grown(g.documents, with.documents, ToSet(refs), cap) /\ \A k \in 1 .. m : with.documents[k] = g.documents[k]
  <2>1. \A k \in DOMAIN g.documents : with.documents[k] = g.documents[k]
    BY <1>1, <1>9, <1>11, AddIs
  <2>2. DOMAIN g.documents = 1 .. m
    BY <1>15, ListIs DEF IsGot
  <2> QED
    BY <1>1, <1>14, <2>1, <2>2 DEF Extends
<1>20. Shown(o, ToSet(with.documents), {id})
  <2>1. IsList(with.documents) /\ Distinct(with.documents) /\ DOMAIN with.documents = 1 .. n
    BY <1>14, <1>15, <1>19, ListIs DEF IsGot, Grown
  <2>2. m <= n
    <3>1. ASSUME n < m PROVE FALSE
      <4>1. n + 1 \in 1 .. m /\ DOMAIN g.documents = 1 .. m
        BY <1>15, <3>1, ListIs DEF IsGot
      <4>2. g.documents[n + 1] \in ToSet(with.documents)
        BY <1>19, <4>1 DEF Grown, ToSet
      <4>3. PICK k \in 1 .. n : with.documents[k] = g.documents[n + 1]
        BY <2>1, <4>2 DEF ToSet
      <4>4. g.documents[k] = g.documents[n + 1] /\ k \in DOMAIN g.documents /\ n + 1 \in DOMAIN g.documents
        BY <1>15, <1>19, <3>1, <4>1, <4>3
      <4>5. k = n + 1
        BY <4>4 DEF Distinct
      <4> QED
        BY <1>15, <4>5
    <3> QED
      BY <1>15, <3>1
  <2>3. /\ IsList(added) /\ DOMAIN added = 1 .. n - m
        /\ \A k \in 1 .. n - m : added[k] = with.documents[m + k] /\ m + k \in 1 .. n /\ m + k \notin 1 .. m
    <3>1. m + 1 \in 1 .. n + 1 /\ n \in 0 .. n /\ n = Len(with.documents)
      BY <1>15, <2>2
    <3>2. /\ IsList(added) /\ Len(added) = (IF m + 1 <= n THEN n - (m + 1) + 1 ELSE 0)
          /\ \A k \in 1 .. Len(added) : added[k] = with.documents[m + 1 + k - 1]
      BY <1>16, <2>1, <3>1, Sliced
    <3>3. Len(added) = n - m
      BY ONLY m \in Nat, n \in Nat, <2>2, <3>2
    <3>4. DOMAIN added = 1 .. n - m
      BY <3>2, <3>3, ListIs
    <3>5. ASSUME NEW k \in 1 .. n - m
          PROVE  added[k] = with.documents[m + k] /\ m + k \in 1 .. n /\ m + k \notin 1 .. m
      <4>1. m + 1 + k - 1 = m + k /\ m + k \in 1 .. n /\ m + k \notin 1 .. m
        BY ONLY m \in Nat, n \in Nat, <2>2, <3>5
      <4> QED
        BY <3>2, <3>3, <4>1
    <3> QED
      BY <3>2, <3>4, <3>5
  <2>4. ASSUME NEW k \in DOMAIN added
        PROVE  added[k] \in ToSet(with.documents) /\ added[k] = [coll |-> node.coll, id |-> added[k].id]
    <3>1. added[k] = with.documents[m + k] /\ m + k \in DOMAIN with.documents /\ m + k \notin 1 .. m
      BY <2>1, <2>3, <2>4
    <3>2. added[k] \in ToSet(with.documents)
      BY <3>1 DEF ToSet
    <3>3. added[k] \notin ToSet(g.documents)
      <4>1. ASSUME added[k] \in ToSet(g.documents) PROVE FALSE
        <5>1. PICK l \in 1 .. m : g.documents[l] = added[k]
          BY <1>15, <4>1, ListIs DEF ToSet, IsGot
        <5>2. with.documents[l] = with.documents[m + k] /\ l \in DOMAIN with.documents
          BY <1>15, <1>19, <2>1, <2>2, <3>1, <5>1
        <5>3. l = m + k
          BY <2>1, <3>1, <5>2 DEF Distinct
        <5> QED
          BY <3>1, <5>3
      <4> QED
        BY <4>1
    <3>4. added[k] \in ToSet(refs)
      BY <1>19, <3>2, <3>3 DEF Grown
    <3>5. PICK x \in Live : RefOf(x) = added[k] /\ x.coll = node.coll
      BY <1>12, <3>4 DEF Asked
    <3> QED
      BY <3>2, <3>5 DEF RefOf, Ref
  <2>5. PICK oids : oids = [k \in DOMAIN added |-> added[k].id]
    OBVIOUS
  <2>6. IsList(oids) /\ DOMAIN oids = DOMAIN added
    <3>1. DOMAIN oids = DOMAIN added /\ oids = [k \in DOMAIN added |-> oids[k]]
      BY <2>5
    <3> QED
      BY <2>3, <3>1, SortedList
  <2>7. o.coll = node.coll /\ o.ids = oids
    BY <1>17, <2>5 DEF Origin
  <2>8. \A k \in DOMAIN o.ids : [coll |-> o.coll, id |-> o.ids[k]] \in ToSet(with.documents)
    BY <2>4, <2>5, <2>6, <2>7
  <2> QED
    BY <2>6, <2>7, <2>8 DEF Shown
<1>21. CASE t = with
  BY <1>14, <1>21 DEF Outcome
<1>22. CASE t = [with EXCEPT !.origins = Append(with.origins, o)]
  <2>1. /\ t.documents = with.documents /\ t.missing = with.missing /\ t.hints = with.hints /\ t.raised = with.raised
        /\ t.origins = Append(with.origins, o)
    BY <1>14, <1>22 DEF IsGot, ReadFields
  <2>2. ToSet(t.origins) = ToSet(with.origins) \cup {o}
    BY <1>14, <2>1, AppendedSet DEF IsGot
  <2> QED
    BY <1>14, <1>20, <2>1, <2>2 DEF Extends, Outcome
<1> QED
  BY <1>18, <1>21, <1>22

\* A card that is small, or of which nothing is named and that is small: some of its members.
LEMMA ReadCardIs ==
  ASSUME Held, Shelved(db), Coherent(index), IsIndex(index), NEW call, call.limit \in Nat, IsFiniteSet(call.words),
         NEW id \in NodeIds(index), id[1] # "hop", NEW node, node = NodeOf(index, id), ~ (Len(node.ids) > PrefetchLimit),
         NEW g, IsGot(g), Distinct(g.documents), Len(g.documents) <= Cap(call),
         NEW t, t = Add([g EXCEPT !.origins = Append(@, node)], DocsFor(index, db, node, call.words, Cap(call)), Cap(call))
  PROVE  Outcome(call, id, g, t)
<1>1. PICK cap \in Nat \ {0} : cap = Cap(call)
  BY CapIsNatural
<1>2. node.coll \in index.collections /\ IsList(node.ids)
  BY NodeOfIs DEF Coherent, IsIndex
<1>3. PICK refs : refs = DocsFor(index, db, node, call.words, cap)
  OBVIOUS
<1>4. /\ Looked(refs, node.coll, ToSet(node.ids), {})
      /\ refs = <<>> => \A x \in Live : ~ (Findable(x) /\ Asked(node.coll, ToSet(node.ids), {}, x))
  BY <1>2, <1>3, DocsForIs
<1>5. PICK h : h = [g EXCEPT !.origins = Append(@, node)]
  OBVIOUS
<1>6. /\ IsGot(h) /\ h.documents = g.documents /\ h.missing = g.missing /\ h.hints = g.hints /\ h.raised = g.raised
      /\ h.origins = Append(g.origins, node)
  <2>1. IsList(Append(g.origins, node))
    BY Appended DEF IsGot
  <2> QED
    BY <1>5, <2>1 DEF IsGot, ReadFields
<1>7. \A x : StandsFor(id, call, x) <=> Asked(node.coll, ToSet(node.ids), {}, x)
  <2>1. node.ids # <<>> <=> ToSet(node.ids) # {}
    BY <1>2, NotEmpty
  <2>2. \A x : Contains(node.ids, x.doc.id) <=> x.doc.id \in ToSet(node.ids)
    BY <1>2, ContainsIs
  <2> QED
    BY <2>1, <2>2 DEF StandsFor, Asked
<1>8. IsList(refs) /\ Distinct(refs)
  BY <1>4 DEF Looked
<1>9. \A r \in ToSet(refs) : \E x \in Live : RefOf(x) = r /\ Open(x) /\ Aims(id, x) /\ StandsFor(id, call, x)
  BY <1>2, <1>4, <1>7 DEF Looked, Aims, Asked
<1>10. (\E x \in Live : Findable(x) /\ StandsFor(id, call, x))
         => \E x \in Live : StandsFor(id, call, x) /\ RefOf(x) \in ToSet(refs)
  <2>1. ASSUME NEW x \in Live, Findable(x), StandsFor(id, call, x) PROVE ToSet(refs) # {}
    BY <1>4, <1>7, <1>8, <2>1, NotEmpty
  <2> QED
    BY <1>9, <2>1
<1>11. t = Add(h, refs, Cap(call))
  BY <1>1, <1>3, <1>5
<1>12. Extends(call, id, h, t, ToSet(refs)) /\ IsGot(t) /\ t.origins = h.origins
  <2>1. Within(call, h)
    BY <1>6 DEF Within
  <2>2. Finding(call, id, refs)
    BY <1>8, <1>9, <1>10 DEF Finding
  <2> QED
    BY ONLY <2>1, <2>2, <1>11, AddExtends
<1>13. ToSet(t.origins) = ToSet(g.origins) \cup {node}
  <2>1. IsList(g.origins)
    BY DEF IsGot
  <2> QED
    BY ONLY <2>1, <1>6, <1>12, AppendedSet
<1>14. Shown(node, ToSet(t.documents), {id})
  <2>1. Len(node.ids) <= PrefetchLimit
    <3>1. Len(node.ids) \in Nat /\ PrefetchLimit \in Nat
      BY <1>2, ListIs, ToolsAssumption
    <3> QED
      BY <3>1
  <2> QED
    BY <1>2, <2>1 DEF Shown
<1>15. Extends(call, id, g, t, ToSet(refs))
  BY <1>6, <1>12, <1>13, <1>14 DEF Extends
<1> QED
  BY <1>15 DEF Outcome

LEMMA ReadNodeIs ==
  ASSUME Held, Shelved(db), Coherent(index), IsIndex(index), NEW call, call.limit \in Nat, IsFiniteSet(call.words),
         NEW id, NEW g, IsGot(g), Distinct(g.documents), Len(g.documents) <= Cap(call),
         NEW t, t = ReadNode(index, db, question, call.words, Cap(call), g, id)
  PROVE  Outcome(call, id, g, t)
<1>1. PICK node, named : node = NodeOf(index, id) /\ named = Named(node.ids, question \cup call.words)
  OBVIOUS
<1>2. CASE id = <<"hop">>
  <2>1. t = [g EXCEPT !.raised = TRUE]
    BY <1>2 DEF ReadNode
  <2> QED
    BY <2>1 DEF IsGot, ReadFields, Outcome
<1>3. CASE id # <<"hop">> /\ id[1] = "hop"
  <2>1. t = ReadHop(index, db, g, id, Cap(call))
    BY <1>3 DEF ReadNode
  <2> QED
    BY <1>3, <2>1, ReadHopIs
<1>4. CASE id # <<"hop">> /\ id[1] # "hop" /\ id \notin NodeIds(index)
  <2>1. t = [g EXCEPT !.missing = Append(@, id)]
    BY <1>4 DEF ReadNode
  <2>2. \A x : ~ StandsFor(id, call, x)
    BY <1>4 DEF StandsFor
  <2> QED
    BY <1>4, <2>1, <2>2 DEF Outcome, Misses
<1>5. CASE id # <<"hop">> /\ id[1] # "hop" /\ id \in NodeIds(index) /\ Len(node.ids) > PrefetchLimit /\ named # <<>>
  <2>1. t = CollectNamed(index, db, g, node, named, Cap(call))
    BY <1>1, <1>5 DEF ReadNode
  <2> QED
    BY <1>1, <1>5, <2>1, CollectNamedIs
<1>6. CASE id # <<"hop">> /\ id[1] # "hop" /\ id \in NodeIds(index) /\ Len(node.ids) > PrefetchLimit /\ named = <<>>
  <2>1. t = [g EXCEPT !.hints = Append(@, id)]
    BY <1>1, <1>6 DEF ReadNode
  <2> QED
    BY <2>1 DEF Outcome
<1>7. CASE id # <<"hop">> /\ id[1] # "hop" /\ id \in NodeIds(index) /\ ~ (Len(node.ids) > PrefetchLimit)
  <2>1. t = Add([g EXCEPT !.origins = Append(@, node)], DocsFor(index, db, node, call.words, Cap(call)), Cap(call))
    BY <1>1, <1>7 DEF ReadNode
  <2> QED
    BY <1>1, <1>7, <2>1, ReadCardIs
<1> QED
  BY <1>2, <1>3, <1>4, <1>5, <1>6, <1>7

-----------------------------------------------------------------------------
(* Documents by collection, and the documents that are named.              *)

\* An origin of documents: some, all of them among these.
Gathers(o, refs) ==
  /\ IsList(o.ids) /\ o.ids # <<>>
  /\ \A k \in DOMAIN o.ids : \E r \in refs : r.coll = o.coll /\ r.id = o.ids[k]

LEMMA OriginsForIs ==
  ASSUME NEW docs, IsList(docs)
  PROVE  /\ IsList(OriginsFor(docs)) /\ \A o \in ToSet(OriginsFor(docs)) : Gathers(o, ToSet(docs))
         /\ \A r \in ToSet(docs) : \E o \in ToSet(OriginsFor(docs)) : o.coll = r.coll /\ r.id \in ToSet(o.ids)
<1>1. PICK cs : cs = [k \in DOMAIN docs |-> docs[k].coll]
  OBVIOUS
<1>2. IsList(cs) /\ DOMAIN cs = DOMAIN docs
  <2>1. DOMAIN cs = DOMAIN docs /\ cs = [k \in DOMAIN docs |-> cs[k]]
    BY <1>1
  <2> QED
    BY <2>1, SortedList
<1>3. PICK colls : colls = Unique(cs)
  OBVIOUS
<1>4. IsList(colls) /\ ToSet(colls) = {docs[k].coll : k \in DOMAIN docs}
  <2>1. ToSet(cs) = {docs[k].coll : k \in DOMAIN docs}
    BY <1>1 DEF ToSet
  <2> QED
    BY <1>2, <1>3, <2>1, UniqueIs
<1>5. PICK t : t = OriginsFor(docs)
  OBVIOUS
<1>6. DEFINE part(c) == Picked(docs, {k \in DOMAIN docs : docs[k].coll = c})
<1>7. t = [k \in DOMAIN colls |-> Origin(colls[k], [j \in DOMAIN part(colls[k]) |-> part(colls[k])[j].id])]
  BY <1>1, <1>3, <1>5 DEF OriginsFor, Filter
<1>8. \A c : IsList(part(c)) /\ ToSet(part(c)) = {docs[k] : k \in {j \in DOMAIN docs : docs[j].coll = c}}
  <2>1. ASSUME NEW c PROVE IsList(part(c)) /\ ToSet(part(c)) = {docs[k] : k \in {j \in DOMAIN docs : docs[j].coll = c}}
    <3>1. PICK I : I = {j \in DOMAIN docs : docs[j].coll = c}
      OBVIOUS
    <3>2. I \subseteq DOMAIN docs
      BY <3>1
    <3>3. IsList(Picked(docs, I)) /\ ToSet(Picked(docs, I)) = {docs[k] : k \in I}
      BY <3>2, Kept
    <3> QED
      BY <3>1, <3>3
  <2> QED
    BY <2>1
<1>9. ASSUME NEW k \in DOMAIN colls
      PROVE  /\ t[k].coll = colls[k] /\ IsList(t[k].ids) /\ DOMAIN t[k].ids = DOMAIN part(colls[k])
             /\ \A j \in DOMAIN part(colls[k]) : t[k].ids[j] = part(colls[k])[j].id
  <2>1. PICK p : p = part(colls[k])
    OBVIOUS
  <2>2. PICK ids : ids = [j \in DOMAIN p |-> p[j].id]
    OBVIOUS
  <2>3. IsList(p)
    BY <1>8, <2>1
  <2>4. IsList(ids) /\ DOMAIN ids = DOMAIN p
    <3>1. DOMAIN ids = DOMAIN p /\ ids = [j \in DOMAIN p |-> ids[j]]
      BY <2>2
    <3> QED
      BY <2>3, <3>1, SortedList
  <2>5. t[k] = Origin(colls[k], ids)
    BY <1>7, <2>1, <2>2
  <2>6. t[k].coll = colls[k] /\ t[k].ids = ids
    BY <2>5 DEF Origin
  <2> QED
    BY <2>1, <2>2, <2>4, <2>6
<1>10. DOMAIN t = DOMAIN colls
  BY <1>7
<1>11. IsList(t)
  BY <1>5, OriginsForList
<1>12. ASSUME NEW o \in ToSet(t) PROVE Gathers(o, ToSet(docs))
  <2>1. PICK k \in DOMAIN colls : o = t[k]
    BY <1>10 DEF ToSet
  <2>2. PICK c, p : c = colls[k] /\ p = part(colls[k])
    OBVIOUS
  <2>3. IsList(p) /\ ToSet(p) = {docs[j] : j \in {l \in DOMAIN docs : docs[l].coll = c}}
    BY <1>8, <2>2
  <2>4. o.coll = c /\ IsList(o.ids) /\ DOMAIN o.ids = DOMAIN p /\ \A j \in DOMAIN p : o.ids[j] = p[j].id
    BY <1>9, <2>1, <2>2
  <2>5. PICK m \in DOMAIN docs : docs[m].coll = c
    <3>1. c \in ToSet(colls)
      BY <2>2 DEF ToSet
    <3> QED
      BY <1>4, <3>1
  <2>6. ToSet(p) # {}
    BY <2>3, <2>5
  <2>7. 1 \in DOMAIN p
    BY <2>3, <2>6, NotEmpty
  <2>8. o.ids # <<>>
    BY <2>4, <2>7, EmptyIsList
  <2>9. ASSUME NEW j \in DOMAIN o.ids PROVE \E r \in ToSet(docs) : r.coll = o.coll /\ r.id = o.ids[j]
    <3>1. p[j] \in ToSet(p)
      BY <2>4 DEF ToSet
    <3>2. PICK l \in DOMAIN docs : p[j] = docs[l] /\ docs[l].coll = c
      BY <2>3, <3>1
    <3> QED
      BY <2>4, <3>2 DEF ToSet
  <2> QED
    BY <2>4, <2>8, <2>9 DEF Gathers
<1>13. ASSUME NEW r \in ToSet(docs) PROVE \E o \in ToSet(t) : o.coll = r.coll /\ r.id \in ToSet(o.ids)
  <2>1. PICK l \in DOMAIN docs : r = docs[l]
    BY DEF ToSet
  <2>2. r.coll \in ToSet(colls)
    BY <1>4, <2>1
  <2>3. PICK k \in DOMAIN colls : colls[k] = r.coll
    BY <2>2 DEF ToSet
  <2>4. r \in ToSet(part(colls[k]))
    BY <1>8, <2>1, <2>3
  <2>5. PICK j \in DOMAIN part(colls[k]) : part(colls[k])[j] = r
    BY <2>4 DEF ToSet
  <2>6. t[k].coll = r.coll /\ j \in DOMAIN t[k].ids /\ t[k].ids[j] = r.id
    BY <1>9, <2>3, <2>5
  <2> QED
    BY <1>10, <2>6 DEF ToSet
<1> QED
  BY <1>5, <1>11, <1>12, <1>13

\* What the question and the query name of the ids that the nodes list, and how much of
\* it is read.
NamedIn(call) ==
  UNION {{[coll |-> n.coll, id |-> i] : i \in ToSet(n.ids) \cap ((question \cup call.words) \cap NamedId)} :
         n \in ToSet(index.nodes)}
PicksOf(i, words, limit) ==
  Upto(Unique(FlattenSeq([k \in DOMAIN i.nodes |->
    LET ids == Named(i.nodes[k].ids, words)
    IN  [j \in DOMAIN ids |-> [coll |-> i.nodes[k].coll, id |-> ids[j]]]])), limit)
Picks(call) == PicksOf(index, question \cup call.words, Cap(call))

LEMMA NamedReadsIs ==
  ASSUME IsIndex(index), Coherent(index), NEW call, call.limit \in Nat, NEW picks, picks = Picks(call)
  PROVE  /\ NamedReads(index, question \cup call.words, Cap(call)) = OriginsFor(picks)
         /\ IsList(picks) /\ ToSet(picks) \subseteq NamedIn(call)
         /\ Cardinality(NamedIn(call)) > Cap(call) \/ (ToSet(picks) = NamedIn(call) /\ IsFiniteSet(NamedIn(call)))
<1>1. PICK cap \in Nat : cap = Cap(call) /\ cap # 0
  BY CapIsNatural
<1>2. PICK W : W = (question \cup call.words) \cap NamedId
  OBVIOUS
<1>3. DEFINE ids(k) == Named(index.nodes[k].ids, question \cup call.words)
             of(k) == [j \in DOMAIN ids(k) |-> [coll |-> index.nodes[k].coll, id |-> ids(k)[j]]]
<1>4. PICK seqs : seqs = [k \in DOMAIN index.nodes |-> of(k)]
  OBVIOUS
<1>5. ASSUME NEW k \in DOMAIN index.nodes
      PROVE  IsList(of(k)) /\ ToSet(of(k)) = {[coll |-> index.nodes[k].coll, id |-> i] : i \in ToSet(index.nodes[k].ids) \cap W}
  <2>1. PICK s : s = index.nodes[k].ids
    OBVIOUS
  <2>2. IsList(s)
    BY <2>1 DEF Coherent, ToSet
  <2>3. PICK I : I = {j \in DOMAIN s : s[j] \in W}
    OBVIOUS
  <2>4. PICK u : u = Picked(s, I)
    OBVIOUS
  <2>5. IsList(u) /\ ToSet(u) = {s[j] : j \in I}
    <3>1. I \subseteq DOMAIN s
      BY <2>3
    <3> QED
      BY <2>2, <2>4, <3>1, Kept
  <2>6. ids(k) = u
    BY <1>2, <2>1, <2>3, <2>4 DEF Named, Filter
  <2>7. ToSet(u) = ToSet(s) \cap W
    BY <2>3, <2>5 DEF ToSet
  <2>8. PICK v : v = of(k)
    OBVIOUS
  <2>9. DOMAIN v = DOMAIN u /\ v = [j \in DOMAIN u |-> v[j]] /\ \A j \in DOMAIN u : v[j] = [coll |-> index.nodes[k].coll, id |-> u[j]]
    BY <2>6, <2>8
  <2>10. IsList(v)
    BY <2>5, <2>9, SortedList
  <2>11. ToSet(v) = {[coll |-> index.nodes[k].coll, id |-> i] : i \in ToSet(u)}
    BY <2>9 DEF ToSet
  <2> QED
    BY <2>1, <2>7, <2>8, <2>10, <2>11
<1>6. IsList(seqs) /\ DOMAIN seqs = DOMAIN index.nodes /\ \A k \in DOMAIN seqs : IsList(seqs[k])
  <2>1. DOMAIN seqs = DOMAIN index.nodes /\ seqs = [k \in DOMAIN index.nodes |-> seqs[k]]
    BY <1>4
  <2>2. IsList(seqs)
    BY <2>1, SortedList DEF IsIndex
  <2> QED
    BY <1>4, <1>5, <2>1, <2>2
<1>7. PICK flat : flat = FlattenSeq(seqs)
  OBVIOUS
<1>8. IsList(flat) /\ ToSet(flat) = NamedIn(call)
  <2>1. IsList(flat) /\ ToSet(flat) = Elements(seqs, DOMAIN seqs)
    BY <1>6, <1>7, FlattenedIs
  <2>2. \A k \in DOMAIN index.nodes : seqs[k] = of(k)
    BY <1>4
  <2>3. NamedIn(call) = UNION {{[coll |-> n.coll, id |-> i] : i \in ToSet(n.ids) \cap W} : n \in ToSet(index.nodes)}
    BY <1>2 DEF NamedIn
  <2>4. ASSUME NEW r PROVE r \in Elements(seqs, DOMAIN seqs) <=> r \in NamedIn(call)
    <3>1. r \in Elements(seqs, DOMAIN seqs) <=> \E k \in DOMAIN index.nodes : r \in ToSet(of(k))
      <4>1. r \in Elements(seqs, DOMAIN seqs) <=> \E k \in DOMAIN seqs : r \in ToSet(seqs[k])
        BY ONLY DEF Elements
      <4> HIDE DEF of
      <4> QED
        BY <1>6, <2>2, <4>1
    <3>2. \A k \in DOMAIN index.nodes :
            r \in ToSet(of(k)) <=> r \in {[coll |-> index.nodes[k].coll, id |-> i] : i \in ToSet(index.nodes[k].ids) \cap W}
      BY <1>5
    <3>3. r \in NamedIn(call) <=> \E k \in DOMAIN index.nodes :
            r \in {[coll |-> index.nodes[k].coll, id |-> i] : i \in ToSet(index.nodes[k].ids) \cap W}
      BY <2>3 DEF ToSet
    <3> QED
      BY <3>1, <3>2, <3>3
  <2> QED
    BY <2>1, <2>4
<1>9. PICK u : u = Unique(flat)
  OBVIOUS
<1>10. IsList(u) /\ ToSet(u) = NamedIn(call) /\ Distinct(u)
  BY <1>8, <1>9, UniqueIs DEF Distinct
<1>11. picks = Upto(u, cap)
  BY <1>1, <1>4, <1>7, <1>9 DEF Picks, PicksOf
<1>12. IsList(picks) /\ ToSet(picks) \subseteq ToSet(u) /\ (Len(u) <= cap => picks = u)
  <2>1. IsList(picks) /\ Len(picks) = Smaller(cap, Len(u)) /\ ToSet(picks) \subseteq ToSet(u) /\ \A k \in 1 .. Len(picks) : picks[k] = u[k]
    BY <1>1, <1>10, <1>11, UptoIs, UptoPart
  <2>2. ASSUME Len(u) <= cap PROVE picks = u
    <3>1. Len(picks) = Len(u)
      BY <1>1, <1>10, <2>1, <2>2, ListIs DEF Smaller
    <3> QED
      BY <1>10, <2>1, <3>1, SameLists
  <2> QED
    BY <2>1, <2>2
<1>13. IsFiniteSet(NamedIn(call)) /\ Cardinality(NamedIn(call)) = Len(u) /\ Len(u) \in Nat
  BY <1>10, DistinctCount, ListIs
<1>14. NamedReads(index, question \cup call.words, Cap(call)) = OriginsFor(picks)
  BY DEF NamedReads, Picks, PicksOf
<1> QED
  BY <1>1, <1>10, <1>12, <1>13, <1>14

-----------------------------------------------------------------------------
(* Where hits and related nodes come from.                                 *)

LEMMA InFocusPart ==
  ASSUME NEW members, IsList(members), NEW words, IsFiniteSet(words)
  PROVE  ToSet(InFocus(members, words)) \subseteq ToSet(members)
<1>1. PICK ranked : ranked = SortedBy(members, LAMBDA x : Overlap(words, Text(x)))
  OBVIOUS
<1>2. IsList(ranked) /\ ToSet(ranked) = ToSet(members)
  <2>1. PICK sc : sc = [k \in DOMAIN members |-> Overlap(words, Text(members[k]))]
    OBVIOUS
  <2>2. sc \in [DOMAIN members -> Int]
    BY <2>1, OverlapIs
  <2>3. ranked = Arranged(members, sc)
    BY <1>1, <2>1 DEF SortedBy
  <2> QED
    BY ONLY <2>2, <2>3, IsList(members), SortedSame
<1>3. PICK I : I = {k \in DOMAIN ranked : Overlap(words, Text(ranked[k])) > 0}
  OBVIOUS
<1>4. PICK focused : focused = Picked(ranked, I)
  OBVIOUS
<1>5. IsList(focused) /\ ToSet(focused) \subseteq ToSet(ranked)
  <2>1. I \subseteq DOMAIN ranked
    BY <1>3
  <2> QED
    BY <1>2, <1>4, <2>1, Kept
<1>6. PICK chosen : chosen = IF focused # <<>> THEN focused ELSE ranked
  OBVIOUS
<1>7. InFocus(members, words) = IF words = {} THEN Upto(members, 3) ELSE Upto(chosen, 2)
  BY <1>1, <1>3, <1>4, <1>6 DEF InFocus, Filter
<1>8. ToSet(Upto(members, 3)) \subseteq ToSet(members) /\ ToSet(Upto(chosen, 2)) \subseteq ToSet(chosen)
  BY <1>2, <1>5, <1>6, UptoPart
<1> QED
  BY <1>2, <1>5, <1>6, <1>7, <1>8

\* A hop binds a plan to a member of an origin.
Binds(i, d, origins, h) ==
  \E o \in ToSet(origins) : \E p \in ToSet(i.plans) : \E m \in ToSet(Members(i, d, o)) :
    p.coll = o.coll /\ h = HopNode(i, d, p, m)

LEMMA PlanHopsFrom ==
  ASSUME NEW i, NEW d, IsDatabase(d), NEW p, NEW o, NEW words, IsFiniteSet(words), NEW h \in ToSet(PlanHops(i, d, p, o, words))
  PROVE  \E m \in ToSet(Members(i, d, o)) : h = HopNode(i, d, p, m)
<1>1. PICK ms : ms = InFocus(Members(i, d, o), words)
  OBVIOUS
<1>2. IsList(ms) /\ ToSet(ms) \subseteq ToSet(Members(i, d, o))
  BY <1>1, MembersList, InFocusList, InFocusPart
<1>3. PICK I : I = {k \in DOMAIN ms : Value(ms[k], p.field) # NoValue}
  OBVIOUS
<1>4. PICK keyed : keyed = Picked(ms, I)
  OBVIOUS
<1>5. ToSet(keyed) \subseteq ToSet(ms)
  <2>1. I \subseteq DOMAIN ms
    BY <1>3
  <2> QED
    BY <1>2, <1>4, <2>1, Kept
<1>6. PICK t : t = [k \in DOMAIN keyed |-> HopNode(i, d, p, keyed[k])]
  OBVIOUS
<1>7. PlanHops(i, d, p, o, words) = t
  BY <1>1, <1>3, <1>4, <1>6 DEF PlanHops, HopsOf, Keyed, Filter
<1>8. PICK k \in DOMAIN keyed : h = HopNode(i, d, p, keyed[k])
  BY <1>6, <1>7 DEF ToSet
<1> QED
  BY <1>2, <1>5, <1>8 DEF ToSet

LEMMA HopsFromPlans ==
  ASSUME NEW i, IsIndex(i), NEW d, IsDatabase(d), NEW o, NEW words, NEW h \in ToSet(HopsFrom(i, d, o, words))
  PROVE  \E p \in ToSet(i.plans) : p.coll = o.coll /\ h \in ToSet(PlanHops(i, d, p, o, words))
<1>1. PICK I : I = {k \in DOMAIN i.plans : i.plans[k].coll = o.coll}
  OBVIOUS
<1>2. PICK plans : plans = Picked(i.plans, I)
  OBVIOUS
<1>3. IsList(plans) /\ ToSet(plans) = {i.plans[k] : k \in I}
  <2>1. I \subseteq DOMAIN i.plans
    BY <1>1
  <2> QED
    BY <1>2, <2>1, Kept DEF IsIndex
<1>4. PICK seqs : seqs = [k \in DOMAIN plans |-> PlanHops(i, d, plans[k], o, words)]
  OBVIOUS
<1>5. DOMAIN seqs = DOMAIN plans /\ seqs = [k \in DOMAIN plans |-> seqs[k]]
  BY <1>4
<1>6. IsList(seqs) /\ \A k \in DOMAIN seqs : IsList(seqs[k])
  BY <1>3, <1>4, <1>5, SortedList, PlanHopsList
<1>7. HopsFrom(i, d, o, words) = FlattenSeq(seqs)
  BY <1>1, <1>2, <1>4 DEF HopsFrom, PlansOf, Filter
<1>8. ToSet(FlattenSeq(seqs)) = Elements(seqs, DOMAIN seqs)
  BY <1>6, FlattenedIs
<1>9. PICK k \in DOMAIN seqs : h \in ToSet(seqs[k])
  BY <1>7, <1>8 DEF Elements
<1>10. plans[k] \in ToSet(plans)
  BY <1>5, <1>9 DEF ToSet
<1>11. PICK l \in I : plans[k] = i.plans[l]
  BY <1>3, <1>10
<1> QED
  BY <1>1, <1>4, <1>5, <1>9, <1>11 DEF ToSet

LEMMA RelatedIs ==
  ASSUME NEW i, IsIndex(i), NEW d, IsDatabase(d), NEW origins, IsList(origins), NEW words, IsFiniteSet(words),
         NEW h \in ToSet(Related(i, d, origins, words))
  PROVE  Binds(i, d, origins, h)
<1>1. PICK all : all = AllHops(i, d, origins, words)
  OBVIOUS
<1>2. IsList(all)
  BY <1>1, AllHopsList
<1>3. PICK I : I = {k \in DOMAIN all : \A j \in 1 .. k - 1 : all[j]._id # all[k]._id}
  OBVIOUS
<1>4. IsList(Picked(all, I)) /\ ToSet(Picked(all, I)) \subseteq ToSet(all)
  <2>1. I \subseteq DOMAIN all
    BY <1>3
  <2> QED
    BY <1>2, <2>1, Kept
<1>5. all = FlattenSeq([k \in DOMAIN origins |-> HopsFrom(i, d, origins[k], words)])
  BY <1>1 DEF AllHops
<1>6. Related(i, d, origins, words) = Upto(Picked(all, I), 6)
  BY <1>3, <1>5 DEF Related, FirstOf, HopsFrom, PlansOf, PlanHops, HopsOf, Keyed
<1>7. h \in ToSet(all)
  <2>1. ToSet(Upto(Picked(all, I), 6)) \subseteq ToSet(Picked(all, I))
    BY <1>4, UptoPart
  <2> QED
    BY <1>4, <1>6, <2>1
<1>8. PICK seqs : seqs = [k \in DOMAIN origins |-> HopsFrom(i, d, origins[k], words)]
  OBVIOUS
<1>9. DOMAIN seqs = DOMAIN origins /\ seqs = [k \in DOMAIN origins |-> seqs[k]]
  BY <1>8
<1>10. IsList(seqs) /\ \A k \in DOMAIN seqs : IsList(seqs[k])
  BY <1>8, <1>9, SortedList, HopsFromList
<1>11. ToSet(all) = Elements(seqs, DOMAIN seqs)
  BY <1>5, <1>8, <1>10, FlattenedIs
<1>12. PICK k \in DOMAIN origins : h \in ToSet(HopsFrom(i, d, origins[k], words))
  BY <1>7, <1>8, <1>9, <1>11 DEF Elements
<1>13. PICK p \in ToSet(i.plans) : p.coll = origins[k].coll /\ h \in ToSet(PlanHops(i, d, p, origins[k], words))
  BY <1>12, HopsFromPlans
<1>14. PICK m \in ToSet(Members(i, d, origins[k])) : h = HopNode(i, d, p, m)
  BY <1>13, PlanHopsFrom
<1>15. origins[k] \in ToSet(origins)
  BY DEF ToSet
<1> QED
  BY <1>13, <1>14, <1>15 DEF Binds

LEMMA SearchHitsPart ==
  ASSUME NEW i, IsIndex(i), NEW call, call.limit \in Nat, IsFiniteSet(call.words), IsList(call.near)
  PROVE  ToSet(SearchHits(i, call)) \subseteq ToSet(i.nodes)
<1>1. PICK pool : pool = Scoped(i, call.scope)
  OBVIOUS
<1>2. IsList(pool) /\ ToSet(pool) \subseteq ToSet(i.nodes)
  <2>1. PICK I : I = {k \in DOMAIN i.nodes : i.nodes[k].coll = NodeOf(i, call.scope).coll}
    OBVIOUS
  <2>2. I \subseteq DOMAIN i.nodes
    BY <2>1
  <2>3. IsList(Picked(i.nodes, I)) /\ ToSet(Picked(i.nodes, I)) \subseteq ToSet(i.nodes)
    BY <2>2, Kept DEF IsIndex
  <2>4. pool = i.nodes \/ pool = Picked(i.nodes, I)
    BY <1>1, <2>1 DEF Scoped, Filter
  <2> QED
    BY <2>3, <2>4 DEF IsIndex
<1>3. PICK lexical : lexical = SortedBy(pool, LAMBDA n : Overlap(call.words, n.words \cup ToSet(n.ids)))
  OBVIOUS
<1>4. IsList(lexical)
  BY <1>2, <1>3, SortedList DEF SortedBy, Arranged
<1>5. DEFINE hit(x) == Picked(pool, {k \in DOMAIN pool : pool[k]._id = x})
<1>6. \A x : IsList(hit(x))
  BY <1>2, Kept
<1>7. PICK hits : hits = [k \in DOMAIN call.near |-> hit(call.near[k])]
  OBVIOUS
<1>8. IsList(hits) /\ \A k \in DOMAIN hits : IsList(hits[k])
  <2>1. DOMAIN hits = DOMAIN call.near /\ hits = [k \in DOMAIN call.near |-> hits[k]]
    BY <1>7
  <2>2. \A k \in DOMAIN hits : IsList(hits[k])
    <3> HIDE DEF hit
    <3> QED
      BY <1>6, <1>7
  <2> QED
    BY <2>1, <2>2, SortedList
<1>9. PICK J : J = {k \in DOMAIN hits : hits[k] # <<>>}
  OBVIOUS
<1>10. PICK semantic : semantic = Picked(hits, J)
  OBVIOUS
<1>11. IsList(semantic) /\ \A k \in DOMAIN semantic : IsList(semantic[k])
  <2>1. J \subseteq DOMAIN hits
    BY <1>9
  <2>2. IsList(semantic) /\ ToSet(semantic) \subseteq ToSet(hits)
    BY <1>8, <1>10, <2>1, Kept
  <2> QED
    BY <1>8, <2>2 DEF ToSet
<1>12. IsList(FlattenSeq(semantic))
  BY <1>11, FlattenedIs
<1>13. PICK both : both = <<lexical, FlattenSeq(semantic)>>
  OBVIOUS
<1>14. Rankings(both)
  <2>1. DOMAIN both = 1 .. 2 /\ Len(both) = 2 /\ both[1] = lexical /\ both[2] = FlattenSeq(semantic)
    BY <1>13
  <2>2. IsList(both) /\ both # <<>>
    BY <1>13, EmptyIsList DEF IsList
  <2> QED
    BY <1>4, <1>12, <2>1, <2>2 DEF Rankings
<1>15. PICK sc : sc = [k \in DOMAIN pool |-> FusedScore(both, 60, pool[k])]
  OBVIOUS
<1>16. sc \in [DOMAIN pool -> Int]
  BY <1>14, <1>15, FusedNat
<1>17. PICK ranked : ranked = Arranged(pool, sc)
  OBVIOUS
<1>18. IsList(ranked) /\ ToSet(ranked) = ToSet(pool)
  BY ONLY <1>2, <1>16, <1>17, SortedSame
<1>19. Rank(pool, call.words, call.near) = ranked
  BY <1>3, <1>7, <1>9, <1>10, <1>13, <1>15, <1>17 DEF Rank, SortedBy, Filter
<1>20. SearchHits(i, call) = Upto(ranked, Cap(call))
  BY <1>1, <1>19 DEF SearchHits
<1> QED
  BY <1>2, <1>18, <1>20, UptoPart, CapIsNatural

\* A member of an origin is a document in the database with one of its ids.
LEMMA MemberIs ==
  ASSUME Held, Shelved(db), NEW o, IsList(o.ids), NEW m \in ToSet(Members(index, db, o)), NEW x, x = In(o.coll, m)
  PROVE  x \in Live /\ x.coll = o.coll /\ x.doc = m /\ m.id \in ToSet(o.ids) /\ ById(x) /\ ~ (Len(o.ids) > PrefetchLimit)
<1>1. PICK rows : rows = Rows(index, db, o.coll, ToSet(o.ids), {}, 0)
  OBVIOUS
<1>2. ~ (o.ids = <<>> \/ Len(o.ids) > PrefetchLimit)
  BY EmptyIsList DEF Members, ToSet
<1>3. m \in ToSet(rows)
  BY <1>1, <1>2 DEF Members
<1>4. x \in Live /\ Asked(o.coll, ToSet(o.ids), {}, x)
  BY <1>1, <1>3, LookedUp
<1>5. ToSet(o.ids) # {}
  BY <1>2, NotEmpty
<1> QED
  BY <1>2, <1>4, <1>5 DEF Asked, In

\* A hop lists documents in scope that hold its key, all of them if there is room.
LEMMA HopNodeIs ==
  ASSUME Held, Shelved(db), Coherent(index), NEW p \in ToSet(index.plans), NEW m, NEW h, h = HopNode(index, db, p, m)
  PROVE  /\ h._id = Hop(p.to, p.to_field, Value(m, p.field)) /\ h.coll = p.to
         /\ \A id \in ToSet(h.ids) : \E x \in Live :
              x.coll = h.coll /\ x.doc.id = id /\ InScope(x) /\ Value(x.doc, h._id[3]) = h._id[4]
         /\ Joins(p, h._id) /\ Len(h.ids) < 8 =>
              \A x \in Live : Findable(x) /\ x.coll = h.coll /\ Value(x.doc, h._id[3]) = h._id[4] => Contains(h.ids, x.doc.id)
<1>1. PICK v : v = Plain(p.coll, p.field, Value(m, p.field))
  OBVIOUS
<1>2. v.text = Value(m, p.field) /\ v.kind = IF Kind[p.coll][p.field] = "number" THEN "number" ELSE "string"
  BY <1>1 DEF Plain
<1>3. PICK c : c = [field |-> p.to_field, op |-> "eq", values |-> {v}]
  OBVIOUS
<1>4. Is(p.to_field, v) = {c} /\ c.op = "eq" /\ c.field = p.to_field /\ c.values = {v}
  BY <1>3 DEF Is
<1>5. PICK rows : rows = Rows(index, db, p.to, {}, {c}, 8)
  OBVIOUS
<1>6. PICK refs : refs = Payloads(p.to, rows)
  OBVIOUS
<1>7. /\ IsList(rows) /\ Len(refs) = Len(rows)
      /\ \A d \in ToSet(rows) : LET x == In(p.to, d) IN x \in Live /\ Open(x) /\ Asked(p.to, {}, {c}, x)
      /\ Len(refs) < 8 => AllOf(refs, p.to, {}, {c})
  BY <1>4, <1>5, <1>6, LookedUp
<1>8. PICK ids : ids = [k \in DOMAIN rows |-> rows[k].id]
  OBVIOUS
<1>9. IsList(ids) /\ Len(ids) = Len(rows) /\ DOMAIN ids = DOMAIN rows
  <2>1. DOMAIN ids = DOMAIN rows /\ ids = [k \in DOMAIN rows |-> ids[k]]
    BY <1>8
  <2>2. IsList(ids)
    BY <1>7, <2>1, SortedList
  <2> QED
    BY <1>7, <2>1, <2>2, ListIs
<1>10. h = [_id |-> Hop(p.to, p.to_field, v.text), coll |-> p.to, ids |-> ids]
  BY <1>1, <1>4, <1>5, <1>8 DEF HopNode
<1>11. h._id = Hop(p.to, p.to_field, Value(m, p.field)) /\ h.coll = p.to /\ h.ids = ids
  BY <1>2, <1>10
<1>12. h._id[2] = p.to /\ h._id[3] = p.to_field /\ h._id[4] = Value(m, p.field)
  BY <1>11 DEF Hop
<1>13. \A x : AsksFor(x, c) <=> Value(m, p.field) = Value(x.doc, p.to_field) /\ Alike(v.kind, x.coll, p.to_field)
  BY <1>2, <1>4 DEF AsksFor
<1>14. ASSUME NEW id \in ToSet(h.ids)
       PROVE  \E x \in Live : x.coll = h.coll /\ x.doc.id = id /\ InScope(x) /\ Value(x.doc, h._id[3]) = h._id[4]
  <2>1. PICK k \in DOMAIN rows : id = rows[k].id
    BY <1>8, <1>9, <1>11 DEF ToSet
  <2>2. PICK x : x = In(p.to, rows[k])
    OBVIOUS
  <2>3. rows[k] \in ToSet(rows)
    BY DEF ToSet
  <2>4. x \in Live /\ Open(x) /\ Asked(p.to, {}, {c}, x)
    BY <1>7, <2>2, <2>3
  <2>5. x.coll = p.to /\ x.doc = rows[k]
    BY <2>2 DEF In
  <2>6. p.to \in index.collections
    BY DEF Coherent
  <2>7. Value(x.doc, p.to_field) = Value(m, p.field)
    BY <1>13, <2>4 DEF Asked
  <2> QED
    BY <1>11, <1>12, <2>1, <2>4, <2>5, <2>6, <2>7 DEF Open
<1>15. ASSUME Joins(p, h._id), Len(h.ids) < 8,
              NEW x \in Live, Findable(x), x.coll = h.coll, Value(x.doc, h._id[3]) = h._id[4]
       PROVE  Contains(h.ids, x.doc.id)
  <2>1. Alike(v.kind, x.coll, p.to_field)
    BY <1>2, <1>11, <1>12, <1>15 DEF Joins, Alike
  <2>2. AsksFor(x, c)
    BY <1>12, <1>13, <1>15, <2>1
  <2>3. Asked(p.to, {}, {c}, x)
    BY <1>4, <1>11, <1>15, <2>2 DEF Asked
  <2>4. RefOf(x) \in ToSet(refs)
    BY <1>7, <1>9, <1>11, <1>15, <2>3 DEF AllOf
  <2>5. PICK k \in DOMAIN rows : RefOf(x) = Ref(p.to, rows[k])
    BY <1>6, <2>4 DEF Payloads, ToSet
  <2>6. x.doc.id = rows[k].id
    BY <2>5 DEF RefOf, Ref
  <2>7. x.doc.id \in ToSet(ids)
    BY <1>8, <1>9, <2>6 DEF ToSet
  <2> QED
    BY <1>9, <1>11, <2>7, ContainsIs
<1> QED
  BY <1>11, <1>14, <1>15

-----------------------------------------------------------------------------
(* What holds of a call while it reads.                                    *)

Queries(call) == call.tool \notin {"search_information", "retrieve_evidence"}
Permitted(call, x) == InScope(x) \/ (~ validating /\ call.tool = "retrieve_evidence" /\ x.coll \notin index.collections)
Offered(ids) == \A id \in ids : IF id[1] = "hop" THEN id[2] \in index.collections ELSE id \in NodeIds(index)

Searching(seen, call, g, rest) ==
  /\ ToSet(rest) \subseteq ToSet(OriginsFor(Picks(call))) /\ ToSet(g.documents) \subseteq ToSet(Picks(call))
  /\ \A p \in ToSet(Picks(call)) :
       \/ \E o \in ToSet(rest) : o.coll = p.coll /\ p.id \in ToSet(o.ids)
       \/ Len(g.documents) >= Cap(call)
       \/ \A x \in seen.always : Findable(x) /\ ById(x) /\ RefOf(x) = p => p \in ToSet(g.documents)

Absent(seen, call, id) == \A x \in seen.always : ~ (Findable(x) /\ StandsFor(id, call, x))
Resolved(seen, call, g, id) ==
  \/ Absent(seen, call, id) \/ Len(g.documents) >= Cap(call) \/ id \in ToSet(g.hints)
  \/ \E x \in seen.ever : StandsFor(id, call, x) /\ RefOf(x) \in ToSet(g.documents)
Retrieving(seen, call, g, rest) ==
  /\ ToSet(rest) \subseteq ToSet(Upto(call.ids, 8))
  /\ \A id \in ToSet(g.missing) : Absent(seen, call, id) /\ (validating => id[1] = "hop")
  /\ \A id \in ToSet(Upto(call.ids, 8)) : id \in ToSet(rest) \/ Resolved(seen, call, g, id)
  /\ \A o \in ToSet(g.origins) : Shown(o, ToSet(g.documents), ToSet(call.ids))

Querying(seen, call, g, rest) ==
  /\ call.coll \in index.collections /\ (rest = <<>> \/ rest = <<call.coll>>)
  /\ rest = <<>> /\ (\A c \in call.filter.clauses : c.op = "eq") =>
       Len(g.documents) >= Cap(call) \/ \A x \in seen.always : Findable(x) /\ Satisfies(x, call) => RefOf(x) \in ToSet(g.documents)

\* What was read was there, and what was there all along was read, or is still to be.
Reading(seen, call, g, rest) ==
  /\ Within(call, g) /\ IsList(rest)
  /\ \A r \in ToSet(g.documents) : \E x \in seen.ever : RefOf(x) = r /\ Permitted(call, x) /\ (Queries(call) => Satisfies(x, call))
  /\ call.tool = "search_information" => Searching(seen, call, g, rest)
  /\ call.tool = "retrieve_evidence" => Retrieving(seen, call, g, rest)
  /\ Queries(call) => Querying(seen, call, g, rest)

LEMMA TailIs ==
  ASSUME NEW s, IsList(s), s # <<>>
  PROVE  IsList(Tail(s)) /\ ToSet(s) = {Head(s)} \cup ToSet(Tail(s)) /\ Head(s) \in ToSet(s)
<1>1. PICK n \in Nat : n = Len(s) /\ DOMAIN s = 1 .. n
  BY ListIs
<1>2. n # 0 /\ IsList(Tail(s)) /\ Head(s) = s[1]
  BY <1>1, MovedOne
<1>3. PICK t : t = Tail(s)
  OBVIOUS
<1>4. DOMAIN t = 1 .. n - 1 /\ \A k \in 1 .. n - 1 : t[k] = s[k + 1]
  BY <1>1, <1>2, <1>3 DEF IsList
<1>5. ASSUME NEW k \in 1 .. n PROVE s[k] = Head(s) \/ s[k] \in ToSet(t)
  <2>1. CASE k = 1
    BY <1>2, <2>1
  <2>2. CASE k # 1
    <3>1. k - 1 \in 1 .. n - 1 /\ k = (k - 1) + 1
      BY <2>2
    <3> QED
      BY <1>4, <3>1 DEF ToSet
  <2> QED
    BY <2>1, <2>2
<1>6. ASSUME NEW k \in 1 .. n - 1 PROVE t[k] \in ToSet(s)
  <2>1. k + 1 \in 1 .. n
    OBVIOUS
  <2> QED
    BY <1>1, <1>4, <2>1 DEF ToSet
<1>7. Head(s) \in ToSet(s)
  BY <1>1, <1>2 DEF ToSet
<1> QED
  BY <1>1, <1>2, <1>3, <1>4, <1>5, <1>6, <1>7 DEF ToSet

\* Before the first read there is all to read.
LEMMA StartReading ==
  ASSUME IsIndex(index), Coherent(index), NEW call, IsCall(call), ~ Refused(index, call), NEW seen
  PROVE  Reading(seen, call, [NothingRead EXCEPT !.raised = FALSE], Reads(index, question, call))
<1>1. PICK g : g = [NothingRead EXCEPT !.raised = FALSE]
  OBVIOUS
<1>2. g = NothingRead /\ g.documents = <<>> /\ g.missing = <<>> /\ g.hints = <<>> /\ g.origins = <<>>
  BY <1>1 DEF NothingRead
<1>3. ToSet(<<>>) = {} /\ Distinct(<<>>) /\ IsList(<<>>) /\ Len(<<>>) = 0
  BY EmptyIsList DEF ToSet, Distinct
<1>4. Within(call, g)
  <2>1. IsGot(g)
    BY <1>2, <1>3 DEF NothingRead, IsGot, ReadFields
  <2>2. Cap(call) \in Nat /\ call.limit \in Nat
    BY CapIsNatural DEF IsCall
  <2> QED
    BY <1>2, <1>3, <2>1, <2>2 DEF Within
<1>5. PICK rest : rest = Reads(index, question, call)
  OBVIOUS
<1>6. CASE call.tool = "search_information"
  <2>1. rest = NamedReads(index, question \cup call.words, Cap(call))
    BY <1>5, <1>6 DEF Reads
  <2>2. rest = OriginsFor(Picks(call)) /\ IsList(Picks(call))
    BY <2>1, NamedReadsIs DEF IsCall
  <2>3. IsList(rest) /\ \A p \in ToSet(Picks(call)) : \E o \in ToSet(rest) : o.coll = p.coll /\ p.id \in ToSet(o.ids)
    BY <2>2, OriginsForIs
  <2>4. Searching(seen, call, g, rest)
    BY <1>2, <1>3, <2>2, <2>3 DEF Searching
  <2> QED
    BY <1>1, <1>2, <1>3, <1>4, <1>5, <1>6, <2>3, <2>4 DEF Reading, Queries
<1>7. CASE call.tool = "retrieve_evidence"
  <2>1. rest = Upto(call.ids, 8)
    BY <1>5, <1>7 DEF Reads
  <2>2. IsList(rest)
    BY <2>1, UptoIs DEF IsCall
  <2>3. Retrieving(seen, call, g, rest)
    BY <1>2, <1>3, <2>1 DEF Retrieving
  <2> QED
    BY <1>1, <1>2, <1>3, <1>4, <1>5, <1>7, <2>2, <2>3 DEF Reading, Queries
<1>8. CASE Queries(call)
  <2>1. rest = <<call.coll>>
    BY <1>5, <1>8 DEF Reads, Queries
  <2>2. IsList(rest) /\ rest # <<>>
    BY <2>1, Single, EmptyIsList
  <2>3. call.coll \in index.collections
    BY <1>8 DEF Refused, Known, Queries, IsCall
  <2>4. Querying(seen, call, g, rest)
    BY <2>1, <2>2, <2>3 DEF Querying
  <2> QED
    BY <1>1, <1>2, <1>3, <1>4, <1>5, <1>8, <2>2, <2>4 DEF Reading, Queries
<1> QED
  BY <1>6, <1>7, <1>8 DEF Queries

\* Writes while it reads take nothing back of that.
LEMMA LaterReading ==
  ASSUME NEW seen, NEW later, seen.ever \subseteq later.ever, later.always \subseteq seen.always,
         NEW call, NEW g, NEW rest, Reading(seen, call, g, rest)
  PROVE  Reading(later, call, g, rest)
<1>1. \A r \in ToSet(g.documents) : \E x \in later.ever : RefOf(x) = r /\ Permitted(call, x) /\ (Queries(call) => Satisfies(x, call))
  BY DEF Reading
<1>2. Searching(seen, call, g, rest) => Searching(later, call, g, rest)
  BY DEF Searching
<1>3. \A id : Absent(seen, call, id) => Absent(later, call, id)
  BY DEF Absent
<1>4. \A id : Resolved(seen, call, g, id) => Resolved(later, call, g, id)
  BY <1>3 DEF Resolved
<1>5. Retrieving(seen, call, g, rest) => Retrieving(later, call, g, rest)
  BY <1>3, <1>4 DEF Retrieving
<1>6. Querying(seen, call, g, rest) => Querying(later, call, g, rest)
  BY DEF Querying
<1> QED
  BY <1>1, <1>2, <1>5, <1>6 DEF Reading

Spans(seen) == seen.always \subseteq Live /\ Live \subseteq seen.ever

\* One read more, of documents that the call may return.
LEMMA AddedIs ==
  ASSUME NEW seen, Spans(seen), NEW call, NEW g, NEW rest, Reading(seen, call, g, rest),
         NEW refs, IsList(refs), Distinct(refs),
         \A r \in ToSet(refs) : \E x \in Live : RefOf(x) = r /\ Permitted(call, x) /\ (Queries(call) => Satisfies(x, call)),
         NEW t, t = Add(g, refs, Cap(call))
  PROVE  /\ Within(call, t) /\ Grown(g.documents, t.documents, ToSet(refs), Cap(call))
         /\ Len(g.documents) \in Nat /\ Len(t.documents) \in Nat /\ Cap(call) \in Nat /\ Len(t.documents) >= Len(g.documents)
         /\ \A r \in ToSet(t.documents) :
              \E x \in seen.ever : RefOf(x) = r /\ Permitted(call, x) /\ (Queries(call) => Satisfies(x, call))
<1>1. PICK cap \in Nat : cap = Cap(call)
  BY CapIsNatural DEF Reading, Within
<1>2. IsGot(g) /\ Distinct(g.documents) /\ Len(g.documents) <= cap
  BY <1>1 DEF Reading, Within
<1>3. IsGot(t) /\ Grown(g.documents, t.documents, ToSet(refs), cap) /\ Len(t.documents) >= Len(g.documents)
  BY <1>1, <1>2, AddIs
<1>4. Within(call, t)
  BY <1>1, <1>3 DEF Within, Reading, Grown
<1>5. ASSUME NEW r \in ToSet(t.documents)
      PROVE  \E x \in seen.ever : RefOf(x) = r /\ Permitted(call, x) /\ (Queries(call) => Satisfies(x, call))
  <2>1. r \in ToSet(g.documents) \/ r \in ToSet(refs)
    BY <1>3 DEF Grown
  <2> QED
    BY <2>1 DEF Reading, Spans
<1> QED
  BY <1>1, <1>2, <1>3, <1>4, <1>5, ListIs DEF IsGot

LEMMA SearchStep ==
  ASSUME Held, Shelved(db), Coherent(index), IsIndex(index), NEW seen, Spans(seen), NEW call, IsCall(call),
         call.tool = "search_information", NEW g, NEW rest, Reading(seen, call, g, rest), rest # <<>>,
         NEW t, t = ReadOne(index, db, question, call, g, Head(rest))
  PROVE  Reading(seen, call, t, Tail(rest))
<1>1. PICK o : o = Head(rest)
  OBVIOUS
<1>2. IsList(Tail(rest)) /\ ToSet(rest) = {o} \cup ToSet(Tail(rest)) /\ Searching(seen, call, g, rest)
  BY <1>1, TailIs DEF Reading
<1>3. ~ Queries(call)
  BY DEF Queries
<1>4. PICK picks : picks = Picks(call)
  OBVIOUS
<1>5. IsList(picks) /\ ToSet(picks) \subseteq NamedIn(call)
  BY <1>4, NamedReadsIs DEF IsCall
<1>6. Gathers(o, ToSet(picks))
  <2>1. o \in ToSet(OriginsFor(picks))
    BY <1>2, <1>4 DEF Searching
  <2> QED
    BY <1>5, <2>1, OriginsForIs
<1>7. o.coll \in index.collections /\ ToSet(o.ids) # {}
  <2>1. IsList(o.ids) /\ o.ids # <<>> /\ \A k \in DOMAIN o.ids : \E r \in ToSet(picks) : r.coll = o.coll /\ r.id = o.ids[k]
    BY <1>6 DEF Gathers
  <2>2. 1 \in DOMAIN o.ids /\ ToSet(o.ids) # {}
    BY <2>1, NotEmpty
  <2>3. PICK r \in NamedIn(call) : r.coll = o.coll
    BY <1>5, <2>1, <2>2
  <2>4. PICK n \in ToSet(index.nodes) : r.coll = n.coll
    BY DEF NamedIn
  <2> QED
    BY <2>2, <2>3, <2>4 DEF Coherent
<1>8. PICK rows : rows = Rows(index, db, o.coll, ToSet(o.ids), {}, 0)
  OBVIOUS
<1>9. PICK refs : refs = Payloads(o.coll, rows)
  OBVIOUS
<1>10. Looked(refs, o.coll, ToSet(o.ids), {}) /\ AllOf(refs, o.coll, ToSet(o.ids), {})
  BY <1>8, <1>9, LookedUp
<1>11. t = Add(g, refs, Cap(call))
  BY <1>1, <1>8, <1>9 DEF ReadOne
<1>12. IsList(refs) /\ Distinct(refs)
  BY <1>10 DEF Looked
<1>13. \A r \in ToSet(refs) : \E x \in Live : RefOf(x) = r /\ Permitted(call, x) /\ (Queries(call) => Satisfies(x, call))
  BY <1>3, <1>7, <1>10 DEF Looked, Asked, Open, Permitted
<1>14. /\ Within(call, t) /\ Grown(g.documents, t.documents, ToSet(refs), Cap(call))
       /\ Len(g.documents) \in Nat /\ Len(t.documents) \in Nat /\ Cap(call) \in Nat /\ Len(t.documents) >= Len(g.documents)
       /\ \A r \in ToSet(t.documents) :
            \E x \in seen.ever : RefOf(x) = r /\ Permitted(call, x) /\ (Queries(call) => Satisfies(x, call))
  BY <1>11, <1>12, <1>13, AddedIs
<1>15. ToSet(refs) \subseteq ToSet(picks)
  <2>1. ASSUME NEW r \in ToSet(refs) PROVE r \in ToSet(picks)
    <3>1. PICK x \in Live : RefOf(x) = r /\ x.coll = o.coll /\ x.doc.id \in ToSet(o.ids)
      BY <1>7, <1>10 DEF Looked, Asked
    <3>2. PICK k \in DOMAIN o.ids : o.ids[k] = x.doc.id
      BY <3>1 DEF ToSet
    <3>3. PICK p \in ToSet(picks) : p.coll = o.coll /\ p.id = x.doc.id
      BY <1>6, <3>2 DEF Gathers
    <3>4. p \in NamedIn(call)
      BY <1>5
    <3>5. p = [coll |-> p.coll, id |-> p.id]
      BY <3>4 DEF NamedIn
    <3> QED
      BY <3>1, <3>3, <3>5 DEF RefOf, Ref
  <2> QED
    BY <2>1
<1>16. ASSUME NEW p \in ToSet(picks)
       PROVE  \/ \E q \in ToSet(Tail(rest)) : q.coll = p.coll /\ p.id \in ToSet(q.ids)
              \/ Len(t.documents) >= Cap(call)
              \/ \A x \in seen.always : Findable(x) /\ ById(x) /\ RefOf(x) = p => p \in ToSet(t.documents)
  <2>1. CASE \E q \in ToSet(Tail(rest)) : q.coll = p.coll /\ p.id \in ToSet(q.ids)
    BY <2>1
  <2>2. CASE o.coll = p.coll /\ p.id \in ToSet(o.ids)
    <3>1. ASSUME ~ (Len(t.documents) >= Cap(call)), NEW x \in seen.always, Findable(x), ById(x), RefOf(x) = p
          PROVE  p \in ToSet(t.documents)
      <4>1. x.coll = o.coll /\ x.doc.id = p.id
        BY <2>2, <3>1 DEF RefOf, Ref
      <4>2. Asked(o.coll, ToSet(o.ids), {}, x) /\ x \in Live
        BY <2>2, <3>1, <4>1 DEF Asked, Spans
      <4>3. p \in ToSet(refs)
        BY <1>10, <3>1, <4>2 DEF AllOf
      <4>4. Len(t.documents) < Cap(call)
        BY <1>14, <3>1
      <4> QED
        BY <1>14, <4>3, <4>4 DEF Grown
    <3> QED
      BY <3>1
  <2>3. CASE Len(g.documents) >= Cap(call)
    BY <1>14, <2>3
  <2>4. CASE \A x \in seen.always : Findable(x) /\ ById(x) /\ RefOf(x) = p => p \in ToSet(g.documents)
    BY <1>14, <2>4 DEF Grown
  <2> QED
    BY <1>2, <1>4, <2>1, <2>2, <2>3, <2>4 DEF Searching
<1>17. Searching(seen, call, t, Tail(rest))
  <2>1. ToSet(Tail(rest)) \subseteq ToSet(OriginsFor(Picks(call)))
    BY <1>2 DEF Searching
  <2>2. ToSet(t.documents) \subseteq ToSet(picks)
    BY <1>2, <1>4, <1>14, <1>15 DEF Searching, Grown
  <2> QED
    BY <1>4, <1>16, <2>1, <2>2 DEF Searching
<1> QED
  BY <1>2, <1>3, <1>14, <1>17 DEF Reading, Queries

\* Where a node that may be asked for aims, documents may be returned from.
LEMMA AimIsPermitted ==
  ASSUME NEW call, call.tool = "retrieve_evidence", validating => Valid(call, planned), Offered(planned.nodes),
         NEW id \in ToSet(call.ids), NEW x, Open(x), Aims(id, x)
  PROVE  Permitted(call, x)
<1>1. validating => id \in planned.nodes
  BY DEF Valid
<1> QED
  BY <1>1 DEF Offered, Aims, Open, Permitted

\* The nodes that were read before one more was.
LEMMA StillAnswered ==
  ASSUME NEW seen, NEW call, NEW g, NEW t, ToSet(g.documents) \subseteq ToSet(t.documents),
         ToSet(g.hints) \subseteq ToSet(t.hints),
         Len(g.documents) \in Nat, Len(t.documents) \in Nat, Cap(call) \in Nat, Len(t.documents) >= Len(g.documents),
         NEW id, Resolved(seen, call, g, id)
  PROVE  Resolved(seen, call, t, id)
BY DEF Resolved

\* A card that was read, or documents, are still shown.
LEMMA StillShown ==
  ASSUME NEW o, NEW refs, NEW more, refs \subseteq more, NEW ids, NEW asked, ids \subseteq asked, Shown(o, refs, ids)
  PROVE  Shown(o, more, asked)
BY DEF Shown

LEMMA RetrieveStep ==
  ASSUME Held, Shelved(db), IsDatabase(db), Coherent(index), IsIndex(index), NEW seen, Spans(seen), NEW call, IsCall(call),
         call.tool = "retrieve_evidence", validating => Valid(call, planned), Offered(planned.nodes),
         NEW g, NEW rest, Reading(seen, call, g, rest), rest # <<>>,
         NEW t, t = ReadOne(index, db, question, call, g, Head(rest))
  PROVE  t.raised \/ Reading(seen, call, t, Tail(rest))
<1>1. PICK id : id = Head(rest)
  OBVIOUS
<1>2. IsList(Tail(rest)) /\ ToSet(rest) = {id} \cup ToSet(Tail(rest)) /\ Retrieving(seen, call, g, rest)
  BY <1>1, TailIs DEF Reading
<1>3. ~ Queries(call) /\ Within(call, g) /\ call.limit \in Nat /\ IsGot(g)
  BY DEF Queries, Reading, Within, IsCall
<1>4. id \in ToSet(Upto(call.ids, 8)) /\ id \in ToSet(call.ids)
  <2>1. id \in ToSet(Upto(call.ids, 8))
    BY <1>2 DEF Retrieving
  <2> QED
    BY <2>1, UptoPart DEF IsCall
<1>5. PICK cap \in Nat : cap = Cap(call)
  BY <1>3, CapIsNatural
<1>6. t = ReadNode(index, db, question, call.words, Cap(call), g, id)
  BY <1>1 DEF ReadOne
<1>7. IsGot(t)
  BY <1>3, <1>5, <1>6, ReadNodeKeepsGot
<1>8. Outcome(call, id, g, t)
  BY <1>3, <1>6, ReadNodeIs DEF Within, IsCall
<1>9. Len(g.documents) \in Nat /\ Len(t.documents) \in Nat
  BY <1>3, <1>7, ListIs DEF IsGot
<1>10. CASE t = [g EXCEPT !.hints = Append(@, id)]
  <2>1. t.documents = g.documents /\ t.missing = g.missing /\ t.origins = g.origins /\ t.hints = Append(g.hints, id)
    BY <1>3, <1>10 DEF IsGot, ReadFields
  <2>2. ToSet(t.hints) = ToSet(g.hints) \cup {id}
    BY <1>3, <2>1, AppendedSet DEF IsGot
  <2>3. Within(call, t)
    BY <1>3, <1>7, <2>1 DEF Within
  <2>4. ASSUME NEW j \in ToSet(Upto(call.ids, 8)) PROVE j \in ToSet(Tail(rest)) \/ Resolved(seen, call, t, j)
    <3>1. CASE j = id
      BY <2>2, <3>1 DEF Resolved
    <3>2. CASE Resolved(seen, call, g, j)
      BY <2>1, <2>2, <3>2 DEF Resolved
    <3> QED
      BY <1>2, <3>1, <3>2 DEF Retrieving
  <2>5. Retrieving(seen, call, t, Tail(rest))
    BY <1>2, <2>1, <2>4 DEF Retrieving
  <2> QED
    BY <1>2, <1>3, <2>1, <2>3, <2>5 DEF Reading
<1>11. CASE Misses(call, id, g, t)
  <2>1. /\ t.documents = g.documents /\ t.missing = Append(g.missing, id) /\ t.origins = g.origins /\ t.hints = g.hints
        /\ id[1] = "hop" \/ id \notin NodeIds(index)
    BY <1>3, <1>11 DEF Misses, IsGot, ReadFields
  <2>2. ToSet(t.missing) = ToSet(g.missing) \cup {id}
    BY <1>3, <2>1, AppendedSet DEF IsGot
  <2>3. Within(call, t)
    BY <1>3, <1>7, <2>1 DEF Within
  <2>4. Absent(seen, call, id)
    BY <1>11 DEF Absent, Misses, Spans
  <2>5. validating => id[1] = "hop"
    BY <1>4, <2>1 DEF Valid, Offered
  <2>6. ASSUME NEW j \in ToSet(Upto(call.ids, 8)) PROVE j \in ToSet(Tail(rest)) \/ Resolved(seen, call, t, j)
    <3>1. CASE j = id
      BY <2>4, <3>1 DEF Resolved
    <3>2. CASE Resolved(seen, call, g, j)
      BY <2>1, <3>2 DEF Resolved
    <3> QED
      BY <1>2, <3>1, <3>2 DEF Retrieving
  <2>7. \A j \in ToSet(t.missing) : Absent(seen, call, j) /\ (validating => j[1] = "hop")
    BY <1>2, <2>2, <2>4, <2>5 DEF Retrieving
  <2>8. \A o \in ToSet(t.origins) : Shown(o, ToSet(t.documents), ToSet(call.ids))
    BY <1>2, <2>1 DEF Retrieving
  <2>9. ToSet(Tail(rest)) \subseteq ToSet(Upto(call.ids, 8))
    BY <1>2 DEF Retrieving
  <2>10. Retrieving(seen, call, t, Tail(rest))
    BY <2>6, <2>7, <2>8, <2>9 DEF Retrieving
  <2> QED
    BY <1>2, <1>3, <2>1, <2>3, <2>10 DEF Reading
<1>12. CASE \E T : Extends(call, id, g, t, T)
  <2>1. PICK T : Extends(call, id, g, t, T)
    BY <1>12
  <2>2. /\ Grown(g.documents, t.documents, T, cap) /\ t.missing = g.missing /\ t.hints = g.hints
        /\ \A r \in T : \E x \in Live : RefOf(x) = r /\ Open(x) /\ Aims(id, x)
        /\ (\E x \in Live : Findable(x) /\ StandsFor(id, call, x)) => \E x \in Live : StandsFor(id, call, x) /\ RefOf(x) \in T
        /\ \A o \in ToSet(t.origins) : o \in ToSet(g.origins) \/ Shown(o, ToSet(t.documents), {id})
    BY <1>5, <2>1 DEF Extends
  <2>3. Within(call, t) /\ ToSet(g.documents) \subseteq ToSet(t.documents)
    BY <1>3, <1>5, <1>7, <2>2 DEF Within, Grown
  <2>4. Len(t.documents) >= Len(g.documents)
    <3>1. /\ IsFiniteSet(ToSet(t.documents)) /\ Cardinality(ToSet(t.documents)) = Len(t.documents)
          /\ IsFiniteSet(ToSet(g.documents)) /\ Cardinality(ToSet(g.documents)) = Len(g.documents)
      BY <1>3, <1>7, <2>3, DistinctCount DEF Within, IsGot
    <3>2. Cardinality(ToSet(g.documents)) <= Cardinality(ToSet(t.documents))
      BY <2>3, <3>1, FS_Subset
    <3> QED
      BY <3>1, <3>2
  <2>5. ASSUME NEW r \in ToSet(t.documents)
        PROVE  \E x \in seen.ever : RefOf(x) = r /\ Permitted(call, x) /\ (Queries(call) => Satisfies(x, call))
    <3>1. r \in ToSet(g.documents) \/ r \in T
      BY <2>2 DEF Grown
    <3>2. CASE r \in ToSet(g.documents)
      BY <3>2 DEF Reading
    <3>3. CASE r \in T
      <4>1. PICK x \in Live : RefOf(x) = r /\ Open(x) /\ Aims(id, x)
        BY <2>2, <3>3
      <4>2. Permitted(call, x)
        BY <1>4, <4>1, AimIsPermitted
      <4> QED
        BY <1>3, <4>1, <4>2 DEF Spans
    <3> QED
      BY <3>1, <3>2, <3>3
  <2>6. Resolved(seen, call, t, id)
    <3>1. CASE \E x \in Live : StandsFor(id, call, x) /\ RefOf(x) \in T
      <4>1. Len(t.documents) < cap \/ Len(t.documents) >= cap
        BY <1>5, <1>9
      <4> QED
        BY <1>5, <2>2, <3>1, <4>1 DEF Resolved, Spans, Grown
    <3>2. CASE \A x \in Live : ~ (Findable(x) /\ StandsFor(id, call, x))
      BY <3>2 DEF Resolved, Absent, Spans
    <3> QED
      BY <2>2, <3>1, <3>2
  <2>7. ASSUME NEW j \in ToSet(Upto(call.ids, 8)) PROVE j \in ToSet(Tail(rest)) \/ Resolved(seen, call, t, j)
    <3>1. CASE j = id
      BY <2>6, <3>1
    <3>2. CASE Resolved(seen, call, g, j)
      BY <1>5, <1>9, <2>2, <2>3, <2>4, <3>2, StillAnswered
    <3> QED
      BY <1>2, <3>1, <3>2 DEF Retrieving
  <2>8. \A o \in ToSet(t.origins) : Shown(o, ToSet(t.documents), ToSet(call.ids))
    <3>1. ASSUME NEW o \in ToSet(t.origins) PROVE Shown(o, ToSet(t.documents), ToSet(call.ids))
      <4>1. CASE o \in ToSet(g.origins)
        BY <1>2, <2>3, <4>1, StillShown DEF Retrieving
      <4>2. CASE Shown(o, ToSet(t.documents), {id})
        BY <1>4, <4>2, StillShown
      <4> QED
        BY <2>2, <4>1, <4>2
    <3> QED
      BY <3>1
  <2>9. Retrieving(seen, call, t, Tail(rest))
    BY <1>2, <2>2, <2>7, <2>8 DEF Retrieving
  <2> QED
    BY <1>2, <1>3, <2>3, <2>5, <2>9 DEF Reading
<1> QED
  BY <1>8, <1>10, <1>11, <1>12 DEF Outcome

LEMMA QueryStep ==
  ASSUME Held, Shelved(db), NEW seen, Spans(seen), NEW call, IsCall(call), Queries(call),
         NEW g, NEW rest, Reading(seen, call, g, rest), rest # <<>>,
         NEW t, t = ReadOne(index, db, question, call, g, Head(rest))
  PROVE  Reading(seen, call, t, Tail(rest))
<1>1. Querying(seen, call, g, rest)
  BY DEF Reading
<1>2. rest = <<call.coll>> /\ call.coll \in index.collections
  BY <1>1 DEF Querying
<1>3. Head(rest) = call.coll /\ Tail(rest) = <<>> /\ IsList(<<>>)
  BY <1>2, EmptyIsList
<1>4. PICK cap \in Nat \ {0} : cap = Cap(call)
  BY CapIsNatural DEF IsCall
<1>5. PICK clauses : clauses = call.filter.clauses
  OBVIOUS
<1>6. PICK rows : rows = Rows(index, db, call.coll, {}, clauses, cap)
  OBVIOUS
<1>7. PICK refs : refs = Payloads(call.coll, rows)
  OBVIOUS
<1>8. /\ Looked(refs, call.coll, {}, clauses)
      /\ (\A c \in clauses : c.op = "eq") /\ Len(refs) < cap => AllOf(refs, call.coll, {}, clauses)
  <2>1. cap \in Nat
    OBVIOUS
  <2> QED
    BY <1>6, <1>7, <2>1, LookedUp
<1>9. t = Add(g, refs, Cap(call))
  BY <1>3, <1>4, <1>5, <1>6, <1>7 DEF ReadOne, Queries
<1>10. IsList(refs) /\ Distinct(refs)
  BY <1>8 DEF Looked
<1>11. \A x : Satisfies(x, call) <=> Asked(call.coll, {}, clauses, x)
  BY <1>5 DEF Satisfies, Asked, AsksFor
<1>12. \A r \in ToSet(refs) : \E x \in Live : RefOf(x) = r /\ Permitted(call, x) /\ (Queries(call) => Satisfies(x, call))
  BY <1>2, <1>8, <1>11 DEF Looked, Asked, Open, Permitted
<1>13. /\ Within(call, t) /\ Grown(g.documents, t.documents, ToSet(refs), Cap(call))
       /\ Len(t.documents) \in Nat /\ Cap(call) \in Nat
       /\ \A r \in ToSet(t.documents) :
            \E x \in seen.ever : RefOf(x) = r /\ Permitted(call, x) /\ (Queries(call) => Satisfies(x, call))
  BY <1>9, <1>10, <1>12, AddedIs
<1>14. ASSUME \A c \in clauses : c.op = "eq", ~ (Len(t.documents) >= cap), NEW x \in seen.always, Findable(x), Satisfies(x, call)
       PROVE  RefOf(x) \in ToSet(t.documents)
  <2>1. Len(t.documents) < cap
    BY <1>4, <1>13, <1>14
  <2>2. ToSet(refs) \subseteq ToSet(t.documents)
    BY <1>4, <1>13, <2>1 DEF Grown
  <2>3. Len(refs) < cap
    <3>1. /\ IsFiniteSet(ToSet(t.documents)) /\ Cardinality(ToSet(t.documents)) = Len(t.documents)
          /\ IsFiniteSet(ToSet(refs)) /\ Cardinality(ToSet(refs)) = Len(refs)
      BY <1>10, <1>13, DistinctCount DEF Within, IsGot
    <3>2. Cardinality(ToSet(refs)) <= Cardinality(ToSet(t.documents))
      BY <2>2, <3>1, FS_Subset
    <3>3. Len(refs) \in Nat
      BY <1>10, ListIs
    <3> QED
      BY <1>13, <2>1, <3>1, <3>2, <3>3
  <2>4. RefOf(x) \in ToSet(refs)
    BY <1>8, <1>11, <1>14, <2>3 DEF AllOf, Spans
  <2> QED
    BY <2>2, <2>4
<1>15. Querying(seen, call, t, Tail(rest))
  BY <1>2, <1>3, <1>4, <1>5, <1>14 DEF Querying
<1> QED
  BY <1>3, <1>13, <1>15 DEF Reading, Queries

-----------------------------------------------------------------------------
(* The invariant of the reads.                                             *)

\* What is asked for, and where it is looked for.
ScopeInv ==
  /\ index = NoIndex \/ Coherent(index)
  /\ pc \in {"prompt"} \cup Asking => Coherent(index)
  /\ Held
CallsInv == \A k \in DOMAIN calls : IsCall(calls[k])

\* A node that was offered is one of the index or a hop to one of its collections.
OfferInv ==
  /\ pc \in Before => ledger = EmptyLedger /\ planned = EmptyLedger
  /\ pc \in Asking => Offered(ledger.nodes) /\ Offered(planned.nodes)

\* What read_source read of a collection, and what its scope keeps of that.
Partly(f) ==
  /\ IsList(f.then) /\ (f.docs = f.then \/ \E n \in Nat : f.docs = Upto(f.then, n))
  /\ f.complete /\ f.steady => f.docs = f.then
Recalled(f) ==
  f.steady => f.whole \/ (f.coll \in index.collections /\ ~ index.scope[f.coll].complete /\ index.scope[f.coll].ids = f.ids)
ShortInv ==
  /\ pc \in {"list", "count", "save"} => \A k \in DOMAIN found : Partly(found[k])
  /\ pc \in {"start", "load", "prompt"} \cup Asking => \A f \in ToSet(found) : Recalled(f)

\* What the call has read, unless it raised.
ReadingInv ==
  pc = "reading" =>
    /\ Spans(live) /\ (validating => Valid(calls[at], planned))
    /\ got.raised \/ Reading(live, calls[at], got, left)

ReadInv == ScopeInv /\ CallsInv /\ OfferInv /\ ShortInv /\ ReadingInv

\* The tests are of the index and of the request.
SameTests == UNCHANGED <<index, question, validating>>

LEMMA TestsStay ==
  ASSUME SameTests, NEW x
  PROVE  /\ InScope(x)' <=> InScope(x)
         /\ ById(x)' <=> ById(x)
         /\ Findable(x)' <=> Findable(x)
         /\ \A call : Satisfies(x, call)' <=> Satisfies(x, call)
         /\ \A call : Permitted(call, x)' <=> Permitted(call, x)
         /\ \A id, call : StandsFor(id, call, x)' <=> StandsFor(id, call, x)
<1>1. index' = index /\ question' = question /\ validating' = validating
  BY DEF SameTests
<1>2. InScope(x)' <=> InScope(x)
  BY <1>1 DEF InScope
<1>3. \A kind, coll, f : Alike(kind, coll, f)' <=> Alike(kind, coll, f)
  BY <1>1 DEF Alike
<1>4. ById(x)' <=> ById(x)
  BY <1>3 DEF ById
<1>5. Findable(x)' <=> Findable(x)
  BY <1>1, <1>2, <1>4 DEF Findable
<1>6. \A call : Satisfies(x, call)' <=> Satisfies(x, call)
  BY <1>3 DEF Satisfies
<1>7. \A call : Permitted(call, x)' <=> Permitted(call, x)
  BY <1>1, <1>2 DEF Permitted
<1>8. \A node, call : NamedMembers(node, call)' = NamedMembers(node, call)
  BY <1>1 DEF NamedMembers
<1>9. \A id, call : StandsFor(id, call, x)' <=> StandsFor(id, call, x)
  BY <1>1, <1>3, <1>4, <1>8 DEF StandsFor
<1> QED
  BY <1>2, <1>4, <1>5, <1>6, <1>7, <1>9

LEMMA ReadingStays ==
  ASSUME SameTests, NEW seen, NEW call, NEW g, NEW rest, Reading(seen, call, g, rest)
  PROVE  Reading(seen, call, g, rest)'
<1>1. index' = index /\ question' = question /\ validating' = validating
  BY DEF SameTests
<1>2. \A r \in ToSet(g.documents) : \E x \in seen.ever :
        RefOf(x) = r /\ Permitted(call, x)' /\ (Queries(call) => Satisfies(x, call)')
  BY TestsStay DEF Reading
<1>3. Searching(seen, call, g, rest) => Searching(seen, call, g, rest)'
  <2>1. Picks(call)' = Picks(call)
    BY <1>1 DEF Picks
  <2> QED
    BY <2>1, TestsStay DEF Searching
<1>4. \A id : Absent(seen, call, id) <=> Absent(seen, call, id)'
  BY TestsStay DEF Absent
<1>5. \A id : Resolved(seen, call, g, id) => Resolved(seen, call, g, id)'
  BY <1>4, TestsStay DEF Resolved
<1>6. \A o, refs, ids : Shown(o, refs, ids) => Shown(o, refs, ids)'
  BY <1>1 DEF Shown
<1>7. Retrieving(seen, call, g, rest) => Retrieving(seen, call, g, rest)'
  BY <1>1, <1>4, <1>5, <1>6 DEF Retrieving
<1>8. Querying(seen, call, g, rest) => Querying(seen, call, g, rest)'
  BY <1>1, TestsStay DEF Querying
<1> QED
  BY <1>2, <1>3, <1>7, <1>8 DEF Reading

\* The same, of what is read after the step.
LEMMA ReadingNext ==
  ASSUME SameTests, Reading(live', calls'[at'], got', left')
  PROVE  Reading(live, calls[at], got, left)'
<1>1. PICK seen, call, g, rest : seen = live' /\ call = calls'[at'] /\ g = got' /\ rest = left'
  OBVIOUS
<1>2. Reading(seen, call, g, rest)
  BY <1>1
<1>3. Reading(seen, call, g, rest)'
  BY <1>2, ReadingStays
<1> QED
  BY <1>1, <1>3

LEMMA SourceIs ==
  ASSUME IInv
  PROVE  Shelved(db) /\ IsDatabase(db)
BY DEF IInv, SourceInv, Stored, Shelved, IdsOnce, IsDatabase

LEMMA StartReads == Init => ReadInv
<1> SUFFICES ASSUME Init PROVE ReadInv
  OBVIOUS
<1>1. ScopeInv
  <2>1. CASE index = NoIndex
    <3>1. index.live
      BY <2>1 DEF NoIndex
    <3> QED
      BY <2>1, <3>1 DEF ScopeInv, Held, Init, Asking
  <2>2. CASE index \in Indexes
    <3>1. Coherent(index)
      BY <2>2, SessionAssumption
    <3>2. ~ index.live => \A c \in DOMAIN Database \cap index.collections : \A d \in ToSet(Database[c]) :
                            index.scope[c].complete \/ d.id \in index.scope[c].ids
      BY <2>2, SessionAssumption
    <3>3. db = Database
      BY DEF Init
    <3> QED
      BY <3>1, <3>2, <3>3 DEF ScopeInv, Held
  <2> QED
    BY <2>1, <2>2 DEF Init
<1>2. CallsInv
  BY EmptyIsList DEF Init, CallsInv
<1>3. OfferInv
  BY DEF Init, OfferInv, Asking
<1>4. ShortInv
  <2>1. found = <<>> /\ ToSet(<<>>) = {}
    BY EmptyIsList DEF Init, ToSet
  <2> QED
    BY <2>1, EmptyIsList DEF ShortInv
<1>5. ReadingInv
  BY DEF Init, ReadingInv
<1> QED
  BY <1>1, <1>2, <1>3, <1>4, <1>5 DEF ReadInv

-----------------------------------------------------------------------------
(* The steps keep it: while the source is indexed.                         *)

\* What these steps leave alone of what was read.
Unread == UNCHANGED <<db, calls, ledger, planned, question, validating>>

LEMMA RestIs ==
  ASSUME UNCHANGED request, UNCHANGED Rest
  PROVE  Unread
<1>1. UNCHANGED source /\ UNCHANGED ledger /\ UNCHANGED turn
  BY DEF Rest
<1> QED
  BY <1>1 DEF request, source, turn, Unread

LEMMA UnreadKeeps ==
  ASSUME ReadInv, Unread, pc \in Before, pc' \in (Before \ {"prompt"}) \cup {"refused"}
  PROVE  /\ CallsInv' /\ OfferInv' /\ ReadingInv'
         /\ index' = index => ScopeInv'
<1>1. CallsInv'
  BY DEF ReadInv, CallsInv, Unread
<1>2. OfferInv'
  BY DEF ReadInv, OfferInv, Unread, Before, Asking
<1>3. ReadingInv'
  BY DEF ReadingInv, Before
<1>4. index' = index => ScopeInv'
  BY DEF ReadInv, ScopeInv, Held, Unread, Before, Asking
<1> QED
  BY <1>1, <1>2, <1>3, <1>4

LEMMA BuildIndexReads == ASSUME IInv, ReadInv, BuildIndex PROVE ReadInv'
<1>1. pc = "index" /\ pc' \in {"list", "refused", "start"} /\ index' = index /\ found' = <<>> /\ Unread
  <2>1. UNCHANGED setting /\ UNCHANGED Rest
    BY DEF BuildIndex
  <2>2. UNCHANGED request /\ index' = index /\ found' = found
    BY <2>1 DEF setting
  <2> QED
    BY <2>1, <2>2, RestIs DEF BuildIndex, IInv, FoundInv
<1>2. CallsInv' /\ OfferInv' /\ ReadingInv' /\ ScopeInv'
  BY <1>1, UnreadKeeps DEF Before
<1>3. ShortInv'
  <2>1. ToSet(<<>>) = {} /\ DOMAIN <<>> = {}
    BY EmptyIsList DEF ToSet
  <2> QED
    BY <1>1, <2>1 DEF ShortInv
<1> QED
  BY <1>2, <1>3 DEF ReadInv

LEMMA ListSourceReads == ASSUME IInv, ReadInv, ListSource PROVE ReadInv'
<1>1. pc = "list" /\ pc' = "count" /\ index' = index /\ Unread
  BY RestIs DEF ListSource
<1>2. CallsInv' /\ OfferInv' /\ ReadingInv' /\ ScopeInv'
  BY <1>1, UnreadKeeps DEF Before
<1>3. ShortInv'
  <2>1. PICK n \in Nat : n = Len(found) /\ DOMAIN found = 1 .. n /\ n < Len(Names) /\ IsList(found)
    BY <1>1, ListIs DEF IInv, FoundInv, Listed
  <2>2. PICK c : c = Names[n + 1]
    OBVIOUS
  <2>3. n + 1 \in 1 .. Len(Names) /\ c \in DOMAIN db
    BY <2>1, <2>2, NamesAre DEF IInv, SourceInv
  <2>4. PICK e : e = [coll |-> c, docs |-> IF most = 0 THEN db[c] ELSE Upto(db[c], most),
                      then |-> db[c], complete |-> FALSE, steady |-> FALSE]
    OBVIOUS
  <2>5. found' = Append(found, e)
    BY <2>1, <2>2, <2>4 DEF ListSource
  <2>6. Partly(e)
    <3>1. IsList(db[c]) /\ most \in Nat
      BY <2>3 DEF IInv, SourceInv, Stored, FoundInv
    <3> QED
      BY <2>4, <3>1 DEF Partly
  <2>7. /\ IsList(found') /\ Len(found') = n + 1 /\ (\A i \in 1 .. n : found'[i] = found[i]) /\ found'[n + 1] = e
    BY <2>1, <2>5, Appended
  <2>8. DOMAIN found' = 1 .. n + 1 /\ \A i \in 1 .. n + 1 : i \in 1 .. n \/ i = n + 1
    BY <2>1, <2>7, ListIs
  <2>9. \A i \in 1 .. n : Partly(found[i])
    BY <1>1, <2>1 DEF ReadInv, ShortInv
  <2>10. \A i \in DOMAIN found' : Partly(found'[i])
    BY <2>6, <2>7, <2>8, <2>9
  <2> QED
    BY <1>1, <2>10 DEF ShortInv, Asking
<1> QED
  BY <1>2, <1>3 DEF ReadInv

\* As many as there were are all of them.
LEMMA WholeRead ==
  ASSUME NEW then, IsList(then), NEW docs, docs = then \/ \E n \in Nat : docs = Upto(then, n), Len(docs) = Len(then)
  PROVE  docs = then
<1>1. CASE \E n \in Nat : docs = Upto(then, n)
  <2>1. PICK n \in Nat : docs = Upto(then, n)
    BY <1>1
  <2>2. IsList(docs) /\ \A i \in 1 .. Len(docs) : docs[i] = then[i]
    BY <2>1, UptoIs
  <2> QED
    BY <2>2, SameLists
<1> QED
  BY <1>1

LEMMA CountSourceReads == ASSUME IInv, ReadInv, CountSource PROVE ReadInv'
<1>1. pc = "count" /\ pc' \in {"save", "list"} /\ index' = index /\ Unread
  BY RestIs DEF CountSource
<1>2. CallsInv' /\ OfferInv' /\ ReadingInv' /\ ScopeInv'
  BY <1>1, UnreadKeeps DEF Before
<1>3. ShortInv'
  <2>1. PICK n \in Nat \ {0} : n = Len(found) /\ DOMAIN found = 1 .. n /\ n <= Len(Names) /\ IsList(found)
    BY <1>1, ListIs DEF IInv, FoundInv, Listed
  <2>2. PICK f : f = found[n]
    OBVIOUS
  <2>3. DOMAIN f = Entry
    BY <1>1, <2>1, <2>2 DEF IInv, FoundInv, Listed
  <2>4. PICK e : e = [f EXCEPT !.complete = Complete(f.docs, Len(db[f.coll])), !.steady = (db[f.coll] = f.then)]
    OBVIOUS
  <2>5. /\ e.docs = f.docs /\ e.then = f.then
        /\ e.complete = (Len(f.docs) = Len(db[f.coll])) /\ e.steady = (db[f.coll] = f.then)
    BY <2>3, <2>4 DEF Entry, Complete
  <2>6. \A i \in 1 .. n : Partly(found[i])
    BY <1>1, <2>1 DEF ReadInv, ShortInv
  <2>7. Partly(e)
    <3>1. IsList(f.then) /\ (f.docs = f.then \/ \E k \in Nat : f.docs = Upto(f.then, k))
      BY <2>1, <2>2, <2>6 DEF Partly
    <3>2. ASSUME e.complete, e.steady PROVE f.docs = f.then
      <4>1. db[f.coll] = f.then
        BY <2>5, <3>2
      <4>2. Len(f.docs) = Len(f.then)
        BY <2>5, <3>2, <4>1
      <4> QED
        BY <3>1, <4>2, WholeRead
    <3> QED
      BY <2>5, <3>1, <3>2 DEF Partly
  <2>8. PICK s : s = SubSeq(found, 1, n - 1)
    OBVIOUS
  <2>9. IsList(s) /\ Len(s) = n - 1 /\ \A i \in 1 .. n - 1 : s[i] = found[i]
    <3>1. 1 \in 1 .. Len(found) + 1 /\ n - 1 \in 0 .. Len(found)
      BY <2>1
    <3>2. /\ IsList(s) /\ Len(s) = IF 1 <= n - 1 THEN n - 1 - 1 + 1 ELSE 0
          /\ \A i \in 1 .. Len(s) : s[i] = found[1 + i - 1]
      BY <2>1, <2>8, <3>1, Sliced
    <3> QED
      BY <2>1, <3>2
  <2>10. found' = Append(s, e)
    BY <2>1, <2>2, <2>4, <2>8 DEF CountSource, Front, Last
  <2>11. /\ IsList(found') /\ Len(found') = n /\ (\A i \in 1 .. n - 1 : found'[i] = found[i]) /\ found'[n] = e
    <3>1. /\ IsList(found') /\ Len(found') = Len(s) + 1 /\ (\A i \in 1 .. Len(s) : found'[i] = s[i])
          /\ found'[Len(s) + 1] = e
      BY <2>9, <2>10, Appended
    <3>2. Len(s) + 1 = n
      BY <2>1, <2>9
    <3> QED
      BY <2>9, <3>1, <3>2
  <2>12. DOMAIN found' = 1 .. n /\ \A i \in 1 .. n : i \in 1 .. n - 1 \/ i = n
    BY <2>1, <2>11, ListIs
  <2>13. \A i \in DOMAIN found' : Partly(found'[i])
    BY <2>6, <2>7, <2>11, <2>12
  <2> QED
    BY <1>1, <2>13 DEF ShortInv, Asking
<1> QED
  BY <1>2, <1>3 DEF ReadInv

\* The entry of a collection is the one that was read.
LEMMA EntryIs ==
  ASSUME Listed(found), NEW k \in DOMAIN found
  PROVE  found[k].coll \in ToSet(Names) /\ EntryOf(found[k].coll) = found[k]
<1>1. PICK n \in Nat : n = Len(found) /\ DOMAIN found = 1 .. n /\ n <= Len(Names)
  BY ListIs DEF Listed
<1>2. \A i \in 1 .. n : found[i].coll = Names[i] /\ i \in 1 .. Len(Names)
  BY <1>1, NamesAre DEF Listed
<1>3. \A i, j \in 1 .. n : found[i].coll = found[j].coll => i = j
  BY <1>2, NamesAre, SessionAssumption
<1>4. \A f \in ToSet(found) : f.coll = found[k].coll => f = found[k]
  BY <1>1, <1>3 DEF ToSet
<1>5. found[k] \in ToSet(found)
  BY DEF ToSet
<1>6. PICK f : f = EntryOf(found[k].coll)
  OBVIOUS
<1>7. f \in ToSet(found) /\ f.coll = found[k].coll
  BY <1>5, <1>6 DEF EntryOf
<1> QED
  BY <1>1, <1>2, <1>4, <1>6, <1>7, NamesAre

\* What is saved of an entry tells of its collection.
LEMMA SavedIs ==
  ASSUME NEW f, Partly(f), NEW e, e = [coll |-> f.coll, ids |-> Ids(f.docs), whole |-> f.docs = f.then, steady |-> f.steady],
         NEW s, s = [complete |-> f.complete, ids |-> IF f.complete THEN {} ELSE Ids(f.docs)]
  PROVE  e.steady => e.whole \/ (~ s.complete /\ s.ids = e.ids)
<1>1. e.steady = f.steady /\ e.whole = (f.docs = f.then) /\ e.ids = Ids(f.docs)
  BY ONLY e = [coll |-> f.coll, ids |-> Ids(f.docs), whole |-> f.docs = f.then, steady |-> f.steady]
<1>2. s.complete = f.complete /\ (~ f.complete => s.ids = Ids(f.docs))
  OBVIOUS
<1>3. f.complete /\ f.steady => f.docs = f.then
  BY DEF Partly
<1> QED
  BY <1>1, <1>2, <1>3

LEMMA SaveIndexReads == ASSUME IInv, ReadInv, SaveIndex PROVE ReadInv'
<1>1. pc = "save" /\ pc' \in {"start", "refused"} /\ Unread
  BY RestIs DEF SaveIndex
<1>2. CallsInv' /\ OfferInv' /\ ReadingInv' /\ (index' = index => ScopeInv')
  BY <1>1, UnreadKeeps DEF Before
<1>3. Listed(found) /\ Len(found) = Len(Names) /\ \A k \in DOMAIN found : Partly(found[k])
  BY <1>1 DEF IInv, FoundInv, ReadInv, ShortInv
<1>4. CASE pc' = "refused" /\ index' = index
  <2>1. ShortInv'
    BY <1>4 DEF ShortInv, Asking
  <2> QED
    BY <1>2, <1>4, <2>1 DEF ReadInv
<1>5. CASE
    /\ index' = [nodes       |-> NavNodes,
                 plans       |-> Plans([c \in ToSet(Names) |-> EntryOf(c).docs]),
                 scope       |-> [c \in ToSet(Names) |->
                                    LET f == EntryOf(c)
                                    IN  [complete |-> f.complete, ids |-> IF f.complete THEN {} ELSE Ids(f.docs)]],
                 collections |-> ToSet(Names), live |-> TRUE]
    /\ found' = [i \in DOMAIN found |-> [coll |-> found[i].coll, ids |-> Ids(found[i].docs),
                                         whole |-> found[i].docs = found[i].then, steady |-> found[i].steady]]
    /\ pc' = "start"
  <2>1. /\ index'.nodes = NavNodes /\ index'.plans = Plans([c \in ToSet(Names) |-> EntryOf(c).docs])
        /\ index'.collections = ToSet(Names) /\ index'.live
        /\ \A c \in ToSet(Names) : index'.scope[c] =
             [complete |-> EntryOf(c).complete, ids |-> IF EntryOf(c).complete THEN {} ELSE Ids(EntryOf(c).docs)]
    BY <1>5
  <2>2. Coherent(index')
    BY <1>3, <2>1, NavNodesList, PlansList DEF Coherent
  <2>3. ScopeInv'
    BY <1>5, <2>1, <2>2 DEF ScopeInv, Held
  <2>4. ASSUME NEW g \in ToSet(found')
        PROVE  g.steady => g.whole \/ (g.coll \in index'.collections /\ ~ index'.scope[g.coll].complete
                                         /\ index'.scope[g.coll].ids = g.ids)
    <3>1. PICK i \in DOMAIN found : g = [coll |-> found[i].coll, ids |-> Ids(found[i].docs),
                                         whole |-> found[i].docs = found[i].then, steady |-> found[i].steady]
      BY <1>5, <2>4 DEF ToSet
    <3>2. PICK f : f = found[i]
      OBVIOUS
    <3>3. f.coll \in ToSet(Names) /\ EntryOf(f.coll) = f /\ Partly(f)
      BY <1>3, <3>2, EntryIs
    <3>4. g = [coll |-> f.coll, ids |-> Ids(f.docs), whole |-> f.docs = f.then, steady |-> f.steady] /\ g.coll = f.coll
      BY <3>1, <3>2
    <3>5. PICK s : s = [complete |-> f.complete, ids |-> IF f.complete THEN {} ELSE Ids(f.docs)]
      OBVIOUS
    <3>6. index'.scope[f.coll] = s
      BY <2>1, <3>3, <3>5
    <3>7. g.steady => g.whole \/ (~ s.complete /\ s.ids = g.ids)
      BY <3>3, <3>4, <3>5, SavedIs
    <3> QED
      BY <2>1, <3>3, <3>4, <3>6, <3>7
  <2>5. ShortInv'
    BY <1>5, <2>4 DEF ShortInv, Recalled
  <2> QED
    BY <1>2, <2>3, <2>5 DEF ReadInv
<1> QED
  BY <1>1, <1>4, <1>5 DEF SaveIndex

-----------------------------------------------------------------------------
(* The steps keep it: while the question is asked.                         *)

LEMMA AskReads == ASSUME ReadInv, Ask \/ Load PROVE ReadInv'
<1>1. /\ pc \in {"start", "load"} /\ pc' \in {"load", "refused", "prompt"} /\ (pc' = "prompt" => index # NoIndex)
      /\ index' = index /\ found' = found /\ Unread
  <2>1. UNCHANGED setting /\ UNCHANGED source /\ UNCHANGED ledger /\ UNCHANGED turn
    BY DEF Ask, Load
  <2>2. UNCHANGED request /\ index' = index /\ found' = found
    BY <2>1 DEF setting
  <2> QED
    BY <2>1, <2>2 DEF Ask, Load, request, source, turn, Unread
<1>2. CallsInv'
  BY <1>1 DEF ReadInv, CallsInv, Unread
<1>3. OfferInv'
  BY <1>1 DEF ReadInv, OfferInv, Unread, Before, Asking
<1>4. ReadingInv'
  BY <1>1 DEF ReadingInv
<1>5. ScopeInv'
  BY <1>1 DEF ReadInv, ScopeInv, Held, Unread, Asking
<1>6. ShortInv'
  BY <1>1 DEF ReadInv, ShortInv, Recalled, Asking
<1> QED
  BY <1>2, <1>3, <1>4, <1>5, <1>6 DEF ReadInv

\* A session keeps to its index, and to its database but for the writes of others.
Session == UNCHANGED <<index, found, db, question, validating>>

LEMMA SettingIs ==
  ASSUME UNCHANGED setting, db' = db
  PROVE  Session /\ SameTests
<1>1. UNCHANGED request /\ index' = index /\ found' = found
  BY DEF setting
<1> QED
  BY <1>1 DEF request, Session, SameTests

LEMMA SessionKeeps ==
  ASSUME ReadInv, Session, pc \in {"prompt"} \cup Asking, pc' \in Asking \cup {"finish", "raised"}
  PROVE  ScopeInv' /\ ShortInv'
<1>1. ScopeInv'
  BY DEF ReadInv, ScopeInv, Held, Session, Asking
<1>2. ShortInv'
  BY DEF ReadInv, ShortInv, Recalled, Session, Asking
<1> QED
  BY <1>1, <1>2

LEMMA SameOffer ==
  ASSUME ReadInv, Session, UNCHANGED <<ledger, planned>>, pc \in {"prompt"} \cup Asking,
         pc' \in Asking \cup {"finish", "raised"}
  PROVE  OfferInv'
<1>1. pc' \notin Before /\ index' = index /\ ledger' = ledger /\ planned' = planned
  BY DEF Before, Asking, Session
<1>2. CASE pc = "prompt"
  <2>1. ledger.nodes = {} /\ planned.nodes = {}
    BY <1>2 DEF ReadInv, OfferInv, Before, EmptyLedger
  <2> QED
    BY <1>1, <2>1 DEF OfferInv, Offered
<1>3. CASE pc \in Asking
  BY <1>1, <1>3 DEF ReadInv, OfferInv, Offered
<1> QED
  BY <1>2, <1>3

\* The steps between two calls.
LEMMA QuietReads ==
  ASSUME ReadInv, Prompt \/ TopOfLoop \/ ReplyText \/ EndTurn
  PROVE  ReadInv'
<1>1. UNCHANGED setting /\ UNCHANGED source /\ UNCHANGED ledger /\ UNCHANGED turn
  BY DEF Prompt, TopOfLoop, ReplyText, EndTurn
<1>2. db' = db /\ ledger' = ledger /\ planned' = planned /\ calls' = calls
  BY <1>1 DEF source, turn
<1>3. Session
  BY <1>1, <1>2, SettingIs
<1>4. pc \in {"prompt"} \cup Asking /\ pc' \in {"top", "model", "finish", "raised"}
  BY DEF Prompt, TopOfLoop, ReplyText, EndTurn, Heard, Asking
<1>5. ScopeInv' /\ ShortInv' /\ OfferInv'
  BY <1>2, <1>3, <1>4, SessionKeeps, SameOffer DEF Asking
<1>6. CallsInv'
  BY <1>2 DEF ReadInv, CallsInv
<1>7. ReadingInv'
  BY <1>4 DEF ReadingInv
<1> QED
  BY <1>5, <1>6, <1>7 DEF ReadInv

LEMMA FinishReads == ASSUME ReadInv, Finish PROVE ReadInv'
<1>1. UNCHANGED setting /\ UNCHANGED source /\ UNCHANGED turn /\ pc' = "done"
  BY DEF Finish
<1>2. db' = db /\ calls' = calls
  BY <1>1 DEF source, turn
<1>3. Session
  BY <1>1, <1>2, SettingIs
<1> QED
  BY <1>1, <1>2, <1>3 DEF ReadInv, ScopeInv, Held, ShortInv, OfferInv, CallsInv, ReadingInv, Session, Asking, Before

LEMMA ReplyCallsReads == ASSUME ReadInv, ReplyCalls PROVE ReadInv'
<1>1. PICK asked \in Turns : calls' = asked
  BY DEF ReplyCalls
<1>2. UNCHANGED setting /\ UNCHANGED source /\ ledger' = ledger /\ planned' = ledger /\ pc = "model"
  BY DEF ReplyCalls
<1>3. db' = db
  BY <1>2 DEF source
<1>4. Session
  BY <1>2, <1>3, SettingIs
<1>5. pc' \in {"finish", "calls", "raised"}
  BY DEF ReplyCalls, Heard
<1>6. ScopeInv' /\ ShortInv'
  BY <1>2, <1>4, <1>5, SessionKeeps DEF Asking
<1>7. OfferInv'
  BY <1>2, <1>4, <1>5 DEF ReadInv, OfferInv, Offered, Session, Asking, Before
<1>8. CallsInv'
  BY <1>1, SessionAssumption DEF CallsInv
<1>9. ReadingInv'
  BY <1>5 DEF ReadingInv
<1> QED
  BY <1>6, <1>7, <1>8, <1>9 DEF ReadInv

LEMMA DispatchReads == ASSUME IInv, ReadInv, Dispatch PROVE ReadInv'
<1>1. UNCHANGED setting /\ ledger' = ledger /\ planned' = planned /\ calls' = calls /\ db' = db
  BY DEF Dispatch
<1>2. Session /\ SameTests
  BY <1>1, SettingIs
<1>3. pc = "calls" /\ at <= Len(calls) /\ pc' \in {"calls", "reading", "raised"}
  BY DEF Dispatch, Heard
<1>4. ScopeInv' /\ ShortInv' /\ OfferInv'
  BY <1>1, <1>2, <1>3, SessionKeeps, SameOffer DEF Asking
<1>5. CallsInv'
  BY <1>1 DEF ReadInv, CallsInv
<1>6. ReadingInv'
  <2> SUFFICES ASSUME pc' = "reading" PROVE ReadingInv'
    BY DEF ReadingInv
  <2>1. PICK call : call = calls[at]
    OBVIOUS
  <2>2. /\ ~ (validating /\ ~ Valid(call, planned)) /\ at' = at
        /\ left' = (IF Refused(index, call) THEN <<>> ELSE Reads(index, question, call))
        /\ got' = [NothingRead EXCEPT !.raised = Refused(index, call)]
        /\ live' = [ever |-> Live, always |-> Live]
    BY <2>1 DEF Dispatch, Heard
  <2>3. IsCall(call)
    <3>1. at \in DOMAIN calls
      BY <1>3, ListIs DEF IInv, CallInv, AreCalls
    <3> QED
      BY <2>1, <3>1 DEF ReadInv, CallsInv
  <2>4. Coherent(index) /\ IsIndex(index)
    BY <1>3 DEF ReadInv, ScopeInv, IInv, IndexInv, Asking
  <2>5. Spans(live)'
    BY <1>1, <2>2 DEF Spans, Live
  <2>6. CASE Refused(index, call)
    <3>1. got'.raised
      BY <2>2, <2>6 DEF NothingRead
    <3> QED
      BY <1>1, <1>2, <2>1, <2>2, <2>5, <3>1 DEF ReadingInv, SameTests
  <2>7. CASE ~ Refused(index, call)
    <3>1. got' = [NothingRead EXCEPT !.raised = FALSE]
      <4>1. Refused(index, call) = FALSE
        BY <2>7 DEF Refused
      <4> QED
        BY <2>2, <4>1
    <3>2. Reading(live', call, got', left')
      BY <2>2, <2>3, <2>4, <2>7, <3>1, StartReading
    <3>3. Reading(live, calls[at], got, left)'
      BY <1>1, <1>2, <2>1, <2>2, <3>2, ReadingNext
    <3> QED
      BY <1>1, <1>2, <2>1, <2>2, <2>5, <3>3 DEF ReadingInv, SameTests
  <2> QED
    BY <2>6, <2>7
<1> QED
  BY <1>4, <1>5, <1>6 DEF ReadInv

\* What holds of the call that reads.
CallReads(call) ==
  /\ Held /\ Shelved(db) /\ IsDatabase(db) /\ Coherent(index) /\ IsIndex(index) /\ Spans(live) /\ IsCall(call) /\ IsGot(got)
  /\ (validating => Valid(call, planned)) /\ Offered(planned.nodes) /\ Offered(ledger.nodes)
  /\ got.raised \/ Reading(live, call, got, left)

LEMMA CallIs ==
  ASSUME IInv, ReadInv, pc = "reading", NEW call, call = calls[at]
  PROVE  CallReads(call)
<1>1. at \in DOMAIN calls
  BY ListIs DEF IInv, CallInv, AreCalls
<1>2. IsCall(call)
  BY <1>1 DEF ReadInv, CallsInv
<1>3. Coherent(index) /\ IsIndex(index) /\ Held /\ Offered(planned.nodes) /\ Offered(ledger.nodes) /\ IsGot(got)
  BY DEF ReadInv, ScopeInv, OfferInv, IInv, IndexInv, CallInv, Asking
<1>4. Spans(live) /\ (validating => Valid(call, planned)) /\ (got.raised \/ Reading(live, call, got, left))
  BY DEF ReadInv, ReadingInv
<1> QED
  BY <1>2, <1>3, <1>4, SourceIs DEF CallReads

LEMMA ReadReads == ASSUME IInv, ReadInv, Read PROVE ReadInv'
<1>1. /\ UNCHANGED setting /\ UNCHANGED source /\ UNCHANGED turn /\ ledger' = ledger /\ pc = "reading" /\ pc' = pc
      /\ left # <<>> /\ ~ Full(calls[at], got)
      /\ got' = ReadOne(index, db, question, calls[at], got, Head(left)) /\ left' = Tail(left)
  BY DEF Read
<1>2. db' = db /\ live' = live /\ calls' = calls /\ at' = at /\ planned' = planned
  BY <1>1 DEF source, turn
<1>3. Session /\ SameTests
  BY <1>1, <1>2, SettingIs
<1>4. ScopeInv' /\ ShortInv' /\ OfferInv'
  BY <1>1, <1>2, <1>3, SessionKeeps, SameOffer DEF Asking
<1>5. CallsInv'
  BY <1>2 DEF ReadInv, CallsInv
<1>6. ReadingInv'
  <2>1. PICK call : call = calls[at]
    OBVIOUS
  <2>2. CallReads(call)
    BY <1>1, <2>1, CallIs
  <2>3. Reading(live, call, got, left)
    BY <1>1, <2>1, <2>2 DEF CallReads, Full
  <2>4. got'.raised \/ Reading(live, call, got', left')
    <3>1. PICK t : t = ReadOne(index, db, question, call, got, Head(left))
      OBVIOUS
    <3>2. t.raised \/ Reading(live, call, t, Tail(left))
      BY <1>1, <2>2, <2>3, <3>1, SearchStep, RetrieveStep, QueryStep DEF CallReads, Queries
    <3> QED
      BY <1>1, <2>1, <3>1, <3>2
  <2>5. got'.raised \/ Reading(live, calls[at], got, left)'
    BY <1>2, <1>3, <2>1, <2>4, ReadingNext
  <2>6. Spans(live)'
    BY <1>2, <2>2 DEF CallReads, Spans, Live
  <2> QED
    BY <1>2, <1>3, <2>1, <2>2, <2>5, <2>6 DEF ReadingInv, CallReads, SameTests
<1> QED
  BY <1>4, <1>5, <1>6 DEF ReadInv

LEMMA EditSourceReads == ASSUME IInv, ReadInv, EditSource PROVE ReadInv'
<1>1. /\ UNCHANGED setting /\ UNCHANGED turn /\ UNCHANGED reading /\ ledger' = ledger /\ pc' = pc
      /\ pc \in {"list", "count", "reading"} /\ index.live
      /\ live' = IF pc = "reading" THEN [ever |-> live.ever \cup Live', always |-> live.always \cap Live'] ELSE live
  BY DEF EditSource
<1>2. UNCHANGED request /\ index' = index /\ found' = found /\ calls' = calls /\ at' = at /\ planned' = planned
      /\ left' = left /\ got' = got
  BY <1>1 DEF setting, turn, reading
<1>3. SameTests
  BY <1>2 DEF request, SameTests
<1>4. ScopeInv'
  BY <1>1, <1>2 DEF ReadInv, ScopeInv, Held
<1>5. ShortInv' /\ OfferInv' /\ CallsInv'
  BY <1>1, <1>2 DEF ReadInv, ShortInv, Recalled, OfferInv, Offered, CallsInv
<1>6. ReadingInv'
  <2> SUFFICES ASSUME pc = "reading" PROVE ReadingInv'
    BY <1>1 DEF ReadingInv
  <2>1. PICK call : call = calls[at]
    OBVIOUS
  <2>2. CallReads(call)
    BY <2>1, CallIs
  <2>3. PICK later : later = live'
    OBVIOUS
  <2>4. PICK now : now = Live'
    OBVIOUS
  <2>5. later = [ever |-> live.ever \cup now, always |-> live.always \cap now]
    BY <1>1, <2>3, <2>4
  <2>6. later.ever = live.ever \cup now /\ later.always = live.always \cap now
    BY <2>5
  <2>7. Spans(live)'
    <3>1. live'.always \subseteq Live' /\ Live' \subseteq live'.ever
      BY <2>3, <2>4, <2>6
    <3> QED
      BY <3>1 DEF Spans
  <2>8. Reading(live, call, got, left) => Reading(later, call, got, left)
    BY <2>6, LaterReading
  <2>9. got'.raised \/ Reading(live, calls[at], got, left)'
    BY <1>2, <1>3, <2>1, <2>2, <2>3, <2>8, ReadingNext DEF CallReads
  <2> QED
    BY <1>2, <1>3, <2>1, <2>2, <2>7, <2>9 DEF ReadingInv, CallReads, SameTests
<1> QED
  BY <1>4, <1>5, <1>6 DEF ReadInv

LEMMA StutterReads == ASSUME ReadInv, UNCHANGED vars PROVE ReadInv'
<1>1. UNCHANGED <<pc, ledger>> /\ UNCHANGED setting /\ UNCHANGED source /\ UNCHANGED turn /\ UNCHANGED reading
  BY DEF vars
<1>2. UNCHANGED <<pc, ledger, planned, index, found, db, live, calls, at, left, got>> /\ UNCHANGED request
  BY <1>1 DEF setting, source, turn, reading
<1>3. Session /\ SameTests
  BY <1>1, <1>2, SettingIs
<1>4. ScopeInv' /\ ShortInv' /\ OfferInv' /\ CallsInv'
  BY <1>2 DEF ReadInv, ScopeInv, Held, ShortInv, Recalled, OfferInv, Offered, CallsInv
<1>5. Spans(live)' <=> Spans(live)
  BY <1>2 DEF Spans, Live
<1>6. Reading(live, calls[at], got, left) => Reading(live, calls[at], got, left)'
  BY <1>2, <1>3, ReadingNext
<1>7. ReadingInv'
  BY <1>2, <1>3, <1>5, <1>6 DEF ReadInv, ReadingInv, SameTests
<1> QED
  BY <1>4, <1>7 DEF ReadInv

-----------------------------------------------------------------------------
(* A call is done.                                                         *)

\* Related nodes are hops to collections of the index.
LEMMA RelatedOffer ==
  ASSUME Held, Shelved(db), IsDatabase(db), Coherent(index), IsIndex(index), NEW origins, IsList(origins),
         NEW words, IsFiniteSet(words), NEW h \in ToSet(Related(index, db, origins, words))
  PROVE  Offered({h._id})
<1>1. PICK o \in ToSet(origins) : \E p \in ToSet(index.plans) : \E m \in ToSet(Members(index, db, o)) :
        p.coll = o.coll /\ h = HopNode(index, db, p, m)
  BY RelatedIs DEF Binds
<1>2. PICK p \in ToSet(index.plans) : \E m \in ToSet(Members(index, db, o)) :
        p.coll = o.coll /\ h = HopNode(index, db, p, m)
  BY <1>1
<1>3. PICK m \in ToSet(Members(index, db, o)) : h = HopNode(index, db, p, m)
  BY <1>2
<1>4. h._id = Hop(p.to, p.to_field, Value(m, p.field))
  BY <1>3, HopNodeIs
<1>5. h._id[1] = "hop" /\ h._id[2] = p.to
  BY <1>4 DEF Hop
<1>6. p.to \in index.collections
  BY DEF Coherent
<1> QED
  BY <1>5, <1>6 DEF Offered

\* The nodes of a search are nodes of the index.
LEMMA HitsOffer ==
  ASSUME Coherent(index), IsIndex(index), NEW call, IsCall(call), NEW hits, hits = SearchHits(index, call),
         NEW n \in ToSet([k \in DOMAIN hits |-> BriefNode(hits[k])])
  PROVE  \E m \in ToSet(hits) : m \in ToSet(index.nodes) /\ n._id = m._id /\ Offered({n._id})
<1>1. PICK k \in DOMAIN hits : n = BriefNode(hits[k])
  BY DEF ToSet
<1>2. hits[k] \in ToSet(hits) /\ ToSet(hits) \subseteq ToSet(index.nodes)
  BY SearchHitsPart DEF ToSet, IsCall
<1>3. n._id = hits[k]._id
  BY <1>1 DEF BriefNode
<1>4. hits[k]._id \in NodeIds(index) /\ hits[k]._id[1] # "hop"
  BY <1>2 DEF NodeIds, Coherent, ToSet
<1> QED
  BY <1>2, <1>3, <1>4 DEF Offered

LEMMA ResultOffers ==
  ASSUME NEW call, CallReads(call), NEW r, r = Result(index, db, call, got)
  PROVE  \A n \in ToSet(r.nodes) \cup ToSet(r.related) : Offered({n._id})
<1>1. ToSet(<<>>) = {}
  BY EmptyIsList DEF ToSet
<1>2. IsCall(call) /\ IsFiniteSet(call.words) /\ IsGot(got) /\ Coherent(index) /\ IsIndex(index)
  BY DEF CallReads, IsCall
<1>3. \A origins, words : IsList(origins) /\ IsFiniteSet(words) =>
        \A h \in ToSet(Related(index, db, origins, words)) : Offered({h._id})
  BY RelatedOffer DEF CallReads
<1>4. CASE got.raised
  BY <1>1, <1>4 DEF Result, Error
<1>5. CASE ~ got.raised /\ call.tool = "search_information"
  <2>1. PICK hits : hits = SearchHits(index, call)
    OBVIOUS
  <2>2. IsList(hits) /\ IsList(OriginsFor(got.documents))
    BY <1>2, <2>1, SearchHitsList, OriginsForIs DEF IsGot, IsCall
  <2>3. /\ r.nodes = [k \in DOMAIN hits |-> BriefNode(hits[k])]
        /\ r.related = Related(index, db, hits \o OriginsFor(got.documents), call.words)
    BY <1>5, <2>1 DEF Result, SearchResult, Error
  <2>4. IsList(hits \o OriginsFor(got.documents))
    BY <2>2, Concatenated
  <2>5. \A n \in ToSet([k \in DOMAIN hits |-> BriefNode(hits[k])]) : Offered({n._id})
    BY <1>2, <2>1, HitsOffer
  <2>6. \A n \in ToSet(r.nodes) : Offered({n._id})
    BY <2>3, <2>5
  <2>7. \A h \in ToSet(r.related) : Offered({h._id})
    BY <1>2, <1>3, <2>3, <2>4
  <2> QED
    BY <2>6, <2>7
<1>6. CASE ~ got.raised /\ call.tool = "retrieve_evidence"
  <2>1. r.nodes = <<>> /\ r.related = Related(index, db, got.origins, call.words)
    BY <1>6 DEF Result, ReadResult, Error
  <2> QED
    BY <1>1, <1>2, <1>3, <2>1 DEF IsGot
<1>7. CASE ~ got.raised /\ Queries(call)
  <2>1. r.nodes = <<>> /\ r.related = IF Len(got.documents) > 3 THEN <<>> ELSE Related(index, db, OriginsFor(got.documents), {})
    BY <1>7 DEF Result, QueryResult, Error, Queries
  <2>2. IsList(OriginsFor(got.documents)) /\ IsFiniteSet({})
    BY <1>2, OriginsForIs, FS_EmptySet DEF IsGot
  <2> QED
    BY <1>1, <1>3, <2>1, <2>2
<1> QED
  BY <1>4, <1>5, <1>6, <1>7 DEF Queries

LEMMA RecordReads == ASSUME IInv, ReadInv, Record PROVE ReadInv'
<1>1. PICK call : call = calls[at]
  OBVIOUS
<1>2. PICK r : r = Result(index, db, call, got)
  OBVIOUS
<1>3. /\ pc = "reading" /\ UNCHANGED setting /\ db' = db /\ calls' = calls /\ planned' = planned
      /\ ledger' = Absorb(ledger, r)
  BY <1>1, <1>2 DEF Record
<1>4. Session
  BY <1>3, SettingIs
<1>5. pc' \in {"calls", "raised"}
  BY DEF Record, Heard
<1>6. ScopeInv' /\ ShortInv'
  BY <1>3, <1>4, <1>5, SessionKeeps DEF Asking
<1>7. CallsInv'
  BY <1>3 DEF ReadInv, CallsInv
<1>8. ReadingInv'
  BY <1>5 DEF ReadingInv
<1>9. OfferInv'
  <2>1. CallReads(call)
    BY <1>1, <1>3, CallIs
  <2>2. \A n \in ToSet(r.nodes) \cup ToSet(r.related) : Offered({n._id})
    BY <1>2, <2>1, ResultOffers
  <2>3. ledger'.nodes = ledger.nodes \cup {n._id : n \in ToSet(r.nodes) \cup ToSet(r.related)}
    BY <1>3 DEF Absorb
  <2>4. Offered(ledger'.nodes) /\ Offered(planned.nodes)
    BY <2>1, <2>2, <2>3 DEF CallReads, Offered
  <2> QED
    BY <1>3, <1>4, <1>5, <2>4 DEF OfferInv, Offered, Session, Before
<1> QED
  BY <1>6, <1>7, <1>8, <1>9 DEF ReadInv

LEMMA NextReads == ASSUME IInv, ReadInv, Next PROVE ReadInv'
<1>1. CASE Indexing
  BY <1>1, BuildIndexReads, ListSourceReads, CountSourceReads, SaveIndexReads DEF Indexing
<1>2. CASE Step
  BY <1>2, AskReads, QuietReads, ReplyCallsReads, DispatchReads, ReadReads, RecordReads, FinishReads DEF Step
<1>3. CASE EditSource
  BY <1>3, EditSourceReads
<1> QED
  BY <1>1, <1>2, <1>3 DEF Next

\* What a call reads, and what the model is offered, agree with the index and with the
\* database over the time of the call.
THEOREM ReadInvHolds == Spec => []ReadInv
<1>1. Init => ReadInv
  BY StartReads
<1>2. IInv /\ ReadInv /\ [Next]_vars => ReadInv'
  BY NextReads, StutterReads
<1> QED
  BY <1>1, <1>2, InvHolds, PTL DEF Spec

-----------------------------------------------------------------------------
(* What is recorded accounts for the source.                               *)

\* A call that is done: nothing is left to read, or there is no room.
Ended(call, r) ==
  /\ CallReads(call) /\ (left = <<>> \/ Full(call, got)) /\ r = Result(index, db, call, got)
  /\ \A f \in ToSet(found) : Recalled(f)

\* A call that raised has no documents; another has those it read.
LEMMA EndedIs ==
  ASSUME NEW call, NEW r, Ended(call, r)
  PROVE  \/ r = Error
         \/ /\ r.documents = got.documents /\ Reading(live, call, got, left) /\ ~ got.raised
            /\ call.tool = "search_information" => r.kind = "search"
            /\ call.tool = "retrieve_evidence" => r.kind = "read" /\ r.missing = got.missing /\ r.hints = got.hints
            /\ Queries(call) => r.kind = "query"
<1>1. CASE got.raised
  BY <1>1 DEF Ended, Result
<1>2. CASE ~ got.raised
  <2>1. Reading(live, call, got, left)
    BY <1>2 DEF Ended, CallReads
  <2>2. call.tool = "search_information" => r.kind = "search" /\ r.documents = got.documents
    BY <1>2 DEF Ended, Result, SearchResult, Error
  <2>3. call.tool = "retrieve_evidence" =>
          r.kind = "read" /\ r.documents = got.documents /\ r.missing = got.missing /\ r.hints = got.hints
    BY <1>2 DEF Ended, Result, ReadResult, Error
  <2>4. Queries(call) => r.kind = "query" /\ r.documents = got.documents
    BY <1>2 DEF Ended, Result, QueryResult, Error, Queries
  <2> QED
    BY <1>2, <2>1, <2>2, <2>3, <2>4 DEF Queries
<1> QED
  BY <1>1, <1>2

LEMMA ErrorIsSound ==
  ASSUME NEW call, IsCall(call)
  PROVE  SoundRead(call, Error, live) /\ CompleteRead(call, Error, live) /\ InsideShortRead(Error)
<1>1. Error.documents = <<>> /\ Error.kind = "error" /\ ToSet(<<>>) = {} /\ Len(<<>>) = 0
  BY EmptyIsList DEF Error, ToSet
<1>2. Cardinality({}) = 0 /\ Cap(call) \in Nat
  BY FS_EmptySet, CapIsNatural DEF IsCall
<1>3. 0 <= Cap(call)
  BY <1>2
<1>4. SoundRead(call, Error, live)
  BY <1>1, <1>2, <1>3 DEF SoundRead, Gone
<1>5. CompleteRead(call, Error, live)
  BY <1>1 DEF CompleteRead
<1>6. InsideShortRead(Error)
  BY <1>1 DEF InsideShortRead
<1> QED
  BY <1>4, <1>5, <1>6

\* A reference says what of a document the scope asks for.
LEMMA RefIs ==
  ASSUME NEW x, NEW y, RefOf(x) = RefOf(y)
  PROVE  x.coll = y.coll /\ x.doc.id = y.doc.id /\ (InScope(x) <=> InScope(y))
<1>1. RefOf(x).coll = x.coll /\ RefOf(x).id = x.doc.id /\ RefOf(y).coll = y.coll /\ RefOf(y).id = y.doc.id
  BY DEF RefOf, Ref
<1> QED
  BY <1>1 DEF InScope

LEMMA ReadIsSound ==
  ASSUME NEW call, NEW r, Ended(call, r)
  PROVE  SoundRead(call, r, live) /\ InsideShortRead(r)
<1>1. CASE r = Error
  BY <1>1, ErrorIsSound DEF Ended, CallReads
<1>2. CASE r # Error
  <2>1. /\ r.documents = got.documents /\ Reading(live, call, got, left)
        /\ (call.tool = "search_information" => r.kind = "search")
        /\ (call.tool = "retrieve_evidence" => r.kind = "read")
    BY <1>2, EndedIs
  <2>2. PICK docs : docs = ToSet(got.documents)
    OBVIOUS
  <2>3. IsList(got.documents) /\ Distinct(got.documents) /\ Len(got.documents) <= Cap(call)
    BY <2>1 DEF Reading, Within, IsGot
  <2>4. Cardinality(docs) = Len(got.documents)
    BY <2>2, <2>3, DistinctCount
  <2>5. \A ref \in docs : \E x \in live.ever : RefOf(x) = ref /\ Permitted(call, x) /\ (Queries(call) => Satisfies(x, call))
    BY <2>1, <2>2 DEF Reading
  <2>6. Gone(docs, live.ever) = {}
    BY <2>5 DEF Gone
  <2>7. ASSUME NEW x \in live.ever, RefOf(x) \in docs
        PROVE  InScope(x) \/ (~ validating /\ call.tool = "retrieve_evidence" /\ x.coll \notin index.collections)
    <3>1. PICK y \in live.ever : RefOf(y) = RefOf(x) /\ Permitted(call, y)
      BY <2>5, <2>7
    <3> QED
      BY <3>1, RefIs DEF Permitted
  <2>8. r.kind = "query" => \A ref \in docs : \E x \in live.ever : RefOf(x) = ref /\ Satisfies(x, call)
    BY <2>1, <2>5 DEF Queries
  <2>9. SoundRead(call, r, live)
    BY <2>1, <2>2, <2>3, <2>4, <2>6, <2>7, <2>8 DEF SoundRead
  <2>10. ASSUME NEW ref \in docs, NEW f \in ToSet(found), f.coll = ref.coll, f.steady PROVE f.whole \/ ref.id \in f.ids
    <3>1. PICK x \in live.ever : RefOf(x) = ref /\ Permitted(call, x)
      BY <2>5
    <3>2. x.coll = ref.coll /\ x.doc.id = ref.id
      BY <3>1 DEF RefOf, Ref
    <3>3. f.whole \/ (f.coll \in index.collections /\ ~ index.scope[f.coll].complete /\ index.scope[f.coll].ids = f.ids)
      BY <2>10 DEF Ended, Recalled
    <3> QED
      BY <2>10, <3>1, <3>2, <3>3 DEF Permitted, InScope
  <2>11. InsideShortRead(r)
    BY <2>1, <2>2, <2>10 DEF InsideShortRead
  <2> QED
    BY <2>9, <2>11
<1> QED
  BY <1>1, <1>2

LEMMA SteadyIs ==
  ASSUME NEW seen, NEW x
  PROVE  x \in Steady(seen) <=> x \in seen.always /\ Findable(x)
BY DEF Steady, Findable

\* The three kinds of call, when they are done.
LEMMA RetrieveEnds ==
  ASSUME NEW call, NEW r, Ended(call, r), r # Error, r.kind = "read"
  PROVE  CompleteRead(call, r, live)
<1>1. /\ r.documents = got.documents /\ Reading(live, call, got, left) /\ ~ got.raised
      /\ call.tool = "retrieve_evidence" /\ r.missing = got.missing /\ r.hints = got.hints
  BY EndedIs DEF Queries
<1>2. Retrieving(live, call, got, left) /\ IsList(got.missing) /\ IsList(got.hints)
  BY <1>1 DEF Reading, Within, IsGot
<1>3. left = <<>> \/ Len(got.documents) >= Cap(call)
  BY <1>1 DEF Ended, Full
<1>4. ToSet(<<>>) = {}
  BY EmptyIsList DEF ToSet
<1>5. ASSUME NEW id \in ToSet(Upto(call.ids, 8)), NEW steady, steady = {x \in Steady(live) : StandsFor(id, call, x)}
      PROVE  /\ Contains(r.missing, id) => (steady = {} /\ (validating => id[1] = "hop"))
             /\ steady = {} \/ Len(r.documents) >= Cap(call) \/ Contains(r.hints, id)
                  \/ \E x \in live.ever : StandsFor(id, call, x) /\ RefOf(x) \in ToSet(r.documents)
  <2>1. Absent(live, call, id) => steady = {}
    BY <1>5, SteadyIs DEF Absent
  <2>2. Contains(r.missing, id) => Absent(live, call, id) /\ (validating => id[1] = "hop")
    BY <1>1, <1>2, ContainsIs DEF Retrieving
  <2>3. left = <<>> => Resolved(live, call, got, id)
    BY <1>2, <1>4 DEF Retrieving
  <2>4. Contains(r.hints, id) <=> id \in ToSet(got.hints)
    BY <1>1, <1>2, ContainsIs
  <2> QED
    BY <1>1, <1>3, <2>1, <2>2, <2>3, <2>4 DEF Resolved
<1>6. CompleteRead(call, r, live)
  BY <1>5 DEF CompleteRead
<1> QED
  BY <1>6

LEMMA SearchEnds ==
  ASSUME NEW call, NEW r, Ended(call, r), r # Error, r.kind = "search"
  PROVE  CompleteRead(call, r, live)
<1>1. /\ r.documents = got.documents /\ Reading(live, call, got, left) /\ ~ got.raised
      /\ call.tool = "search_information"
  BY EndedIs DEF Queries
<1>2. Searching(live, call, got, left) /\ IsList(got.documents) /\ Distinct(got.documents) /\ call.limit \in Nat
  BY <1>1 DEF Reading, Within, IsGot
<1>3. left = <<>> \/ Len(got.documents) >= Cap(call)
  BY <1>1 DEF Ended, Full
<1>4. ToSet(<<>>) = {}
  BY EmptyIsList DEF ToSet
<1>5. PICK listed : listed = NamedIn(call)
  OBVIOUS
<1>6. ASSUME ~ (Cardinality(listed) > Cap(call)), NEW x \in Steady(live), RefOf(x) \in listed, ById(x)
      PROVE  RefOf(x) \in ToSet(r.documents)
  <2>1. ToSet(Picks(call)) = listed /\ IsFiniteSet(listed)
    BY <1>2, <1>5, <1>6, NamedReadsIs DEF Ended, CallReads
  <2>2. CASE Len(got.documents) >= Cap(call)
    <3>1. PICK docs : docs = ToSet(got.documents)
      OBVIOUS
    <3>2. docs \subseteq listed
      BY <1>2, <2>1, <3>1 DEF Searching
    <3>3. IsFiniteSet(docs) /\ Cardinality(docs) = Len(got.documents)
      BY <1>2, <3>1, DistinctCount
    <3>4. Cardinality(listed) \in Nat /\ Cardinality(docs) \in Nat /\ Cap(call) \in Nat
      BY <1>2, <2>1, <3>3, FS_CardinalityType, CapIsNatural
    <3>5. Cardinality(docs) >= Cardinality(listed)
      BY <1>6, <2>2, <3>3, <3>4
    <3>6. docs = listed
      <4>1. Cardinality(docs) <= Cardinality(listed) /\ (Cardinality(listed) = Cardinality(docs) => listed = docs)
        BY <2>1, <3>2, FS_Subset
      <4> QED
        BY <3>4, <3>5, <4>1
    <3> QED
      BY <1>1, <1>6, <3>1, <3>6
  <2>3. CASE left = <<>> /\ ~ (Len(got.documents) >= Cap(call))
    <3>1. \A p \in ToSet(Picks(call)) : \A y \in live.always : Findable(y) /\ ById(y) /\ RefOf(y) = p => p \in ToSet(got.documents)
      BY <1>2, <1>4, <2>3 DEF Searching
    <3> QED
      BY <1>1, <1>6, <2>1, <3>1, SteadyIs
  <2> QED
    BY <1>3, <2>2, <2>3
<1> QED
  BY <1>5, <1>6 DEF CompleteRead, NamedIn

LEMMA QueryEnds ==
  ASSUME NEW call, NEW r, Ended(call, r), r # Error, r.kind = "query"
  PROVE  CompleteRead(call, r, live)
<1>1. r.documents = got.documents /\ Reading(live, call, got, left) /\ ~ got.raised /\ Queries(call)
  BY EndedIs DEF Queries
<1>2. Querying(live, call, got, left)
  BY <1>1 DEF Reading
<1>3. left = <<>> \/ Len(got.documents) >= Cap(call)
  BY <1>1 DEF Ended, Full
<1>4. (\A c \in call.filter.clauses : c.op = "eq") =>
        Len(r.documents) >= Cap(call) \/ \A x \in Steady(live) : Satisfies(x, call) => RefOf(x) \in ToSet(r.documents)
  BY <1>1, <1>2, <1>3, SteadyIs DEF Querying
<1> QED
  BY <1>4 DEF CompleteRead

LEMMA ReadIsComplete ==
  ASSUME NEW call, NEW r, Ended(call, r)
  PROVE  CompleteRead(call, r, live)
<1>1. CASE r = Error
  BY <1>1, ErrorIsSound DEF Ended, CallReads
<1>2. CASE r # Error
  <2>1. r.kind \in {"read", "search", "query"}
    BY <1>2, EndedIs DEF Queries
  <2> QED
    BY <1>2, <2>1, RetrieveEnds, SearchEnds, QueryEnds
<1> QED
  BY <1>1, <1>2

\* The document a hop is bound to is in view.
LEMMA DocumentInView ==
  ASSUME NEW call, NEW r, Ended(call, r), r # Error, NEW o, Gathers(o, ToSet(r.documents)),
         NEW x, x.coll = o.coll, x.doc.id \in ToSet(o.ids)
  PROVE  InView(call, r, x)
<1>1. r.documents = got.documents /\ Reading(live, call, got, left)
  BY EndedIs
<1>2. IsList(got.documents)
  BY <1>1 DEF Reading, Within, IsGot
<1>3. PICK ref \in ToSet(got.documents) : ref.coll = x.coll /\ ref.id = x.doc.id
  BY <1>1 DEF Gathers, ToSet
<1>4. PICK y : RefOf(y) = ref
  BY <1>1 DEF Reading
<1>5. RefOf(x) = ref
  BY <1>3, <1>4 DEF RefOf, Ref
<1> QED
  BY <1>1, <1>2, <1>3, <1>5, ContainsIs DEF InView

LEMMA HitInView ==
  ASSUME NEW call, NEW r, Ended(call, r), NEW hits, hits = SearchHits(index, call),
         r.nodes = [k \in DOMAIN hits |-> BriefNode(hits[k])], NEW o \in ToSet(hits),
         NEW x, x.coll = o.coll, x.doc.id \in ToSet(o.ids)
  PROVE  InView(call, r, x) /\ IsList(o.ids)
<1>1. o \in ToSet(index.nodes)
  BY SearchHitsPart DEF Ended, CallReads, IsCall
<1>2. IsList(o.ids)
  BY <1>1 DEF Ended, CallReads, Coherent
<1>3. PICK k \in DOMAIN hits : o = hits[k]
  BY DEF ToSet
<1>4. r.nodes[k] = BriefNode(o) /\ k \in DOMAIN r.nodes
  BY <1>3
<1>5. r.nodes[k] \in ToSet(r.nodes) /\ r.nodes[k]._id = o._id
  BY <1>4 DEF ToSet, BriefNode
<1> QED
  BY <1>1, <1>2, <1>5, ContainsIs DEF InView

\* A card that was read is asked for, and stands for its members.
LEMMA CardInView ==
  ASSUME NEW call, NEW r, Ended(call, r), NEW id \in ToSet(call.ids), id \in NodeIds(index),
         NEW o, o = NodeOf(index, id), ~ (Len(o.ids) > PrefetchLimit),
         NEW x, x.coll = o.coll, x.doc.id \in ToSet(o.ids), ById(x)
  PROVE  InView(call, r, x)
<1>1. o \in ToSet(index.nodes) /\ o._id = id
  BY NodeOfIs DEF Ended, CallReads, IsIndex
<1>2. id[1] # "hop" /\ IsList(o.ids)
  BY <1>1 DEF Ended, CallReads, Coherent
<1>3. Contains(o.ids, x.doc.id)
  BY <1>2, ContainsIs
<1>4. StandsFor(id, call, x)
  BY <1>2, <1>3 DEF StandsFor
<1> QED
  BY <1>4 DEF InView

\* Where a call looks for related nodes.
From(call, r, origins) ==
  \A o \in ToSet(origins) :
    IsList(o.ids) /\ \A x : x.coll = o.coll /\ x.doc.id \in ToSet(o.ids) /\ ById(x) /\ ~ (Len(o.ids) > PrefetchLimit)
                              => InView(call, r, x)

LEMMA OriginsInView ==
  ASSUME NEW call, NEW r, Ended(call, r), r # Error
  PROVE  \/ r.related = <<>>
         \/ \E origins, words : /\ IsList(origins) /\ IsFiniteSet(words)
                                /\ r.related = Related(index, db, origins, words) /\ From(call, r, origins)
<1>1. r.documents = got.documents /\ Reading(live, call, got, left) /\ ~ got.raised
  BY EndedIs
<1>2. IsList(got.documents) /\ IsList(got.origins) /\ IsCall(call) /\ IsFiniteSet(call.words)
  BY <1>1 DEF Reading, Within, IsGot, Ended, CallReads, IsCall
<1>3. PICK own : own = OriginsFor(got.documents)
  OBVIOUS
<1>4. IsList(own) /\ \A o \in ToSet(own) : Gathers(o, ToSet(r.documents))
  BY <1>1, <1>2, <1>3, OriginsForIs
<1>5. From(call, r, own)
  BY <1>4, DocumentInView DEF From, Gathers
<1>6. CASE call.tool = "search_information"
  <2>1. PICK hits : hits = SearchHits(index, call)
    OBVIOUS
  <2>2. /\ r.nodes = [k \in DOMAIN hits |-> BriefNode(hits[k])]
        /\ r.related = Related(index, db, hits \o own, call.words)
    BY <1>1, <1>3, <1>6, <2>1 DEF Ended, Result, SearchResult, Error
  <2>3. IsList(hits)
    BY <1>2, <2>1, SearchHitsList DEF Ended, CallReads, IsCall
  <2>4. IsList(hits \o own) /\ ToSet(hits \o own) = ToSet(hits) \cup ToSet(own)
    BY <1>4, <2>3, Concatenated, ConcatenatedSet
  <2>5. \A o \in ToSet(hits) : IsList(o.ids)
    <3>1. ToSet(hits) \subseteq ToSet(index.nodes)
      BY <1>2, <2>1, SearchHitsPart DEF Ended, CallReads, IsCall
    <3> QED
      BY <3>1 DEF Ended, CallReads, Coherent
  <2>6. \A o \in ToSet(hits) : \A x : x.coll = o.coll /\ x.doc.id \in ToSet(o.ids) => InView(call, r, x)
    BY <2>1, <2>2, HitInView
  <2>7. From(call, r, hits \o own)
    BY <1>5, <2>4, <2>5, <2>6 DEF From
  <2> QED
    BY <1>2, <2>2, <2>4, <2>7
<1>7. CASE call.tool = "retrieve_evidence"
  <2>1. r.related = Related(index, db, got.origins, call.words)
    BY <1>1, <1>7 DEF Ended, Result, ReadResult, Error
  <2>2. \A o \in ToSet(got.origins) : Shown(o, ToSet(r.documents), ToSet(call.ids))
    BY <1>1, <1>7 DEF Reading, Retrieving
  <2>3. ASSUME NEW o \in ToSet(got.origins), NEW x, x.coll = o.coll, x.doc.id \in ToSet(o.ids), ById(x),
               ~ (Len(o.ids) > PrefetchLimit)
        PROVE  InView(call, r, x)
    <3>1. CASE \A k \in DOMAIN o.ids : [coll |-> o.coll, id |-> o.ids[k]] \in ToSet(r.documents)
      <4>1. PICK k \in DOMAIN o.ids : x.doc.id = o.ids[k]
        BY <2>3 DEF ToSet
      <4>2. RefOf(x) \in ToSet(r.documents)
        BY <2>3, <3>1, <4>1 DEF RefOf, Ref
      <4> QED
        BY <1>1, <1>2, <4>2, ContainsIs DEF InView
    <3>2. CASE \E id \in ToSet(call.ids) : id \in NodeIds(index) /\ o = NodeOf(index, id)
      BY <2>3, <3>2, CardInView
    <3> QED
      BY <2>2, <3>1, <3>2 DEF Shown
  <2>4. From(call, r, got.origins)
    BY <2>2, <2>3 DEF From, Shown
  <2> QED
    BY <1>2, <2>1, <2>4
<1>8. CASE Queries(call)
  <2>1. r.related = IF Len(got.documents) > 3 THEN <<>> ELSE Related(index, db, own, {})
    BY <1>1, <1>3, <1>8 DEF Ended, Result, QueryResult, Error, Queries
  <2> QED
    BY <1>4, <1>5, <2>1, FS_EmptySet
<1> QED
  BY <1>6, <1>7, <1>8 DEF Queries

\* What HopsHold says of one related node.
HopHolds(call, r, h) ==
  /\ \E p \in ToSet(index.plans) : \E x \in live.ever :
       /\ x.coll = p.coll /\ h._id = Hop(p.to, p.to_field, Value(x.doc, p.field))
       /\ InView(call, r, x)
  /\ \A id \in ToSet(h.ids) : \E x \in live.ever :
       x.coll = h.coll /\ x.doc.id = id /\ InScope(x) /\ Value(x.doc, h._id[3]) = h._id[4]
  /\ (\A p \in ToSet(index.plans) : Joins(p, h._id)) /\ Len(h.ids) < 8 =>
       \A x \in Steady(live) :
         x.coll = h.coll /\ Value(x.doc, h._id[3]) = h._id[4] => Contains(h.ids, x.doc.id)

LEMMA RelatedHold ==
  ASSUME NEW call, NEW r, Ended(call, r), NEW h \in ToSet(r.related)
  PROVE  HopHolds(call, r, h)
<1>1. ToSet(<<>>) = {}
  BY EmptyIsList DEF ToSet
<1>2. r # Error /\ r.related # <<>>
  BY <1>1 DEF Error
<1>3. PICK origins : \E words : /\ IsList(origins) /\ IsFiniteSet(words)
                                /\ r.related = Related(index, db, origins, words) /\ From(call, r, origins)
  BY <1>2, OriginsInView
<1>4. PICK words : /\ IsList(origins) /\ IsFiniteSet(words)
                   /\ r.related = Related(index, db, origins, words) /\ From(call, r, origins)
  BY <1>3
<1>5. Held /\ Shelved(db) /\ IsDatabase(db) /\ Coherent(index) /\ IsIndex(index) /\ live.always \subseteq Live /\ Live \subseteq live.ever
  BY DEF Ended, CallReads, Spans
<1>6. Binds(index, db, origins, h)
  BY <1>4, <1>5, RelatedIs
<1>7. PICK o \in ToSet(origins) : \E p \in ToSet(index.plans) : \E m \in ToSet(Members(index, db, o)) :
        p.coll = o.coll /\ h = HopNode(index, db, p, m)
  BY <1>6 DEF Binds
<1>8. PICK p \in ToSet(index.plans) : \E m \in ToSet(Members(index, db, o)) :
        p.coll = o.coll /\ h = HopNode(index, db, p, m)
  BY <1>7
<1>9. PICK m \in ToSet(Members(index, db, o)) : p.coll = o.coll /\ h = HopNode(index, db, p, m)
  BY <1>8
<1>10. PICK x : x = In(o.coll, m)
  OBVIOUS
<1>11. IsList(o.ids)
  BY <1>4 DEF From
<1>12. x \in Live /\ x.coll = o.coll /\ x.doc = m /\ m.id \in ToSet(o.ids) /\ ById(x) /\ ~ (Len(o.ids) > PrefetchLimit)
  BY <1>5, <1>9, <1>10, <1>11, MemberIs
<1>13. InView(call, r, x)
  BY <1>4, <1>12 DEF From
<1>14. /\ h._id = Hop(p.to, p.to_field, Value(m, p.field)) /\ h.coll = p.to
       /\ \A id \in ToSet(h.ids) : \E y \in Live :
            y.coll = h.coll /\ y.doc.id = id /\ InScope(y) /\ Value(y.doc, h._id[3]) = h._id[4]
       /\ Joins(p, h._id) /\ Len(h.ids) < 8 =>
            \A y \in Live : Findable(y) /\ y.coll = h.coll /\ Value(y.doc, h._id[3]) = h._id[4] => Contains(h.ids, y.doc.id)
  <2>1. h = HopNode(index, db, p, m) /\ Held /\ Shelved(db) /\ Coherent(index)
    BY <1>5, <1>9
  <2> QED
    BY ONLY <2>1, HopNodeIs, p \in ToSet(index.plans)
<1>15. \E q \in ToSet(index.plans) : \E y \in live.ever :
         y.coll = q.coll /\ h._id = Hop(q.to, q.to_field, Value(y.doc, q.field)) /\ InView(call, r, y)
  BY <1>5, <1>9, <1>12, <1>13, <1>14
<1>16. \A id \in ToSet(h.ids) : \E y \in live.ever :
         y.coll = h.coll /\ y.doc.id = id /\ InScope(y) /\ Value(y.doc, h._id[3]) = h._id[4]
  BY <1>5, <1>14
<1>17. (\A q \in ToSet(index.plans) : Joins(q, h._id)) /\ Len(h.ids) < 8 =>
         \A y \in Steady(live) :
           y.coll = h.coll /\ Value(y.doc, h._id[3]) = h._id[4] => Contains(h.ids, y.doc.id)
  BY <1>5, <1>14, SteadyIs
<1> QED
  BY <1>15, <1>16, <1>17 DEF HopHolds

LEMMA CallEnds ==
  ASSUME IInv, ReadInv, Record
  PROVE  Ended(Last(results').call, Last(results').result)
<1>1. PICK call : call = calls[at]
  OBVIOUS
<1>2. PICK r : r = Result(index, db, call, got)
  OBVIOUS
<1>3. PICK e : e = [id |-> CallId(at), call |-> call, result |-> r]
  OBVIOUS
<1>4. pc = "reading" /\ (left = <<>> \/ Full(call, got)) /\ results' = Append(results, e)
  BY <1>1, <1>2, <1>3 DEF Record
<1>5. IsList(results)
  BY <1>4 DEF IInv, GatheredInv, AreResults
<1>6. Last(results') = e
  <2>1. PICK n \in Nat : n = Len(results)
    BY <1>5, ListIs
  <2>2. Len(results') = n + 1 /\ results'[n + 1] = e
    BY <1>4, <1>5, <2>1, Appended
  <2> QED
    BY <2>2 DEF Last
<1>7. e.call = call /\ e.result = r
  BY <1>3
<1>8. CallReads(call)
  BY <1>1, <1>4, CallIs
<1>9. \A f \in ToSet(found) : Recalled(f)
  BY <1>4 DEF ReadInv, ShortInv, Asking
<1> QED
  BY <1>2, <1>4, <1>6, <1>7, <1>8, <1>9 DEF Ended

\* No other step records a result.
LEMMA OnlyRecordAdds ==
  ASSUME IInv, Next, Len(results') > Len(results)
  PROVE  Record
<1>1. pc \notin {"done", "raised"}
  BY DEF Next, Indexing, Step, BuildIndex, ListSource, CountSource, SaveIndex, Ask, Load, Prompt, TopOfLoop, ReplyCalls,
         ReplyText, Dispatch, Read, Record, EndTurn, Finish, EditSource
<1>2. Len(results) \in Nat
  BY <1>1, ListIs DEF IInv, GatheredInv, AreResults
<1>3. results' # results
  BY <1>2
<1>4. ~ Indexing
  BY <1>3 DEF Indexing, BuildIndex, ListSource, CountSource, SaveIndex, Rest
<1>5. ~ (Ask \/ Load \/ Prompt \/ TopOfLoop \/ ReplyCalls \/ ReplyText)
  BY <1>3 DEF Ask, Load, Prompt, TopOfLoop, ReplyCalls, ReplyText
<1>6. ~ (Dispatch \/ Read \/ EndTurn \/ Finish \/ EditSource)
  BY <1>3 DEF Dispatch, Read, EndTurn, Finish, EditSource
<1> QED
  BY <1>4, <1>5, <1>6 DEF Next, Step

\* What a tool returns is true of the database over the time of the call, whatever is
\* written meanwhile, whatever the limits, the cards and the plans: documents that were
\* there, once each, in scope and within the cap, and of what was asked for and was
\* there all along at least some, or a hint; from a short reading of the source only
\* what it listed (search_information, retrieve_evidence, query_documents,
\* MongoReader.fetch and read_source).
THEOREM ReadsAreAccounted == Spec => ReadsAccounted
<1>1. ASSUME IInv, ReadInv, [Next]_vars
      PROVE  [Len(results') > Len(results) =>
                LET e == Last(results')
                IN  SoundRead(e.call, e.result, live) /\ CompleteRead(e.call, e.result, live)
                    /\ InsideShortRead(e.result)]_vars
  <2> SUFFICES ASSUME Next, Len(results') > Len(results), NEW e, e = Last(results')
               PROVE  SoundRead(e.call, e.result, live) /\ CompleteRead(e.call, e.result, live) /\ InsideShortRead(e.result)
    BY <1>1
  <2>1. Ended(e.call, e.result)
    BY <1>1, OnlyRecordAdds, CallEnds
  <2> QED
    BY <2>1, ReadIsSound, ReadIsComplete
<1> QED
  BY <1>1, InvHolds, ReadInvHolds, PTL DEF Spec, ReadsAccounted

\* Every hop that is offered is bound to a key that a document in view held, by a plan
\* of the index, and lists only documents in scope that hold it, all of them if they
\* are fewer than eight (_related).
THEOREM HopsAreBound == Spec => HopsHold
<1>1. ASSUME IInv, ReadInv, [Next]_vars
      PROVE  [Len(results') > Len(results) =>
                LET e == Last(results')
                IN  \A h \in ToSet(e.result.related) :
                      /\ \E p \in ToSet(index.plans) : \E x \in live.ever :
                           /\ x.coll = p.coll /\ h._id = Hop(p.to, p.to_field, Value(x.doc, p.field))
                           /\ InView(e.call, e.result, x)
                      /\ \A id \in ToSet(h.ids) : \E x \in live.ever :
                           x.coll = h.coll /\ x.doc.id = id /\ InScope(x) /\ Value(x.doc, h._id[3]) = h._id[4]
                      /\ (\A p \in ToSet(index.plans) : Joins(p, h._id)) /\ Len(h.ids) < 8 =>
                           \A x \in Steady(live) :
                             x.coll = h.coll /\ Value(x.doc, h._id[3]) = h._id[4] => Contains(h.ids, x.doc.id)]_vars
  <2> SUFFICES ASSUME Next, Len(results') > Len(results), NEW e, e = Last(results'), NEW h \in ToSet(e.result.related)
               PROVE  HopHolds(e.call, e.result, h)
    BY <1>1 DEF HopHolds
  <2>1. Ended(e.call, e.result)
    BY <1>1, OnlyRecordAdds, CallEnds
  <2> QED
    BY <2>1, RelatedHold
<1> QED
  BY <1>1, InvHolds, ReadInvHolds, PTL DEF Spec, HopsHold
=============================================================================
