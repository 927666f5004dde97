------------------------------ MODULE Signals ------------------------------
(***************************************************************************)
(* The pure functions of app/indexing/signals: from documents to a schema  *)
(* profile, from a profile to the claims and routes of the providers, from *)
(* those to plans, and from plans and a question to an evidence receipt.   *)
(*                                                                         *)
(* A collection is a sequence of documents, a document a function from     *)
(* fields to values.  The words of a question are the values it names.     *)
(* Where the code takes the first of a list whose order means nothing, an  *)
(* operator returns the set of what it may take.                           *)
(***************************************************************************)
EXTENDS Integers, FiniteSets, Sequences

CONSTANTS
  Field,        \* field paths; "_id" is one
  Kind,         \* [Field -> {"plain", "hinted", "reference", "nested"}]
  Normal,       \* normalize_key: what a key is called in a profile
  Type,         \* [Value -> type marker]
  OverlapPercent  \* OVERLAP_MIN

ASSUME SignalsAssumption ==
  /\ "_id" \in Field /\ Kind["_id"] = "reference" /\ Normal["_id"] = "_id"
  /\ Kind \in [Field -> {"plain", "hinted", "reference", "nested"}]
  /\ Normal \in [Field -> Field] /\ \A f \in Field : Normal[Normal[f]] = Normal[f]
  /\ OverlapPercent \in 1 .. 100

Docs(coll) == {coll[i] : i \in DOMAIN coll}
Smaller(a, b) == IF a <= b THEN a ELSE b

-----------------------------------------------------------------------------
(* Discovery, masking and the choice of text fields.                       *)

Paths(docs) == UNION {{Normal[f] : f \in DOMAIN d} : d \in docs}

\* _collection_profile over the first documents of a collection.
CollectionProfile(coll, sampleSize) ==
  LET n      == Smaller(sampleSize, Len(coll))
      sample == {coll[i] : i \in 1 .. n}
  IN  [fields    |-> [p \in Paths(sample) |->
                        UNION {{Type[d[f]] : f \in {g \in DOMAIN d : Normal[g] = p}} : d \in sample}],
       inspected |-> n,
       complete  |-> n >= Len(coll)]

Profile(db, sampleSize) == [c \in DOMAIN db |-> CollectionProfile(db[c], sampleSize)]

\* fingerprint_profile hashes names, paths and types, and nothing of the sample.
Fingerprint(profile) == [c \in DOMAIN profile |-> profile[c].fields]

FieldPaths(profile, c) == IF c \in DOMAIN profile THEN DOMAIN profile[c].fields ELSE {}

\* The strings that masked_profile leaves in the payload for the schema model.
MaskedWithExamples(profile, docs) ==       \* mutant: scalar examples are kept
  DOMAIN profile \cup UNION {FieldPaths(profile, c) : c \in DOMAIN profile}
    \cup UNION {{d[f] : f \in DOMAIN d} : d \in docs}
Masked(profile, docs) ==
  DOMAIN profile \cup UNION {FieldPaths(profile, c) : c \in DOMAIN profile}

\* assert_disclosed
Disclosed(payload, forbidden) == payload \cap forbidden = {}

\* select_text_fields: hinted string fields, or else up to three others.
TextFields(profile) ==
  [c \in DOMAIN profile |->
     LET strings == {f \in FieldPaths(profile, c) :
                       "string" \in profile[c].fields[f] /\ Kind[f] \in {"plain", "hinted"}}
         hinted  == {f \in strings : Kind[f] = "hinted"}
     IN  IF hinted # {} THEN hinted
         ELSE CHOOSE S \in SUBSET strings : Cardinality(S) = Smaller(3, Cardinality(strings))]

-----------------------------------------------------------------------------
(* What the providers say.                                                 *)

Envelope(status, claims, routes) == [status |-> status, claims |-> claims, routes |-> routes]
Degraded == Envelope("degraded", {}, {})

Claim(c, f, status) == [collection |-> c, field |-> f, status |-> status]

\* SchemaProfileProvider
Observed(profile) ==
  Envelope("ok", UNION {{Claim(c, f, "observed") : f \in FieldPaths(profile, c)} : c \in DOMAIN profile}, {})

\* SchemaLLMProvider, for a model that replied: its claims are only inferred, its
\* routes are passed on with the status it gave them.
Proposed(reply) == Envelope("ok", {Claim(x.collection, x.field, "inferred") : x \in reply.claims}, reply.routes)

Ids(coll) == {d["_id"] : d \in Docs(coll)}

\* _string_fields
Strings(coll, f) == {d[f] : d \in {e \in Docs(coll) : f \in DOMAIN e /\ Type[e[f]] = "string"}}

Route(c, f, to, status) ==
  [op |-> "hop", from |-> c, field |-> f, to |-> to, toField |-> "_id", status |-> status]

\* RelationshipProbe: the share of a field's values that are ids elsewhere.
ProbedRoutes(db) ==
  UNION {UNION {
    {Route(c, f, to, IF 100 * Cardinality(Strings(db[c], f) \cap Ids(db[to]))
                          >= OverlapPercent * Cardinality(Strings(db[c], f))
                     THEN "validated" ELSE "unreviewed")
       : to \in {t \in DOMAIN db \ {c} : Strings(db[c], f) \cap Ids(db[t]) # {}}}
    : f \in Field \ {"_id"}} : c \in DOMAIN db}

Probed(db) == Envelope("ok", {}, ProbedRoutes(db))

-----------------------------------------------------------------------------
(* Validation and plans.                                                   *)

ClaimOk(x, profile) ==
  x.collection \in DOMAIN profile /\ x.field \in FieldPaths(profile, x.collection)

RouteOkSource(x, profile) ==               \* mutant: the target is not looked at
  x.from \in DOMAIN profile /\ x.field \in FieldPaths(profile, x.from)
RouteOk(x, profile) ==
  /\ x.from \in DOMAIN profile /\ x.field \in FieldPaths(profile, x.from)
  /\ x.to \in DOMAIN profile /\ x.toField \in FieldPaths(profile, x.to)

\* _apply_judge: it drops claims by field; if it raises they are unreviewed.
Judged(claims, judge) ==
  CASE judge = "none"   -> claims
    [] judge = "raises" -> {[x EXCEPT !.status = "unreviewed"] : x \in claims}
    [] OTHER            -> {x \in claims : x.field # judge}

\* validate_signals over the envelopes of a run
Validated(profile, envelopes, judge) ==
  LET said   == UNION {e.claims : e \in envelopes}
      routes == UNION {e.routes : e \in envelopes}
  IN  [claims |-> Judged({x \in said : ClaimOk(x, profile)}, judge),
       routes |-> {x \in routes : /\ RouteOk(x, profile)
                                  /\ x.status = "validated"
                                  /\ x.op \in {"find", "count", "hop", "search_cards"}}]

\* compile_plans: counts and finds for what a profile has, hops for its routes.
Plan(op, c, f, to) == [op |-> op, collection |-> c, field |-> f, to |-> to]

CountPlans(profile) == {Plan("count", c, "", "") : c \in DOMAIN profile}

FindPlans(profile) ==
  UNION {{Plan("find", c, f, "") :
            f \in {g \in FieldPaths(profile, c) : g = "_id" \/ Kind[g] \in {"plain", "hinted"}}}
         : c \in DOMAIN profile}

HopPlans(routes) ==
  {Plan("hop", x.from, x.field, x.to) : x \in {y \in routes : y.op = "hop" /\ y.status = "validated"}}

Plans(profile, routes) == CountPlans(profile) \cup FindPlans(profile) \cup HopPlans(routes)

-----------------------------------------------------------------------------
(* investigate.  A question is [counting, mentioned, tokens, words, month]:  *)
(* collections, ids, other words and dates it names.                       *)

\* _mentioned finds only collections that the index has.
Mentioned(names, db) == names \cap DOMAIN db

HasToken(d, tokens) == \E f \in DOMAIN d : d[f] \in tokens

\* _in_month
InMonth(d, month) == \E f \in DOMAIN d : d[f] \in month

\* _match
Match(docs, tokens, month) ==
  {d \in docs : /\ tokens # {} => HasToken(d, tokens)
                /\ month # {} => InMonth(d, month)}

Hit(c, d) == [collection |-> c, doc |-> d]

\* _id_hits
IdHits(db, tokens) == UNION {{Hit(c, d) : d \in {e \in Docs(db[c]) : e["_id"] \in tokens}} : c \in DOMAIN db}

\* The documents a hop plan leads to from one document.
Targets(db, plan, d) ==
  IF plan.field \in DOMAIN d THEN {e \in Docs(db[plan.to]) : e["_id"] = d[plan.field]} ELSE {}

Hops(index) == {p \in index.plans : p.op = "hop"}

Receipt(plan, exact, collections, ids, count, absence) ==
  [plan |-> plan, exact |-> exact, collections |-> collections, ids |-> ids,
   count |-> count, absence |-> absence]

IdsOf(docs) == {d["_id"] : d \in docs}

Exact(plan, c, docs) ==
  Receipt(plan, TRUE, {c}, IdsOf(docs), Cardinality(docs), docs = {})

CountReceipts(index, q) ==
  {Exact("count", c, Match(Docs(index.documents[c]), q.tokens, q.month)) : c \in q.mentioned}

\* _hop_toward: from a named document to a mentioned collection.
HopReceipts(index, q, hits) ==
  LET leads == {l \in hits \X Hops(index) :
                  /\ l[2].collection = l[1].collection /\ l[2].to \in q.mentioned
                  /\ Targets(index.documents, l[2], l[1].doc) # {}}
  IN  {LET found == Targets(index.documents, l[2], l[1].doc)
       IN  Receipt("hop", FALSE, {h.collection : h \in hits} \cup {l[2].to}, IdsOf(found),
                   Cardinality(found), FALSE) : l \in leads}

IdReceipts(index, q, hits) ==
  {Exact("find_id", h.collection, {h.doc}) :
     h \in {x \in hits : q.mentioned # {} => x.collection \in q.mentioned}}

\* _field_hits: rows named by a value, not only by their own id.
FieldReceipts(index, q) ==
  LET rows(c)  == Match(Docs(index.documents[c]), q.tokens, {})
      named(c) == rows(c) # {} /\ (q.mentioned # {} \/ \E d \in rows(c) : d["_id"] \notin q.tokens)
      names    == IF q.mentioned # {} THEN q.mentioned ELSE DOMAIN index.documents
  IN  IF q.tokens = {} \/ q.counting THEN {}
      ELSE {Exact("find", c, rows(c)) : c \in {n \in names : named(n)}}

\* _search_and_hop: the best group holds a word of the question; which documents
\* are grouped is not this module's matter.  A target found from two documents of
\* the group is counted twice.
SearchReceipts(index, q) ==
  LET words(c)  == {d \in Docs(index.documents[c]) : HasToken(d, q.words)}
      best      == UNION {{[collection |-> c, docs |-> S] : S \in (SUBSET words(c)) \ {{}}} : c \in DOMAIN index.documents}
      pairs(b, p) == {x \in b.docs \X Docs(index.documents[p.to]) : x[2] \in Targets(index.documents, p, x[1])}
      leads(b)  == {p \in Hops(index) : /\ p.collection = b.collection
                                        /\ q.mentioned # {} => p.to \in q.mentioned
                                        /\ pairs(b, p) # {}}
  IN  UNION {IF leads(b) = {}
             THEN {Receipt("search_cards", FALSE, {b.collection}, IdsOf(b.docs), Cardinality(b.docs), FALSE)}
             ELSE {Receipt("search_hop", FALSE, {b.collection, p.to}, {x[2]["_id"] : x \in pairs(b, p)},
                           Cardinality(pairs(b, p)), FALSE) : p \in leads(b)} : b \in best}

NoPlanAbsent == Receipt("none", FALSE, {}, {}, 0, TRUE)   \* mutant: says the data is absent
NoPlan == Receipt("none", FALSE, {}, {}, 0, FALSE)

\* The receipts investigate may give: of the first stage that has one.
Investigate(index, question) ==
  LET q      == [question EXCEPT !.mentioned = Mentioned(@, index.documents)]
      hits   == IdHits(index.documents, q.tokens)
      stages == << IF q.counting THEN CountReceipts(index, q) ELSE {},
                   IF Cardinality(q.mentioned) > 1 THEN HopReceipts(index, q, hits) ELSE {},
                   IdReceipts(index, q, hits),
                   FieldReceipts(index, q),
                   SearchReceipts(index, q),
                   {NoPlan} >>
  IN  stages[CHOOSE i \in DOMAIN stages : stages[i] # {} /\ \A j \in 1 .. i - 1 : stages[j] = {}]
=============================================================================
