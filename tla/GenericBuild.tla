---------------------------- MODULE GenericBuild ----------------------------
(***************************************************************************)
(* build_generic_index (app/indexing/signals/orchestrator.py) as several   *)
(* requests call it: each builder runs the enabled providers one by one,   *)
(* validates what they said, stages and activates a generation and returns *)
(* an index; the registry, the cache and the generation book are shared by *)
(* all of them.                                                            *)
(***************************************************************************)
EXTENDS Signals

CONSTANTS
  Builder,      \* calls of build_generic_index
  Request,      \* what they may be called with
  Provider, Requires,      \* names, and [Provider -> SUBSET STRING]
  Builtin,      \* builtin_providers
  Forbidden,    \* policy["forbidden_values"]
  SampleSize,
  Question,     \* asked of every index
  MaxGenerations           \* bound on _seq

ASSUME BuildAssumption ==
  /\ Requires \in [Provider -> SUBSET Provider]
  /\ Builtin \subseteq Provider
  /\ SampleSize \in Nat \ {0} /\ MaxGenerations \in Nat

\* A collection is a list of documents with ids of their own.
IsCollection(coll) ==
  /\ coll \in Seq(Docs(coll))
  /\ \A d \in Docs(coll) : "_id" \in DOMAIN d
  /\ \A d, e \in Docs(coll) : d["_id"] = e["_id"] => d = e

ASSUME CallAssumption ==
  /\ \A r \in Request :
       /\ r.enabled \in Seq(Provider)
       /\ r.use_cache \in BOOLEAN /\ r.force_fail \in BOOLEAN
       /\ \A c \in DOMAIN r.documents : IsCollection(r.documents[c])
  /\ \A q \in Question :
       q = [counting |-> q.counting, mentioned |-> q.mentioned, tokens |-> q.tokens,
            words |-> q.words, month |-> q.month]

VARIABLES
  pc,
  req,          \* the arguments of each call
  pending, results, spins,      \* run_enabled
  staged,       \* the generation each call staged
  index,        \* what each call returned, or built so far
  registry,     \* names in _REGISTRY
  cache,        \* _CACHE
  status,       \* GenerationBook.records: the status of each generation
  active, previous,
  payloads      \* strings the schema model was ever called with

run  == <<pending, results, spins>>
book == <<status, active, previous>>
vars == <<pc, req, run, staged, index, registry, cache, book, payloads>>

NoGeneration == 0
NoIndex == [generation |-> NoGeneration]
NoRequest == [enabled |-> <<>>]

Generation == DOMAIN status

TypeOK ==
  /\ pc \in [Builder -> {"idle", "providers", "stage", "activate", "label", "done", "raised"}]
  /\ \A b \in Builder : req[b] \in Request \cup {NoRequest}
  /\ \A b \in Builder : pending[b] \in Seq(Provider)
  /\ \A b \in Builder : \A i \in DOMAIN results[b] : results[b][i].provider \in Provider
  /\ spins \in [Builder -> Nat]
  /\ staged \in [Builder -> Generation \cup {NoGeneration}]
  /\ registry \subseteq Provider
  /\ status \in [1 .. Len(status) -> {"candidate", "failed", "active"}]
  /\ {active, previous} \subseteq Generation \cup {NoGeneration}

Init ==
  /\ pc = [b \in Builder |-> "idle"]
  /\ req = [b \in Builder |-> NoRequest]
  /\ pending = [b \in Builder |-> <<>>]
  /\ results = [b \in Builder |-> <<>>]
  /\ spins = [b \in Builder |-> 0]
  /\ staged = [b \in Builder |-> NoGeneration]
  /\ index = [b \in Builder |-> NoIndex]
  /\ registry \in {{}, Provider \ Builtin}      \* extra providers, if a caller registered them
  /\ cache = [k \in {} |-> NoIndex]
  /\ status = <<>>
  /\ active = NoGeneration /\ previous = NoGeneration
  /\ payloads = {}

Names(s) == {s[i] : i \in DOMAIN s}

ProfileOf(r) == Profile(r.documents, SampleSize)

\* _cache_key: the fingerprint of the schema and the options, not the documents.
CacheKey(r) ==
  [fingerprint |-> Fingerprint(ProfileOf(r)), enabled |-> r.enabled,
   text_fields |-> TextFields(ProfileOf(r)), llm |-> r.llm]

\* _install registers the built-in ones among them.
Install(enabled) == registry \cup (Names(enabled) \cap Builtin)

\* A generation is still to be staged for the call.
Starting(b) == pc[b] \in {"providers", "stage"}

\* The call, up to the registration of the built-in providers; a forced failure
\* does not look at the cache.
Call(b, r) ==
  /\ pc[b] = "idle" /\ Len(status) + Cardinality({x \in Builder : Starting(x)}) < MaxGenerations
  /\ req' = [req EXCEPT ![b] = r]
  /\ IF r.use_cache /\ CacheKey(r) \in DOMAIN cache /\ ~r.force_fail
     THEN /\ index' = [index EXCEPT ![b] = cache[CacheKey(r)]]
          /\ pc' = [pc EXCEPT ![b] = "done"]
          /\ UNCHANGED <<pending, registry>>
     ELSE /\ pending' = [pending EXCEPT ![b] = r.enabled]
          /\ registry' = Install(r.enabled)
          /\ pc' = [pc EXCEPT ![b] = "providers"]
          /\ UNCHANGED index
  /\ UNCHANGED <<results, spins, staged, cache, book, payloads>>

-----------------------------------------------------------------------------
(* run_enabled: one action per turn of its loop.                           *)

Done(b)  == {results[b][i].provider : i \in DOMAIN results[b]}
MaxSpinsOnce(r) == Len(r.enabled)        \* mutant: one turn for each name
MaxSpins(r) == IF 4 * Len(r.enabled) > 8 THEN 4 * Len(r.enabled) ELSE 8

\* SchemaLLMProvider: the model is asked only if the payload discloses nothing.
SchemaLLM(r, payload) ==
  IF Disclosed(payload, Forbidden) /\ r.llm.kind = "replies" THEN Proposed(r.llm) ELSE Degraded

\* LexicalProvider only repeats the group ids.
Attested == Envelope("ok", {}, {})

\* What evaluate returns, or the degraded result that stands for its exception.
Evaluate(p, r, payload) ==
  CASE p = "schema_profile"     -> Observed(ProfileOf(r))
    [] p = "lexical"            -> Attested
    [] p = "relationship_probe" -> Probed(r.documents)
    [] p = "schema_llm"         -> SchemaLLM(r, payload)
    [] OTHER                    -> Degraded      \* an extra provider that raises or lies

Payload(r) == Masked(ProfileOf(r), UNION {Docs(r.documents[c]) : c \in DOMAIN r.documents})

Add(b, p, e) == results' = [results EXCEPT ![b] = Append(@, [provider |-> p, envelope |-> e])]

\* The head of pending: done already, waiting for a requirement, or evaluated.  A
\* requirement that no name provides gives a degraded result at once.
Turn(b) ==
  LET r       == req[b]
      p       == Head(pending[b])
      missing == Requires[p] \ Done(b)
  IN  /\ pc[b] = "providers" /\ pending[b] # <<>> /\ spins[b] < MaxSpins(r)
      /\ spins' = [spins EXCEPT ![b] = @ + 1]
      /\ \/ /\ p \in Done(b)
            /\ pending' = [pending EXCEPT ![b] = Tail(@)]
            /\ UNCHANGED <<pc, results, payloads>>
         \/ /\ p \notin Done(b) /\ p \notin registry      \* KeyError
            /\ pending' = [pending EXCEPT ![b] = Tail(@)]
            /\ pc' = [pc EXCEPT ![b] = "raised"]
            /\ UNCHANGED <<results, payloads>>
         \/ /\ p \in registry \ Done(b) /\ missing # {}
            /\ pending' = [pending EXCEPT ![b] = Append(Tail(@), p)]
            /\ IF missing \cap Names(r.enabled) = {} THEN Add(b, p, Degraded) ELSE UNCHANGED results
            /\ UNCHANGED <<pc, payloads>>
         \/ /\ p \in registry \ Done(b) /\ missing = {}
            /\ pending' = [pending EXCEPT ![b] = Tail(@)]
            /\ Add(b, p, Evaluate(p, r, Payload(r)))
            /\ payloads' = IF p = "schema_llm" /\ r.llm.kind # "none" /\ Disclosed(Payload(r), Forbidden)
                           THEN payloads \cup Payload(r) ELSE payloads
            /\ UNCHANGED pc
      /\ UNCHANGED <<req, staged, index, registry, cache, book>>

\* The queue is empty, or the bound on its turns is reached: validate, make plans.
EndOfProviders(b) ==
  LET r   == req[b]
      val == Validated(ProfileOf(r), {results[b][i].envelope : i \in DOMAIN results[b]}, r.judge)
  IN  /\ pc[b] = "providers" /\ (pending[b] = <<>> \/ spins[b] >= MaxSpins(r))
      /\ index' = [index EXCEPT ![b] = [documents  |-> r.documents,
                                        validation |-> val,
                                        plans      |-> Plans(ProfileOf(r), val.routes),
                                        generation |-> NoGeneration]]
      /\ pc' = [pc EXCEPT ![b] = "stage"]
      /\ UNCHANGED <<req, run, staged, registry, cache, book, payloads>>

-----------------------------------------------------------------------------
(* The generation book.                                                    *)

StagedStatus(r) == IF r.force_fail THEN "failed" ELSE "candidate"

Stage(b) ==
  /\ pc[b] = "stage"
  /\ status' = Append(status, StagedStatus(req[b]))
  /\ staged' = [staged EXCEPT ![b] = Len(status')]
  /\ pc' = [pc EXCEPT ![b] = "activate"]
  /\ UNCHANGED <<req, run, index, registry, cache, active, previous, payloads>>

MayActivateAny(g) == TRUE          \* mutant: a failed candidate is activated too
MayActivate(g) == status[g] # "failed"

\* activate, or the ActivationError that leaves the book as it is.
Activate(b) ==
  LET g == staged[b]
  IN  /\ pc[b] = "activate"
      /\ IF MayActivate(g)
         THEN /\ previous' = active
              /\ active' = g
              /\ status' = [status EXCEPT ![g] = "active"]
         ELSE UNCHANGED book
      /\ pc' = [pc EXCEPT ![b] = "label"]
      /\ UNCHANGED <<req, run, staged, index, registry, cache, payloads>>

\* The index is named after the generation that is active now, and cached.
CachesFailed(r) == r.use_cache           \* mutant: also an index that was forced to fail
Caches(r) == r.use_cache /\ ~r.force_fail

GenerationOf(b) == IF active # NoGeneration THEN active ELSE staged[b]

Label(b) ==
  LET r    == req[b]
      made == [index[b] EXCEPT !.generation = GenerationOf(b)]
  IN  /\ pc[b] = "label"
      /\ index' = [index EXCEPT ![b] = made]
      /\ cache' = IF Caches(r)
                  THEN [k \in DOMAIN cache \cup {CacheKey(r)} |-> IF k = CacheKey(r) THEN made ELSE cache[k]]
                  ELSE cache
      /\ pc' = [pc EXCEPT ![b] = "done"]
      /\ UNCHANGED <<req, run, staged, registry, book, payloads>>

\* rollback_generation swaps the two.
Rollback ==
  /\ previous # NoGeneration
  /\ active' = previous /\ previous' = active
  /\ status' = [status EXCEPT ![previous] = "active"]
  /\ UNCHANGED <<pc, req, run, staged, index, registry, cache, payloads>>

\* A call has returned or raised: its builder may call again.
Return(b) ==
  /\ pc[b] \in {"done", "raised"}
  /\ pc' = [pc EXCEPT ![b] = "idle"]
  /\ req' = [req EXCEPT ![b] = NoRequest]
  /\ pending' = [pending EXCEPT ![b] = <<>>]
  /\ results' = [results EXCEPT ![b] = <<>>]
  /\ spins' = [spins EXCEPT ![b] = 0]
  /\ staged' = [staged EXCEPT ![b] = NoGeneration]
  /\ index' = [index EXCEPT ![b] = NoIndex]
  /\ UNCHANGED <<registry, cache, book, payloads>>

Build(b) ==
  \/ \E r \in Request : Call(b, r)
  \/ Turn(b) \/ EndOfProviders(b) \/ Stage(b) \/ Activate(b) \/ Label(b) \/ Return(b)

Next == Rollback \/ \E b \in Builder : Build(b)

Spec == Init /\ [][Next]_vars

-----------------------------------------------------------------------------
(* Properties.                                                             *)

Cached == {cache[k] : k \in DOMAIN cache}

Activated(g) == status[g] = "active"

\* However builds, forced failures and rollbacks interleave: the active and the
\* previous generation are two different ones that were activated, and so was the
\* generation of every index that is cached, or returned by a call not forced to fail;
\* and a candidate that failed stays failed, whatever is built or rolled back later.
BookHolds ==
  [][/\ (\A g \in {active, previous} \ {NoGeneration} : Activated(g))'
     /\ previous' # NoGeneration => previous' # active'
     /\ (\A x \in Cached : Activated(x.generation))'
     /\ (\A b \in Builder : pc[b] = "done" /\ ~req[b].force_fail => Activated(index[b].generation))'
     /\ \A g \in Generation : status[g] = "failed" => status'[g] = "failed"]_vars

\* p waits for itself: every name of a set that p belongs to requires one of the set.
InCircle(names, p) ==
  \E S \in SUBSET names : p \in S /\ \A q \in S : Requires[q] \cap S # {}

\* A provider is evaluated after everything it requires, once; and when the loop ends, a
\* name is without a result only because the bound on the turns was reached.  That many
\* turns are enough for four names, the number of DEFAULT_PROVIDERS: with no more of them
\* only a name that waits for itself in a circle is left out.
ProvidersInOrder ==
  \A b \in Builder :
    /\ \A i, j \in DOMAIN results[b] : results[b][i].provider = results[b][j].provider => i = j
    /\ \A i \in DOMAIN results[b] :
         results[b][i].envelope.status = "ok" =>
           Requires[results[b][i].provider] \subseteq {results[b][j].provider : j \in 1 .. i - 1}
    /\ pc[b] = "stage" =>
         \A p \in Names(req[b].enabled) \ Done(b) :
           /\ spins[b] = MaxSpins(req[b])
           /\ Len(req[b].enabled) <= 4 => InCircle(Names(req[b].enabled), p)

\* Every plan of an index, cached ones returned for other documents included, names
\* collections and fields of the documents the caller passed.
PlansFitTheCaller ==
  \A b \in Builder : pc[b] = "done" =>
    \A p \in index[b].plans :
      /\ p.collection \in DOMAIN req[b].documents
      /\ p.field # "" => p.field \in FieldPaths(ProfileOf(req[b]), p.collection)
      /\ p.to # "" => p.to \in DOMAIN req[b].documents

\* What a collection, or a field of one of its documents, is called.
IsName(s) ==
  \E r \in Request : \E c \in DOMAIN r.documents :
    s = c \/ \E d \in Docs(r.documents[c]) : \E f \in DOMAIN d : s = Normal[f]

\* The schema model sees names only: nothing forbidden, and of the values of the
\* documents none that is not what a collection or a field is called too.
OnlyNamesDisclosed ==
  /\ payloads \cap Forbidden = {}
  /\ \A r \in Request : \A c \in DOMAIN r.documents : \A d \in Docs(r.documents[c]) :
       \A f \in DOMAIN d : d[f] \in payloads => IsName(d[f])

\* The receipts of investigate: an exact one counts each document once, and says of
\* nothing else that it is absent than of the one collection it read to the end; ids
\* come from the collections it names; and only the plan-less answer has none of both.
ReceiptsHold ==
  \A b \in Builder : pc[b] = "done" =>
    \A q \in Question : \A x \in Investigate(index[b], q) :
      /\ x.exact => x.count = Cardinality(x.ids) /\ Cardinality(x.collections) = 1
      /\ x.absence => x.exact /\ x.ids = {}
                      /\ \A c \in x.collections : Match(Docs(index[b].documents[c]), q.tokens, q.month) = {}
      /\ x.ids \subseteq UNION {Ids(index[b].documents[c]) : c \in x.collections}
      /\ x.ids = {} => x.absence \/ x.plan = "none"
=============================================================================
