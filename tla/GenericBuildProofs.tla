------------------------- MODULE GenericBuildProofs -------------------------
(***************************************************************************)
(* What concurrent calls of build_generic_index keep, for any number of    *)
(* builders, requests, providers and documents.  The invariant has a part  *)
(* for each thing the calls share or carry: the queue of providers, the    *)
(* indexes with their plans, the generation book and the payloads.         *)
(***************************************************************************)
EXTENDS GenericBuild, FiniteSetTheorems, SequenceTheorems, TLAPS

Envelopes == {Degraded} \cup {Evaluate(p, r, Payload(r)) : p \in Provider, r \in Request}
Result    == [provider : Provider, envelope : Envelopes]
Status    == {"candidate", "failed", "active"}

Typed ==
  /\ TypeOK
  /\ DOMAIN req = Builder /\ DOMAIN index = Builder
  /\ pending \in [Builder -> Seq(Provider)]
  /\ results \in [Builder -> Seq(Result)]
  /\ status \in Seq(Status)
  /\ \A b \in Builder : pc[b] # "idle" => req[b] \in Request
  /\ \A b \in Builder : pc[b] = "idle" => pending[b] = <<>> /\ results[b] = <<>> /\ spins[b] = 0

-----------------------------------------------------------------------------
(* The queue of providers.                                                 *)

\* The names with a result: Done, of a list of results.
Answered(res) == {res[i].provider : i \in DOMAIN res}

EvaluatedOnce(res) ==
  \A i, j \in DOMAIN res : res[i].provider = res[j].provider => i = j

EvaluatedAfter(res) ==
  \A i \in DOMAIN res :
    res[i].envelope.status = "ok" =>
      Requires[res[i].provider] \subseteq {res[j].provider : j \in 1 .. i - 1}

\* p waits for a name of the call that has no result yet.
Blocked(p, r, res) ==
  p \notin Answered(res) /\ (Requires[p] \ Answered(res)) \cap Names(r.enabled) # {}

\* The last k names of the queue were passed over since the last result: they are
\* blocked.  Unless all of them are, the turns so far are bounded by the results.
PassedOver(r, queue, res, turns, k) ==
  /\ \A i \in Len(queue) - k + 1 .. Len(queue) : Blocked(queue[i], r, res)
  /\ k < Len(queue) =>
       turns + (Len(queue) - k) <= Len(r.enabled) + Len(r.enabled) * Len(res)

\* No name of a call gets lost between the queue and the results.
Waiting(r, queue, res, turns) ==
  /\ Names(queue) \subseteq Names(r.enabled)
  /\ Answered(res) \subseteq Names(r.enabled)
  /\ Names(r.enabled) \subseteq Answered(res) \cup Names(queue)
  /\ Len(queue) <= Len(r.enabled)
  /\ turns <= MaxSpins(r)
  /\ \E k \in 0 .. Len(queue) : PassedOver(r, queue, res, turns, k)

QueuedAs(where, r, queue, res, turns) ==
  /\ EvaluatedOnce(res) /\ EvaluatedAfter(res)
  /\ where \in {"providers", "stage"} => Waiting(r, queue, res, turns)
  /\ where = "stage" => queue = <<>> \/ turns = MaxSpins(r)

Queued == \A b \in Builder : QueuedAs(pc[b], req[b], pending[b], results[b], spins[b])

-----------------------------------------------------------------------------
(* Indexes, their plans and their documents.                               *)

Fits(plans, fingerprint) ==
  \A p \in plans :
    /\ p.collection \in DOMAIN fingerprint
    /\ p.field # "" => p.field \in DOMAIN fingerprint[p.collection]
    /\ p.to # "" => p.to \in DOMAIN fingerprint

Databases == {r.documents : r \in Request}

IsIndex(x) ==
  x = [documents |-> x.documents, validation |-> x.validation, plans |-> x.plans, generation |-> x.generation]

Built(x, fingerprint) == IsIndex(x) /\ x.documents \in Databases /\ Fits(x.plans, fingerprint)

\* An index fits the schema it was built for, which is that of every call it is
\* returned to.
Grounded ==
  /\ \A k \in DOMAIN cache : Built(cache[k], k.fingerprint)
  /\ \A b \in Builder : pc[b] \in {"stage", "activate", "label", "done"} =>
       Built(index[b], Fingerprint(ProfileOf(req[b])))

-----------------------------------------------------------------------------
(* The generation book.                                                    *)

InForce(g) == g \in Generation /\ Activated(g)

\* The same of the book a step leaves.
InForceNext(g) == g \in DOMAIN status' /\ status'[g] = "active"

\* What is active, previous, cached or returned was activated; what waits to be
\* activated is its builder's own, with the status it was staged with.
Booked ==
  /\ active # NoGeneration => InForce(active)
  /\ previous # NoGeneration => InForce(previous) /\ active \notin {NoGeneration, previous}
  /\ \A b \in Builder : pc[b] = "activate" =>
       staged[b] \in Generation /\ status[staged[b]] = StagedStatus(req[b])
  /\ \A a, b \in Builder :
       pc[a] = "activate" /\ pc[b] = "activate" /\ staged[a] = staged[b] => a = b
  /\ \A b \in Builder : pc[b] = "label" /\ ~req[b].force_fail => active # NoGeneration
  /\ \A k \in DOMAIN cache : InForce(cache[k].generation)
  /\ \A b \in Builder : pc[b] = "done" /\ ~req[b].force_fail => InForce(index[b].generation)

\* What the schema model was shown.
Masking == payloads \cap Forbidden = {} /\ \A s \in payloads : IsName(s)

IInv == Typed /\ Queued /\ Grounded /\ Booked /\ Masking

-----------------------------------------------------------------------------
(* Sequences and the operators of a call.                                  *)

\* Every element of a sequence is one of its names.
LEMMA InNames ==
  ASSUME NEW s, NEW i \in DOMAIN s
  PROVE  s[i] \in Names(s)
BY DEF Names

\* Taking the head off a queue.
LEMMA HeadAndTail ==
  ASSUME NEW S, NEW s \in Seq(S), s # <<>>
  PROVE  /\ Len(s) \in Nat /\ Len(s) >= 1
         /\ Head(s) = s[1] /\ Head(s) \in S
         /\ Tail(s) \in Seq(S) /\ Len(Tail(s)) = Len(s) - 1
         /\ \A i \in 1 .. Len(s) - 1 : Tail(s)[i] = s[i + 1]
         /\ Names(s) = {Head(s)} \cup Names(Tail(s))
<1>1. /\ Len(s) \in Nat /\ Len(s) >= 1
      /\ Head(s) = s[1] /\ Head(s) \in S
      /\ Tail(s) \in Seq(S) /\ Len(Tail(s)) = Len(s) - 1
      /\ \A i \in 1 .. Len(s) - 1 : Tail(s)[i] = s[i + 1]
  OBVIOUS
<1>2. DOMAIN s = 1 .. Len(s) /\ DOMAIN Tail(s) = 1 .. Len(s) - 1
  BY <1>1
<1>3. ASSUME NEW i \in DOMAIN s PROVE s[i] \in {Head(s)} \cup Names(Tail(s))
  <2>1. CASE i = 1
    BY <1>1, <2>1
  <2>2. CASE i # 1
    <3>1. i - 1 \in DOMAIN Tail(s) /\ Tail(s)[i - 1] = s[i]
      BY <1>1, <1>2, <1>3, <2>2
    <3> QED
      BY <3>1 DEF Names
  <2> QED
    BY <2>1, <2>2
<1>4. ASSUME NEW i \in DOMAIN Tail(s) PROVE Tail(s)[i] \in Names(s)
  <2>1. i + 1 \in DOMAIN s /\ Tail(s)[i] = s[i + 1]
    BY <1>1, <1>2, <1>4
  <2> QED
    BY <2>1 DEF Names
<1>5. 1 \in DOMAIN s
  BY <1>1, <1>2
<1>6. Names(s) \subseteq {Head(s)} \cup Names(Tail(s))
  BY <1>3 DEF Names
<1>7. {Head(s)} \cup Names(Tail(s)) \subseteq Names(s)
  <2>1. Head(s) \in Names(s)
    BY <1>1, <1>5 DEF Names
  <2>2. Names(Tail(s)) \subseteq Names(s)
    BY <1>4 DEF Names
  <2> QED
    BY <2>1, <2>2
<1> QED
  BY <1>1, <1>6, <1>7

\* Putting a value at the end of a queue.
LEMMA Appended ==
  ASSUME NEW S, NEW s \in Seq(S), NEW e \in S
  PROVE  /\ Append(s, e) \in Seq(S) /\ Len(Append(s, e)) = Len(s) + 1 /\ Len(s) \in Nat
         /\ DOMAIN s = 1 .. Len(s) /\ DOMAIN Append(s, e) = 1 .. Len(s) + 1
         /\ \A i \in 1 .. Len(s) : Append(s, e)[i] = s[i]
         /\ Append(s, e)[Len(s) + 1] = e
         /\ Names(Append(s, e)) = Names(s) \cup {e}
<1>1. /\ Append(s, e) \in Seq(S) /\ Len(Append(s, e)) = Len(s) + 1 /\ Len(s) \in Nat
      /\ DOMAIN s = 1 .. Len(s) /\ DOMAIN Append(s, e) = 1 .. Len(s) + 1
      /\ \A i \in 1 .. Len(s) : Append(s, e)[i] = s[i]
      /\ Append(s, e)[Len(s) + 1] = e
  OBVIOUS
<1>2. \A i \in DOMAIN Append(s, e) : Append(s, e)[i] \in Names(s) \cup {e}
  <2> SUFFICES ASSUME NEW i \in DOMAIN Append(s, e)
               PROVE  Append(s, e)[i] \in Names(s) \cup {e}
    OBVIOUS
  <2>1. CASE i \in 1 .. Len(s)
    BY <1>1, <2>1 DEF Names
  <2>2. CASE i = Len(s) + 1
    BY <1>1, <2>2
  <2> QED
    BY <1>1, <2>1, <2>2
<1>3. ASSUME NEW i \in DOMAIN s PROVE s[i] \in Names(Append(s, e))
  <2>1. i \in 1 .. Len(s) /\ i \in 1 .. Len(s) + 1
    OBVIOUS
  <2>2. i \in DOMAIN Append(s, e)
    BY <2>1, <1>1, Zenon
  <2>3. Append(s, e)[i] = s[i]
    BY <2>1, <1>1, Zenon
  <2>4. Append(s, e)[i] \in Names(Append(s, e))
    BY <2>2, InNames, Zenon
  <2> QED
    BY <2>3, <2>4, Zenon
<1>4. e \in Names(Append(s, e))
  <2>1. Len(s) + 1 \in DOMAIN Append(s, e)
    BY <1>1
  <2> QED
    BY <1>1, <2>1 DEF Names
<1>5. Names(Append(s, e)) \subseteq Names(s) \cup {e}
  BY <1>2 DEF Names
<1>6. Names(s) \subseteq Names(Append(s, e))
  BY <1>3 DEF Names
<1> QED
  BY <1>1, <1>4, <1>5, <1>6

\* Putting the head of a queue at its end.
LEMMA Rotated ==
  ASSUME NEW S, NEW s \in Seq(S), s # <<>>, NEW t, t = Append(Tail(s), Head(s))
  PROVE  /\ t \in Seq(S) /\ Len(t) = Len(s) /\ t[Len(s)] = Head(s)
         /\ \A i \in 1 .. Len(s) - 1 : t[i] = s[i + 1]
         /\ Names(t) = Names(s)
<1>1. PICK e : e = Head(s)
  OBVIOUS
<1>2. PICK rest : rest = Tail(s)
  OBVIOUS
<1>3. rest \in Seq(S) /\ e \in S /\ t = Append(rest, e)
  BY <1>1, <1>2, HeadAndTail
<1>4. /\ t \in Seq(S) /\ Len(t) = Len(rest) + 1
      /\ \A i \in 1 .. Len(rest) : t[i] = rest[i]
      /\ t[Len(rest) + 1] = e
      /\ Names(t) = Names(rest) \cup {e}
  <2>1. /\ t \in Seq(S) /\ Len(t) = Len(rest) + 1
        /\ \A i \in 1 .. Len(rest) : t[i] = rest[i]
        /\ t[Len(rest) + 1] = e
    BY ONLY <1>3
  <2>2. Names(Append(rest, e)) = Names(rest) \cup {e}
    BY ONLY <1>3, Appended
  <2> QED
    BY <1>3, <2>1, <2>2
<1>5. /\ Len(s) \in Nat /\ Len(rest) = Len(s) - 1 /\ Names(s) = {e} \cup Names(rest)
      /\ \A i \in 1 .. Len(s) - 1 : rest[i] = s[i + 1]
  BY <1>1, <1>2, HeadAndTail
<1> QED
  BY <1>1, <1>4, <1>5

\* The arguments of a call.
LEMMA RequestType ==
  ASSUME NEW r \in Request
  PROVE  /\ r.enabled \in Seq(Provider)
         /\ r.use_cache \in BOOLEAN /\ r.force_fail \in BOOLEAN
         /\ MaxSpins(r) \in Nat /\ Len(r.enabled) \in Nat
BY CallAssumption DEF MaxSpins

\* A result with what Evaluate returned.
LEMMA EvaluateType ==
  ASSUME NEW p \in Provider, NEW r \in Request
  PROVE  /\ [provider |-> p, envelope |-> Evaluate(p, r, Payload(r))] \in Result
         /\ [provider |-> p, envelope |-> Degraded] \in Result
BY DEF Result, Envelopes

\* What a list of results holds.
LEMMA ResultType ==
  ASSUME NEW s \in Seq(Result), NEW i \in DOMAIN s
  PROVE  s[i] \in Result /\ s[i].provider \in Provider
<1>1. s[i] \in Result
  OBVIOUS
<1> QED
  BY <1>1 DEF Result

\* A generation is marked active.
LEMMA MarkedActive ==
  ASSUME NEW s \in Seq(Status), NEW g, NEW t, t = [s EXCEPT ![g] = "active"]
  PROVE  /\ t \in Seq(Status) /\ Len(t) = Len(s) /\ DOMAIN t = DOMAIN s
         /\ t \in [1 .. Len(t) -> {"candidate", "failed", "active"}]
<1>1. Len(s) \in Nat /\ DOMAIN s = 1 .. Len(s) /\ \A i \in 1 .. Len(s) : s[i] \in Status
  OBVIOUS
<1>2. t \in [1 .. Len(s) -> Status]
  BY <1>1 DEF Status
<1>3. t \in Seq(Status) /\ Len(t) = Len(s)
  BY <1>1, <1>2
<1> QED
  BY <1>1, <1>2, <1>3 DEF Status

\* A degraded result is not ok.
LEMMA DegradedIsNotOk == Degraded.status # "ok"
BY DEF Degraded, Envelope

-----------------------------------------------------------------------------
(* What a step may change. *)

\* The turns of the provider loop, one action for each of the four things it may do.
\* The name at the head has a result already.
Drop(b) ==
  /\ Head(pending[b]) \in Done(b)
  /\ pending' = [pending EXCEPT ![b] = Tail(@)]
  /\ UNCHANGED <<pc, results, payloads>>

\* Nobody registered the name at the head.
Unknown(b) ==
  /\ Head(pending[b]) \notin Done(b) /\ Head(pending[b]) \notin registry
  /\ pending' = [pending EXCEPT ![b] = Tail(@)]
  /\ pc' = [pc EXCEPT ![b] = "raised"]
  /\ UNCHANGED <<results, payloads>>

\* The name at the head waits for another name of the call.
PassOver(b) ==
  /\ Head(pending[b]) \in registry \ Done(b)
  /\ (Requires[Head(pending[b])] \ Done(b)) \cap Names(req[b].enabled) # {}
  /\ pending' = [pending EXCEPT ![b] = Append(Tail(@), Head(@))]
  /\ UNCHANGED <<pc, results, payloads>>

\* What the name at the head misses, no name of the call provides.
Degrade(b) ==
  /\ Head(pending[b]) \in registry \ Done(b)
  /\ Requires[Head(pending[b])] \ Done(b) # {}
  /\ (Requires[Head(pending[b])] \ Done(b)) \cap Names(req[b].enabled) = {}
  /\ pending' = [pending EXCEPT ![b] = Append(Tail(@), Head(@))]
  /\ Add(b, Head(pending[b]), Degraded)
  /\ UNCHANGED <<pc, payloads>>

\* The name at the head has all it requires.
Run(b) ==
  LET p == Head(pending[b])
      r == req[b]
  IN  /\ p \in registry \ Done(b) /\ Requires[p] \subseteq Done(b)
      /\ pending' = [pending EXCEPT ![b] = Tail(@)]
      /\ Add(b, p, Evaluate(p, r, Payload(r)))
      /\ payloads' = IF p = "schema_llm" /\ r.llm.kind # "none" /\ Disclosed(Payload(r), Forbidden)
                     THEN payloads \cup Payload(r) ELSE payloads
      /\ UNCHANGED pc

\* A turn is one of these, with one more turn counted.
LEMMA TurnIs ==
  ASSUME Typed, NEW b \in Builder, Turn(b)
  PROVE  /\ pc[b] = "providers" /\ pending[b] # <<>> /\ spins[b] < MaxSpins(req[b])
         /\ spins' = [spins EXCEPT ![b] = spins[b] + 1]
         /\ Drop(b) \/ Unknown(b) \/ PassOver(b) \/ Degrade(b) \/ Run(b)
         /\ UNCHANGED <<req, staged, index, registry, cache, book>>
<1> DEFINE p == Head(pending[b])
<1> DEFINE missing == Requires[p] \ Done(b)
<1>1. /\ pc[b] = "providers" /\ pending[b] # <<>> /\ spins[b] < MaxSpins(req[b])
      /\ spins' = [spins EXCEPT ![b] = spins[b] + 1]
      /\ UNCHANGED <<req, staged, index, registry, cache, book>>
  BY DEF Turn
<1>2. \/ /\ p \in Done(b)
         /\ pending' = [pending EXCEPT ![b] = Tail(@)]
         /\ UNCHANGED <<pc, results, payloads>>
      \/ /\ p \notin Done(b) /\ p \notin registry
         /\ pending' = [pending EXCEPT ![b] = Tail(@)]
         /\ pc' = [pc EXCEPT ![b] = "raised"]
         /\ UNCHANGED <<results, payloads>>
      \/ /\ p \in registry \ Done(b) /\ missing # {}
         /\ pending' = [pending EXCEPT ![b] = Append(Tail(@), p)]
         /\ IF missing \cap Names(req[b].enabled) = {} THEN Add(b, p, Degraded) ELSE UNCHANGED results
         /\ UNCHANGED <<pc, payloads>>
      \/ /\ p \in registry \ Done(b) /\ missing = {}
         /\ pending' = [pending EXCEPT ![b] = Tail(@)]
         /\ Add(b, p, Evaluate(p, req[b], Payload(req[b])))
         /\ payloads' = IF p = "schema_llm" /\ req[b].llm.kind # "none" /\ Disclosed(Payload(req[b]), Forbidden)
                        THEN payloads \cup Payload(req[b]) ELSE payloads
         /\ UNCHANGED pc
  BY Zenon DEF Turn
<1>3. Drop(b) \/ Unknown(b) \/ PassOver(b) \/ Degrade(b) \/ Run(b)
  <2>1. CASE p \in Done(b) /\ pending' = [pending EXCEPT ![b] = Tail(@)] /\ UNCHANGED <<pc, results, payloads>>
    BY <2>1 DEF Drop
  <2>2. CASE p \in registry \ Done(b) /\ missing = {}
    BY <1>2, <2>2 DEF Run
  <2>3. CASE p \in registry \ Done(b) /\ missing # {}
    <3>1. pending' = [pending EXCEPT ![b] = Append(Tail(@), Head(@))]
      BY <1>2, <2>3
    <3>2. CASE missing \cap Names(req[b].enabled) = {}
      BY <1>2, <2>3, <3>1, <3>2 DEF Degrade
    <3>3. CASE missing \cap Names(req[b].enabled) # {}
      BY <1>2, <2>3, <3>1, <3>3 DEF PassOver
    <3> QED
      BY <3>2, <3>3
  <2>4. CASE p \notin Done(b) /\ p \notin registry
    BY <1>2, <2>4 DEF Unknown
  <2> QED
    BY <1>2, <2>1, <2>2, <2>3, <2>4
<1> QED
  BY <1>1, <1>3

-----------------------------------------------------------------------------
(* The types.                                                              *)

\* No call, generation or cached index exists at the start.
LEMMA TypedInit == Init => Typed
<1> SUFFICES ASSUME Init PROVE Typed
  OBVIOUS
<1>1. TypeOK
  BY BuildAssumption DEF Init, TypeOK, Generation
<1>2. /\ pending \in [Builder -> Seq(Provider)]
      /\ results \in [Builder -> Seq(Result)]
      /\ status \in Seq(Status)
  BY DEF Init
<1> QED
  BY <1>1, <1>2 DEF Init, Typed

\* The number of turns and the queue of a builder keep their types.
LEMMA TurnTyped ==
  ASSUME Typed, NEW b \in Builder, Turn(b)
  PROVE  Typed'
<1> DEFINE p == Head(pending[b])
<1>1. /\ pc[b] = "providers" /\ pending[b] # <<>>
      /\ spins' = [spins EXCEPT ![b] = spins[b] + 1]
      /\ Drop(b) \/ Unknown(b) \/ PassOver(b) \/ Degrade(b) \/ Run(b)
      /\ UNCHANGED <<req, staged, index, registry, cache, book>>
  BY TurnIs
<1>2. /\ pending \in [Builder -> Seq(Provider)] /\ results \in [Builder -> Seq(Result)]
      /\ spins \in [Builder -> Nat] /\ req[b] \in Request
  BY <1>1 DEF Typed, TypeOK
<1>3. pending[b] \in Seq(Provider)
  BY <1>2
<1>4. p \in Provider /\ Tail(pending[b]) \in Seq(Provider)
  BY <1>1, <1>3, HeadAndTail
<1>5. Append(Tail(pending[b]), p) \in Seq(Provider)
  BY <1>4, Appended
<1>6. /\ [provider |-> p, envelope |-> Evaluate(p, req[b], Payload(req[b]))] \in Result
      /\ [provider |-> p, envelope |-> Degraded] \in Result
  BY <1>2, <1>4, EvaluateType
<1>7. pending' \in [Builder -> Seq(Provider)]
  BY <1>1, <1>2, <1>4, <1>5 DEF Drop, Unknown, PassOver, Degrade, Run
<1>8. results' \in [Builder -> Seq(Result)]
  <2>1. \A e \in Result : Append(results[b], e) \in Seq(Result)
    BY <1>2, Appended
  <2>2. CASE UNCHANGED results
    BY <1>2, <2>2
  <2>3. CASE Add(b, p, Degraded) \/ Add(b, p, Evaluate(p, req[b], Payload(req[b])))
    BY <1>2, <1>6, <2>1, <2>3 DEF Add
  <2> QED
    BY <1>1, <2>2, <2>3 DEF Drop, Unknown, PassOver, Degrade, Run
<1>9. spins' \in [Builder -> Nat]
  BY <1>1, <1>2
<1>10. pc' = pc \/ pc' = [pc EXCEPT ![b] = "raised"]
  BY <1>1 DEF Drop, Unknown, PassOver, Degrade, Run
<1>11. pc' \in [Builder -> {"idle", "providers", "stage", "activate", "label", "done", "raised"}]
  BY <1>10 DEF Typed, TypeOK
<1>12. \A a \in Builder : \A i \in DOMAIN results'[a] : results'[a][i].provider \in Provider
  BY <1>8, ResultType
<1>13. TypeOK'
  <2>1. UNCHANGED <<req, staged, registry, status, active, previous>>
    BY <1>1 DEF book
  <2> QED
    BY <1>7, <1>9, <1>11, <1>12, <2>1 DEF Typed, TypeOK, Generation
<1>14. \A a \in Builder : pc'[a] # "idle" => req'[a] \in Request
  BY <1>1, <1>2, <1>10 DEF Typed, TypeOK
<1>15. \A a \in Builder : pc'[a] = "idle" => pc[a] = "idle" /\ a # b
  BY <1>1, <1>10 DEF Typed, TypeOK
<1>16. \A a \in Builder \ {b} : UNCHANGED <<pending[a], results[a], spins[a]>>
  BY <1>1, <1>2 DEF Drop, Unknown, PassOver, Degrade, Run, Add
<1>17. \A a \in Builder : pc'[a] = "idle" => pending'[a] = <<>> /\ results'[a] = <<>> /\ spins'[a] = 0
  BY <1>15, <1>16 DEF Typed
<1> QED
  BY <1>1, <1>7, <1>8, <1>13, <1>14, <1>17 DEF Typed, book

\* Every step keeps the types.
LEMMA TypedStep == Typed /\ [Next]_vars => Typed'
<1> SUFFICES ASSUME Typed, [Next]_vars PROVE Typed'
  OBVIOUS
<1> USE DEF Typed
<1>1. ASSUME NEW b \in Builder, NEW r \in Request, Call(b, r) PROVE Typed'
  <2>1. r.enabled \in Seq(Provider) /\ Names(r.enabled) \subseteq Provider
    BY RequestType DEF Names
  <2>2. req' = [req EXCEPT ![b] = r] /\ UNCHANGED <<results, spins, staged, cache, book, payloads>>
    BY <1>1 DEF Call
  <2>3. \/ /\ index' = [index EXCEPT ![b] = cache[CacheKey(r)]] /\ pc' = [pc EXCEPT ![b] = "done"]
           /\ UNCHANGED <<pending, registry>>
        \/ /\ pending' = [pending EXCEPT ![b] = r.enabled] /\ registry' = Install(r.enabled)
           /\ pc' = [pc EXCEPT ![b] = "providers"] /\ UNCHANGED index
    BY <1>1, Zenon DEF Call
  <2>4. pending' \in [Builder -> Seq(Provider)] /\ registry' \subseteq Provider /\ DOMAIN index' = Builder
    BY <2>1, <2>3 DEF TypeOK, Install
  <2>5. TypeOK'
    BY <2>2, <2>3, <2>4 DEF TypeOK, book, Generation
  <2>6. \A a \in Builder : pc'[a] # "idle" => req'[a] \in Request
    BY <2>2, <2>3 DEF TypeOK
  <2>7. \A a \in Builder : pc'[a] = "idle" => pc[a] = "idle" /\ pending'[a] = pending[a]
    BY <2>3 DEF TypeOK
  <2> QED
    BY <2>2, <2>4, <2>5, <2>6, <2>7 DEF book
<1>2. ASSUME NEW b \in Builder, Turn(b) PROVE Typed'
  BY <1>2, TurnTyped
<1>3. ASSUME NEW b \in Builder, EndOfProviders(b) PROVE Typed'
  <2>1. /\ pc[b] = "providers" /\ DOMAIN index' = Builder
        /\ pc' = [pc EXCEPT ![b] = "stage"]
        /\ UNCHANGED <<req, run, staged, registry, cache, book, payloads>>
    BY <1>3 DEF EndOfProviders
  <2> QED
    BY <2>1 DEF TypeOK, run, book, Generation
<1>4. ASSUME NEW b \in Builder, Stage(b) PROVE Typed'
  <2>1. /\ pc[b] = "stage"
        /\ status' = Append(status, StagedStatus(req[b]))
        /\ staged' = [staged EXCEPT ![b] = Len(status')]
        /\ pc' = [pc EXCEPT ![b] = "activate"]
        /\ UNCHANGED <<req, run, index, registry, cache, active, previous, payloads>>
    BY <1>4 DEF Stage
  <2>2. status \in Seq(Status) /\ StagedStatus(req[b]) \in Status
    BY DEF StagedStatus, Status
  <2>3. /\ status' \in Seq(Status) /\ Len(status') = Len(status) + 1 /\ Len(status) \in Nat
        /\ DOMAIN status = 1 .. Len(status) /\ DOMAIN status' = 1 .. Len(status) + 1
    BY <2>1, <2>2, Appended
  <2>4. staged' \in [Builder -> Generation' \cup {NoGeneration}]
    BY <2>1, <2>3 DEF TypeOK, Generation
  <2>5. {active', previous'} \subseteq Generation' \cup {NoGeneration}
    BY <2>1, <2>3 DEF TypeOK, Generation
  <2>6. status' \in [1 .. Len(status') -> {"candidate", "failed", "active"}]
    BY <2>3 DEF Status
  <2>7. TypeOK'
    BY <2>1, <2>4, <2>5, <2>6 DEF TypeOK, run
  <2> QED
    BY <2>1, <2>3, <2>7 DEF TypeOK, run
<1>5. ASSUME NEW b \in Builder, Activate(b) PROVE Typed'
  <2>1. /\ pc[b] = "activate"
        /\ \/ /\ previous' = active /\ active' = staged[b]
              /\ status' = [status EXCEPT ![staged[b]] = "active"]
           \/ UNCHANGED book
        /\ pc' = [pc EXCEPT ![b] = "label"]
        /\ UNCHANGED <<req, run, staged, index, registry, cache, payloads>>
    BY <1>5, Zenon DEF Activate
  <2>2. /\ status' \in Seq(Status) /\ Len(status') = Len(status) /\ Generation' = Generation
        /\ status' \in [1 .. Len(status') -> {"candidate", "failed", "active"}]
    <3>1. CASE UNCHANGED book
      BY <3>1 DEF book, Generation, TypeOK
    <3>2. CASE status' = [status EXCEPT ![staged[b]] = "active"]
      BY <3>2, MarkedActive DEF Generation
    <3> QED
      BY <2>1, <3>1, <3>2
  <2>4. {active', previous'} \subseteq Generation' \cup {NoGeneration}
    BY <2>1, <2>2 DEF TypeOK, book
  <2>5. TypeOK'
    BY <2>1, <2>2, <2>4 DEF TypeOK, run
  <2> QED
    BY <2>1, <2>2, <2>5 DEF TypeOK, run
<1>6. ASSUME NEW b \in Builder, Label(b) PROVE Typed'
  <2>1. /\ pc[b] = "label" /\ DOMAIN index' = Builder
        /\ pc' = [pc EXCEPT ![b] = "done"]
        /\ UNCHANGED <<req, run, staged, registry, book, payloads>>
    BY <1>6 DEF Label
  <2> QED
    BY <2>1 DEF TypeOK, run, book, Generation
<1>7. ASSUME NEW b \in Builder, Return(b) PROVE Typed'
  <2>1. /\ DOMAIN index' = Builder /\ DOMAIN req' = Builder
        /\ pending' \in [Builder -> Seq(Provider)] /\ pending'[b] = <<>>
        /\ results' \in [Builder -> Seq(Result)] /\ results'[b] = <<>>
        /\ spins' \in [Builder -> Nat] /\ spins'[b] = 0
        /\ staged' \in [Builder -> Generation \cup {NoGeneration}]
        /\ pc' = [pc EXCEPT ![b] = "idle"]
        /\ \A a \in Builder : req'[a] = IF a = b THEN NoRequest ELSE req[a]
        /\ \A a \in Builder \ {b} : pending'[a] = pending[a] /\ results'[a] = results[a] /\ spins'[a] = spins[a]
        /\ UNCHANGED <<registry, cache, book, payloads>>
    BY <1>7 DEF Return, TypeOK
  <2>2. \A a \in Builder : \A i \in DOMAIN results'[a] : results'[a][i].provider \in Provider
    BY <2>1, ResultType
  <2>3. TypeOK'
    BY <2>1, <2>2 DEF TypeOK, book, Generation
  <2> QED
    BY <2>1, <2>3 DEF TypeOK, book
<1>8. CASE Rollback
  <2>1. /\ previous # NoGeneration /\ active' = previous /\ previous' = active
        /\ status' = [status EXCEPT ![previous] = "active"]
        /\ UNCHANGED <<pc, req, run, staged, index, registry, cache, payloads>>
    BY <1>8 DEF Rollback
  <2>2. /\ status' \in Seq(Status) /\ Len(status') = Len(status) /\ Generation' = Generation
        /\ status' \in [1 .. Len(status') -> {"candidate", "failed", "active"}]
    BY <2>1, MarkedActive DEF Generation
  <2>4. TypeOK'
    BY <2>1, <2>2 DEF TypeOK, run
  <2> QED
    BY <2>1, <2>2, <2>4 DEF run
<1>9. CASE UNCHANGED vars
  BY <1>9 DEF vars, run, book, TypeOK, Generation
<1> QED
  BY <1>1, <1>2, <1>3, <1>4, <1>5, <1>6, <1>7, <1>8, <1>9 DEF Next, Build

-----------------------------------------------------------------------------
(* The generation book.                                                    *)

\* What a step does to the book: it stays, a builder stages a new generation, a builder
\* activates its own, which has not failed, or the two in force are swapped.
BookStays == UNCHANGED <<status, active, previous>>

Stages(b) ==
  /\ pc[b] = "stage" /\ pc' = [pc EXCEPT ![b] = "activate"]
  /\ status' = Append(status, StagedStatus(req[b]))
  /\ staged' = [staged EXCEPT ![b] = Len(status')]
  /\ UNCHANGED <<req, index, cache, active, previous>>

Activates(b) ==
  /\ pc[b] = "activate" /\ pc' = [pc EXCEPT ![b] = "label"] /\ status[staged[b]] # "failed"
  /\ previous' = active /\ active' = staged[b]
  /\ status' = [status EXCEPT ![staged[b]] = "active"]
  /\ UNCHANGED <<req, staged, index, cache>>

\* What does not stage or activate a generation leaves the book and what is staged.
LEMMA BookMoves ==
  ASSUME Typed, Booked, [Next]_vars
  PROVE  BookStays \/ (\E b \in Builder : Stages(b) \/ Activates(b)) \/ Rollback
<1>1. ASSUME NEW b \in Builder, Stage(b) PROVE Stages(b)
  BY <1>1 DEF Stage, Stages
<1>2. ASSUME NEW b \in Builder, Activate(b) PROVE BookStays \/ Activates(b)
  <2>1. /\ pc[b] = "activate" /\ pc' = [pc EXCEPT ![b] = "label"]
        /\ UNCHANGED <<req, staged, index, cache>>
    BY <1>2 DEF Activate
  <2>2. CASE MayActivate(staged[b])
    BY <1>2, <2>1, <2>2, Zenon DEF Activate, Activates, MayActivate
  <2>3. CASE ~MayActivate(staged[b])
    BY <1>2, <2>3, Zenon DEF Activate, BookStays, book
  <2> QED
    BY <2>2, <2>3
<1>3. ASSUME NEW b \in Builder,
             (\E r \in Request : Call(b, r)) \/ Turn(b) \/ EndOfProviders(b) \/ Label(b) \/ Return(b)
      PROVE  BookStays
  <2>1. UNCHANGED book
    BY <1>3 DEF Call, Turn, EndOfProviders, Label, Return
  <2> QED
    BY <2>1 DEF book, BookStays
<1>4. CASE UNCHANGED vars
  BY <1>4 DEF vars, book, BookStays
<1> QED
  BY <1>1, <1>2, <1>3, <1>4 DEF Next, Build

\* A generation that was activated is so for ever, and one that failed stays failed.
LEMMA StatusMoves ==
  ASSUME Typed, Booked, [Next]_vars
  PROVE  /\ \A g : InForce(g) => InForce(g)'
         /\ \A g \in Generation : g \in Generation' /\ (status[g] = "failed" => status'[g] = "failed")
<1> USE DEF InForce, Activated, Generation
<1>1. CASE BookStays
  BY <1>1 DEF BookStays
<1>2. ASSUME NEW b \in Builder, Stages(b)
      PROVE  \A g \in DOMAIN status : g \in DOMAIN status' /\ status'[g] = status[g]
  <2>1. status \in Seq(Status) /\ StagedStatus(req[b]) \in Status
    BY DEF Typed, StagedStatus, Status
  <2>2. status' = Append(status, StagedStatus(req[b]))
    BY <1>2 DEF Stages
  <2>3. /\ DOMAIN status = 1 .. Len(status) /\ DOMAIN status' = 1 .. Len(status) + 1 /\ Len(status) \in Nat
        /\ \A i \in 1 .. Len(status) : status'[i] = status[i]
    BY <2>1, <2>2, Appended
  <2> QED
    BY <2>3
<1>3. ASSUME NEW b \in Builder, Activates(b)
      PROVE  DOMAIN status' = DOMAIN status
             /\ \A g \in DOMAIN status : status'[g] = IF g = staged[b] THEN "active" ELSE status[g]
  BY <1>3 DEF Activates
<1>4. CASE Rollback
  <2>1. previous \in DOMAIN status /\ status[previous] = "active" /\ status' = [status EXCEPT ![previous] = "active"]
    BY <1>4 DEF Rollback, Booked
  <2> QED
    BY <2>1
<1>5. CASE \E b \in Builder : Activates(b)
  <2> PICK b \in Builder : Activates(b)
    BY <1>5
  <2>1. status[staged[b]] # "failed"
    BY DEF Activates
  <2> QED
    BY <1>3, <2>1
<1> QED
  BY BookMoves, <1>1, <1>2, <1>4, <1>5

\* A step of one builder that leaves the book alone and after which that builder has
\* nothing to activate.
LEMMA QuietBook ==
  ASSUME Typed, Booked, BookStays, NEW b \in Builder,
         \A a \in Builder \ {b} : UNCHANGED <<pc[a], req[a], staged[a], index[a]>>,
         pc'[b] # "activate",
         pc'[b] = "label" => req'[b].force_fail,
         \A k \in DOMAIN cache' : InForce(cache'[k].generation),
         pc'[b] = "done" /\ ~req'[b].force_fail => InForce(index'[b].generation)
  PROVE  Booked'
<1>1. \A g : InForce(g)' <=> InForce(g)
  BY DEF BookStays, InForce, Activated, Generation
<1>2. \A a \in Builder : pc'[a] = "activate" => a # b
  OBVIOUS
<1>3. \A a \in Builder : pc'[a] = "activate" =>
        staged'[a] \in Generation' /\ status'[staged'[a]] = StagedStatus(req'[a])
  BY <1>2 DEF Booked, BookStays, Generation, StagedStatus
<1>4. \A a, c \in Builder :
        pc'[a] = "activate" /\ pc'[c] = "activate" /\ staged'[a] = staged'[c] => a = c
  BY <1>2 DEF Booked
<1>5. \A a \in Builder : pc'[a] = "label" /\ ~req'[a].force_fail => active' # NoGeneration
  BY DEF Booked, BookStays
<1>6. \A a \in Builder : pc'[a] = "done" /\ ~req'[a].force_fail => InForce(index'[a].generation)
  BY DEF Booked
<1>7. /\ active' # NoGeneration => InForce(active')
      /\ previous' # NoGeneration => InForce(previous') /\ active' \notin {NoGeneration, previous'}
  BY DEF Booked, BookStays
<1> QED
  BY <1>1, <1>3, <1>4, <1>5, <1>6, <1>7 DEF Booked, InForce, Activated, Generation, BookStays, StagedStatus

\* Every step keeps what the book promises.
LEMMA BookedStep ==
  ASSUME Typed, Typed', Grounded, Booked, [Next]_vars
  PROVE  Booked'
<1>0. \A g : InForce(g) => InForceNext(g)
  BY StatusMoves DEF InForce, InForceNext, Activated, Generation
<1>1. ASSUME NEW b \in Builder, NEW r \in Request, Call(b, r) PROVE Booked'
  <2>1. /\ req' = [req EXCEPT ![b] = r] /\ UNCHANGED <<staged, cache, book>> /\ DOMAIN index = Builder
        /\ pc \in [Builder -> {"idle", "providers", "stage", "activate", "label", "done", "raised"}]
    BY <1>1 DEF Call, Typed, TypeOK
  <2>2. \/ /\ CacheKey(r) \in DOMAIN cache /\ index' = [index EXCEPT ![b] = cache[CacheKey(r)]]
           /\ pc' = [pc EXCEPT ![b] = "done"]
        \/ pc' = [pc EXCEPT ![b] = "providers"] /\ UNCHANGED index
    BY <1>1, Zenon DEF Call
  <2>3. BookStays
    BY <2>1 DEF book, BookStays
  <2>4. \A k \in DOMAIN cache' : InForce(cache'[k].generation)
    BY <2>1 DEF Booked
  <2>5. \A a \in Builder \ {b} : UNCHANGED <<pc[a], req[a], staged[a], index[a]>>
    BY <2>1, <2>2
  <2>6. pc'[b] = "done" => InForce(index'[b].generation)
    BY <2>1, <2>2 DEF Booked
  <2>7. pc'[b] \in {"done", "providers"}
    BY <2>1, <2>2
  <2> QED
    BY <2>3, <2>4, <2>5, <2>6, <2>7, QuietBook
<1>2. ASSUME NEW b \in Builder, Turn(b) PROVE Booked'
  <2>1. /\ pc[b] = "providers"
        /\ Drop(b) \/ Unknown(b) \/ PassOver(b) \/ Degrade(b) \/ Run(b)
        /\ UNCHANGED <<req, staged, index, registry, cache, book>>
    BY <1>2, TurnIs
  <2>2. pc' = pc \/ pc' = [pc EXCEPT ![b] = "raised"]
    BY <2>1 DEF Drop, Unknown, PassOver, Degrade, Run
  <2>3. /\ pc'[b] \in {"providers", "raised"} /\ BookStays
        /\ \A a \in Builder \ {b} : UNCHANGED <<pc[a], req[a], staged[a], index[a]>>
    BY <1>2, <2>1, <2>2, TurnIs DEF book, BookStays, Typed, TypeOK
  <2>4. \A k \in DOMAIN cache' : InForce(cache'[k].generation)
    BY <2>1 DEF Booked
  <2> QED
    BY <2>3, <2>4, QuietBook
<1>3. ASSUME NEW b \in Builder, EndOfProviders(b) PROVE Booked'
  <2>1. /\ pc' = [pc EXCEPT ![b] = "stage"]
        /\ \A a \in Builder \ {b} : index'[a] = index[a]
        /\ UNCHANGED <<req, run, staged, registry, cache, book, payloads>>
    BY <1>3 DEF EndOfProviders, Typed
  <2>2. /\ pc'[b] = "stage" /\ BookStays
        /\ \A a \in Builder \ {b} : UNCHANGED <<pc[a], req[a], staged[a], index[a]>>
    BY <2>1 DEF book, BookStays, Typed, TypeOK
  <2>3. \A k \in DOMAIN cache' : InForce(cache'[k].generation)
    BY <2>1 DEF Booked
  <2> QED
    BY <2>2, <2>3, QuietBook
<1>4. ASSUME NEW b \in Builder, Stage(b) PROVE Booked'
  <2> DEFINE g == Len(status')
  <2>1. /\ pc[b] = "stage" /\ pc' = [pc EXCEPT ![b] = "activate"]
        /\ status' = Append(status, StagedStatus(req[b])) /\ staged' = [staged EXCEPT ![b] = g]
        /\ UNCHANGED <<req, index, cache, active, previous>>
    BY <1>4 DEF Stage
  <2>2. status \in Seq(Status) /\ StagedStatus(req[b]) \in Status
    BY DEF Typed, StagedStatus, Status
  <2>3. /\ g = Len(status) + 1 /\ Len(status) \in Nat
        /\ Generation = 1 .. Len(status) /\ Generation' = 1 .. Len(status) + 1
        /\ \A i \in Generation : status'[i] = status[i]
        /\ status'[g] = StagedStatus(req[b])
    BY <2>1, <2>2, Appended DEF Generation
  <2>4. /\ \A a \in Builder \ {b} : staged'[a] = staged[a] /\ pc'[a] = pc[a]
        /\ staged'[b] = g /\ pc'[b] = "activate"
    BY <2>1 DEF Typed, TypeOK
  <2>5. \A a \in Builder : pc'[a] = "activate" =>
          staged'[a] \in Generation' /\ status'[staged'[a]] = StagedStatus(req'[a])
    <3> SUFFICES ASSUME NEW a \in Builder, pc'[a] = "activate"
                 PROVE  staged'[a] \in Generation' /\ status'[staged'[a]] = StagedStatus(req'[a])
      OBVIOUS
    <3>1. CASE a = b
      BY <2>1, <2>3, <2>4, <3>1
    <3>2. CASE a # b
      <4>1. staged[a] \in Generation /\ status[staged[a]] = StagedStatus(req[a])
        BY <2>4, <3>2 DEF Booked
      <4> QED
        BY <2>1, <2>3, <2>4, <3>2, <4>1
    <3> QED
      BY <3>1, <3>2
  <2>6. \A a, c \in Builder :
          pc'[a] = "activate" /\ pc'[c] = "activate" /\ staged'[a] = staged'[c] => a = c
    <3>1. \A a \in Builder \ {b} : pc'[a] = "activate" => staged'[a] # g
      BY <2>3, <2>4 DEF Booked
    <3> QED
      BY <2>4, <3>1 DEF Booked
  <2>7. \A a \in Builder : pc'[a] \in {"label", "done"} => pc[a] = pc'[a]
    BY <2>4
  <2>8. /\ active' # NoGeneration => InForceNext(active')
        /\ previous' # NoGeneration => InForceNext(previous') /\ active' \notin {NoGeneration, previous'}
        /\ \A k \in DOMAIN cache' : InForceNext(cache'[k].generation)
        /\ \A a \in Builder : pc'[a] = "done" /\ ~req'[a].force_fail => InForceNext(index'[a].generation)
        /\ \A a \in Builder : pc'[a] = "label" /\ ~req'[a].force_fail => active' # NoGeneration
    BY <1>0, <2>1, <2>7 DEF Booked
  <2> QED
    BY <2>5, <2>6, <2>8 DEF Booked, InForce, InForceNext, Activated, Generation, StagedStatus
<1>5. ASSUME NEW b \in Builder, Activate(b) PROVE Booked'
  <2>1. /\ pc[b] = "activate" /\ pc' = [pc EXCEPT ![b] = "label"]
        /\ UNCHANGED <<req, staged, index, cache>>
    BY <1>5 DEF Activate
  <2>2. pc'[b] = "label" /\ \A a \in Builder \ {b} : pc'[a] = pc[a]
    BY <2>1 DEF Typed, TypeOK
  <2>3. staged[b] \in Generation /\ status[staged[b]] = StagedStatus(req[b])
    BY <2>1 DEF Booked
  <2>4. \A k \in DOMAIN cache' : InForce(cache'[k].generation)
    BY <2>1 DEF Booked
  <2>5. CASE ~MayActivate(staged[b])
    <3>1. BookStays
      BY <1>5, <2>5, Zenon DEF Activate, BookStays, book
    <3>2. req'[b].force_fail
      BY <2>1, <2>3, <2>5 DEF MayActivate, StagedStatus
    <3> QED
      BY <2>1, <2>2, <2>4, <3>1, <3>2, QuietBook
  <2>6. CASE MayActivate(staged[b])
    <3>1. previous' = active /\ active' = staged[b] /\ status' = [status EXCEPT ![staged[b]] = "active"]
      BY <1>5, <2>6, Zenon DEF Activate
    <3>2. /\ Generation' = Generation /\ status'[staged[b]] = "active"
          /\ \A g \in Generation \ {staged[b]} : status'[g] = status[g]
      BY <2>3, <3>1 DEF Generation
    <3>3. staged[b] # NoGeneration
      BY <2>3 DEF Generation, NoGeneration, Typed, TypeOK
    <3>4. status[staged[b]] # "active"
      BY <2>3 DEF StagedStatus
    <3>5. active' # NoGeneration /\ InForceNext(active')
      BY <2>3, <3>1, <3>2, <3>3 DEF InForceNext, Generation
    <3>6. previous' # NoGeneration => InForceNext(previous') /\ active' # previous'
      BY <1>0, <3>1, <3>4 DEF Booked, InForce, Activated
    <3>7. \A a \in Builder : pc'[a] = "activate" => a # b /\ staged[a] # staged[b]
      BY <2>1, <2>2 DEF Booked
    <3>8. \A a \in Builder : pc'[a] = "activate" =>
            staged'[a] \in Generation' /\ status'[staged'[a]] = StagedStatus(req'[a])
      BY <2>1, <2>2, <3>2, <3>7 DEF Booked
    <3>9. \A a, c \in Builder :
            pc'[a] = "activate" /\ pc'[c] = "activate" /\ staged'[a] = staged'[c] => a = c
      BY <2>1, <2>2, <3>7 DEF Booked
    <3>10. /\ \A k \in DOMAIN cache' : InForceNext(cache'[k].generation)
           /\ \A a \in Builder : pc'[a] = "done" /\ ~req'[a].force_fail => InForceNext(index'[a].generation)
      BY <1>0, <2>1, <2>2 DEF Booked
    <3>11. \A a \in Builder : pc'[a] = "label" /\ ~req'[a].force_fail => active' # NoGeneration
      BY <3>5
    <3> QED
      BY <3>5, <3>6, <3>8, <3>9, <3>10, <3>11 DEF Booked, InForce, InForceNext, Activated, Generation, StagedStatus
  <2> QED
    BY <2>5, <2>6
<1>6. ASSUME NEW b \in Builder, Label(b) PROVE Booked'
  <2> DEFINE made == [index[b] EXCEPT !.generation = GenerationOf(b)]
  <2>1. /\ pc[b] = "label" /\ pc' = [pc EXCEPT ![b] = "done"]
        /\ index' = [index EXCEPT ![b] = made]
        /\ UNCHANGED <<req, run, staged, registry, book, payloads>>
    BY <1>6, Zenon DEF Label
  <2>2. IsIndex(index[b])
    BY <2>1 DEF Grounded, Built
  <2>3. made.generation = GenerationOf(b)
    BY <2>2 DEF IsIndex
  <2>4. ~req[b].force_fail => InForce(made.generation)
    BY <2>1, <2>3 DEF Booked, GenerationOf
  <2>5. /\ BookStays /\ pc'[b] = "done" /\ index'[b] = made
        /\ \A a \in Builder \ {b} : UNCHANGED <<pc[a], req[a], staged[a], index[a]>>
    BY <2>1 DEF BookStays, book, Typed, TypeOK
  <2>6. \A k \in DOMAIN cache' : InForce(cache'[k].generation)
    <3> HIDE DEF made
    <3>1. \/ UNCHANGED cache
          \/ /\ ~req[b].force_fail
             /\ cache' = [k \in DOMAIN cache \cup {CacheKey(req[b])} |->
                            IF k = CacheKey(req[b]) THEN made ELSE cache[k]]
      BY <1>6, Zenon DEF Label, Caches, made
    <3> QED
      BY <2>4, <3>1 DEF Booked
  <2>7. pc'[b] = "done" /\ ~req'[b].force_fail => InForce(index'[b].generation)
    BY <2>1, <2>4, <2>5
  <2> QED
    BY <2>5, <2>6, <2>7, QuietBook
<1>7. ASSUME NEW b \in Builder, Return(b) PROVE Booked'
  <2>1. /\ pc' = [pc EXCEPT ![b] = "idle"] /\ UNCHANGED <<registry, cache, book, payloads>>
        /\ \A a \in Builder \ {b} : UNCHANGED <<req[a], staged[a], index[a]>>
    BY <1>7 DEF Return, Typed, TypeOK
  <2>2. /\ BookStays /\ pc'[b] = "idle"
        /\ \A a \in Builder \ {b} : UNCHANGED <<pc[a], req[a], staged[a], index[a]>>
    BY <2>1 DEF BookStays, book, Typed, TypeOK
  <2>3. \A k \in DOMAIN cache' : InForce(cache'[k].generation)
    BY <2>1 DEF Booked
  <2> QED
    BY <2>2, <2>3, QuietBook
<1>8. CASE Rollback
  <2>1. /\ previous # NoGeneration /\ active' = previous /\ previous' = active
        /\ status' = [status EXCEPT ![previous] = "active"]
        /\ UNCHANGED <<pc, req, staged, index, cache>>
    BY <1>8 DEF Rollback
  <2>2. InForce(previous) /\ InForce(active) /\ active # previous /\ active # NoGeneration
    BY <2>1 DEF Booked
  <2>3. DOMAIN status' = DOMAIN status /\ \A g \in DOMAIN status : status'[g] = status[g]
    BY <2>1, <2>2 DEF InForce, Activated, Generation
  <2>4. \A a \in Builder : pc'[a] = "activate" =>
          staged'[a] \in Generation' /\ status'[staged'[a]] = StagedStatus(req'[a])
    BY <2>1, <2>3 DEF Booked, Generation
  <2>5. /\ InForceNext(active') /\ InForceNext(previous') /\ active' \notin {NoGeneration, previous'}
        /\ \A k \in DOMAIN cache' : InForceNext(cache'[k].generation)
        /\ \A a \in Builder : pc'[a] = "done" /\ ~req'[a].force_fail => InForceNext(index'[a].generation)
    BY <1>0, <2>1, <2>2 DEF Booked
  <2>6. /\ \A a, c \in Builder :
             pc'[a] = "activate" /\ pc'[c] = "activate" /\ staged'[a] = staged'[c] => a = c
        /\ \A a \in Builder : pc'[a] = "label" /\ ~req'[a].force_fail => active' # NoGeneration
    BY <2>1 DEF Booked
  <2> QED
    BY <2>4, <2>5, <2>6 DEF Booked, InForce, InForceNext, Activated, Generation, StagedStatus
<1>9. CASE UNCHANGED vars
  BY <1>9 DEF vars, book, Booked, InForce, Activated, Generation, StagedStatus
<1> QED
  BY <1>1, <1>2, <1>3, <1>4, <1>5, <1>6, <1>7, <1>8, <1>9 DEF Next, Build

-----------------------------------------------------------------------------
(* Plans and the schemas they fit.                                         *)

\* A plan made for a profile names what the profile has, when every route does.
LEMMA PlansFit ==
  ASSUME NEW profile, NEW routes, \A x \in routes : RouteOk(x, profile)
  PROVE  Fits(Plans(profile, routes), Fingerprint(profile))
<1>1. /\ DOMAIN Fingerprint(profile) = DOMAIN profile
      /\ \A c \in DOMAIN profile : DOMAIN Fingerprint(profile)[c] = FieldPaths(profile, c)
  BY DEF Fingerprint, FieldPaths
<1> DEFINE Fitting(p) == /\ p.collection \in DOMAIN profile
                         /\ p.field # "" => p.field \in FieldPaths(profile, p.collection)
                         /\ p.to # "" => p.to \in DOMAIN profile
<1>2. ASSUME NEW p \in CountPlans(profile) PROVE Fitting(p)
  <2> PICK c \in DOMAIN profile : p = Plan("count", c, "", "")
    BY DEF CountPlans
  <2>1. p.collection = c /\ p.field = "" /\ p.to = ""
    BY DEF Plan
  <2> QED
    BY <2>1
<1>3. ASSUME NEW p \in FindPlans(profile) PROVE Fitting(p)
  <2> PICK c \in DOMAIN profile : \E f \in FieldPaths(profile, c) : p = Plan("find", c, f, "")
    BY DEF FindPlans
  <2> PICK f \in FieldPaths(profile, c) : p = Plan("find", c, f, "")
    OBVIOUS
  <2>1. p.collection = c /\ p.field = f /\ p.to = ""
    BY DEF Plan
  <2> QED
    BY <2>1
<1>4. ASSUME NEW p \in HopPlans(routes) PROVE Fitting(p)
  <2> PICK x \in routes : p = Plan("hop", x.from, x.field, x.to)
    BY DEF HopPlans
  <2>1. RouteOk(x, profile)
    OBVIOUS
  <2>2. p.collection = x.from /\ p.field = x.field /\ p.to = x.to
    BY DEF Plan
  <2> QED
    BY <2>1, <2>2 DEF RouteOk
<1>5. ASSUME NEW p \in Plans(profile, routes) PROVE Fitting(p)
  BY <1>2, <1>3, <1>4 DEF Plans
<1> QED
  BY <1>1, <1>5 DEF Fits

\* What validation leaves of the routes names what the profile has.
LEMMA ValidatedRoutes ==
  ASSUME NEW profile, NEW envelopes, NEW judge
  PROVE  \A x \in Validated(profile, envelopes, judge).routes : RouteOk(x, profile)
BY DEF Validated

\* The key under which an index is cached holds the fingerprint of its schema.
LEMMA KeyFingerprint ==
  ASSUME NEW r PROVE CacheKey(r).fingerprint = Fingerprint(ProfileOf(r))
BY DEF CacheKey

\* A step of one builder that leaves the cache and what the others have.
LEMMA QuietIndex ==
  ASSUME Grounded, NEW b \in Builder, UNCHANGED cache,
         \A a \in Builder \ {b} : UNCHANGED <<pc[a], req[a], index[a]>>,
         pc'[b] \in {"stage", "activate", "label", "done"} =>
           Built(index'[b], Fingerprint(ProfileOf(req'[b])))
  PROVE  Grounded'
<1>1. \A a \in Builder : pc'[a] \in {"stage", "activate", "label", "done"} =>
        Built(index'[a], Fingerprint(ProfileOf(req'[a])))
  BY DEF Grounded
<1>2. \A k \in DOMAIN cache' : Built(cache'[k], k.fingerprint)
  BY DEF Grounded
<1> QED
  BY <1>1, <1>2 DEF Grounded, Built, IsIndex, Fits, Databases, ProfileOf

\* Every step keeps indexes that fit the schema they were built for.
LEMMA GroundedStep ==
  ASSUME Typed, Grounded, [Next]_vars
  PROVE  Grounded'
<1>1. ASSUME NEW b \in Builder, NEW r \in Request, Call(b, r) PROVE Grounded'
  <2>1. /\ req' = [req EXCEPT ![b] = r] /\ UNCHANGED cache /\ DOMAIN index = Builder /\ DOMAIN req = Builder
        /\ pc \in [Builder -> {"idle", "providers", "stage", "activate", "label", "done", "raised"}]
    BY <1>1 DEF Call, Typed, TypeOK
  <2>2. \/ /\ CacheKey(r) \in DOMAIN cache /\ index' = [index EXCEPT ![b] = cache[CacheKey(r)]]
           /\ pc' = [pc EXCEPT ![b] = "done"]
        \/ pc' = [pc EXCEPT ![b] = "providers"] /\ UNCHANGED index
    BY <1>1, Zenon DEF Call
  <2>3. \A a \in Builder \ {b} : UNCHANGED <<pc[a], req[a], index[a]>>
    BY <2>1, <2>2
  <2>4. CASE pc' = [pc EXCEPT ![b] = "providers"]
    BY <2>1, <2>3, <2>4, QuietIndex
  <2>5. CASE CacheKey(r) \in DOMAIN cache /\ index' = [index EXCEPT ![b] = cache[CacheKey(r)]]
    <3>1. Built(cache[CacheKey(r)], Fingerprint(ProfileOf(r)))
      BY <2>5, KeyFingerprint DEF Grounded
    <3>2. index'[b] = cache[CacheKey(r)] /\ req'[b] = r
      BY <2>1, <2>5
    <3> QED
      BY <2>1, <2>3, <3>1, <3>2, QuietIndex
  <2> QED
    BY <2>2, <2>4, <2>5
<1>2. ASSUME NEW b \in Builder, Turn(b) PROVE Grounded'
  <2>1. /\ pc[b] = "providers"
        /\ Drop(b) \/ Unknown(b) \/ PassOver(b) \/ Degrade(b) \/ Run(b)
        /\ UNCHANGED <<req, index, cache>>
    BY <1>2, TurnIs
  <2>2. pc' = pc \/ pc' = [pc EXCEPT ![b] = "raised"]
    BY <2>1 DEF Drop, Unknown, PassOver, Degrade, Run
  <2>3. pc[b] = "providers"
    BY <1>2, TurnIs
  <2>4. pc'[b] \in {"providers", "raised"} /\ \A a \in Builder \ {b} : pc'[a] = pc[a]
    BY <2>2, <2>3 DEF Typed, TypeOK
  <2> QED
    BY <1>2, <2>4, QuietIndex, TurnIs
<1>3. ASSUME NEW b \in Builder, EndOfProviders(b) PROVE Grounded'
  <2> DEFINE profile == ProfileOf(req[b])
  <2> DEFINE val == Validated(profile, {results[b][i].envelope : i \in DOMAIN results[b]}, req[b].judge)
  <2> DEFINE made == [documents |-> req[b].documents, validation |-> val,
                      plans |-> Plans(profile, val.routes), generation |-> NoGeneration]
  <2>1. /\ pc[b] = "providers" /\ index' = [index EXCEPT ![b] = made] /\ pc' = [pc EXCEPT ![b] = "stage"]
        /\ UNCHANGED <<req, cache>>
    BY <1>3 DEF EndOfProviders
  <2>2. Fits(Plans(profile, val.routes), Fingerprint(profile))
    BY PlansFit, ValidatedRoutes
  <2>3. req[b] \in Request
    BY <2>1 DEF Typed
  <2>4. IsIndex(made) /\ made.documents = req[b].documents /\ made.plans = Plans(profile, val.routes)
    BY DEF IsIndex
  <2> HIDE DEF profile, val, made
  <2>5. Built(made, Fingerprint(profile))
    BY <2>2, <2>3, <2>4 DEF Built, Databases
  <2>6. index'[b] = made /\ \A a \in Builder \ {b} : UNCHANGED <<pc[a], req[a], index[a]>>
    BY <2>1 DEF Typed, TypeOK
  <2> QED
    BY <2>1, <2>5, <2>6, QuietIndex DEF profile
<1>4. ASSUME NEW b \in Builder, Stage(b) \/ Activate(b) PROVE Grounded'
  <2>1. /\ pc[b] \in {"stage", "activate"}
        /\ pc' = [pc EXCEPT ![b] = "activate"] \/ pc' = [pc EXCEPT ![b] = "label"]
        /\ UNCHANGED <<req, index, cache>>
    BY <1>4 DEF Stage, Activate
  <2>2. \A a \in Builder \ {b} : pc'[a] = pc[a]
    BY <2>1 DEF Typed, TypeOK
  <2>3. Built(index[b], Fingerprint(ProfileOf(req[b])))
    BY <2>1 DEF Grounded
  <2> QED
    BY <2>1, <2>2, <2>3, QuietIndex
<1>5. ASSUME NEW b \in Builder, Label(b) PROVE Grounded'
  <2> DEFINE made == [index[b] EXCEPT !.generation = GenerationOf(b)]
  <2> DEFINE fingerprint == Fingerprint(ProfileOf(req[b]))
  <2>1. /\ pc[b] = "label" /\ pc' = [pc EXCEPT ![b] = "done"]
        /\ index' = [index EXCEPT ![b] = made] /\ UNCHANGED req
    BY <1>5, Zenon DEF Label
  <2>2. Built(index[b], fingerprint)
    BY <2>1 DEF Grounded
  <2>3. IsIndex(index[b])
    BY <2>2 DEF Built
  <2>4. made.documents = index[b].documents /\ made.plans = index[b].plans /\ IsIndex(made)
    BY <2>3 DEF IsIndex
  <2> HIDE DEF made
  <2>5. Built(made, fingerprint)
    BY <2>2, <2>4 DEF Built
  <2>6. index'[b] = made /\ \A a \in Builder \ {b} : UNCHANGED <<pc[a], req[a], index[a]>>
    BY <2>1 DEF Typed, TypeOK
  <2>7. \/ UNCHANGED cache
        \/ cache' = [k \in DOMAIN cache \cup {CacheKey(req[b])} |->
                       IF k = CacheKey(req[b]) THEN made ELSE cache[k]]
    BY <1>5, Zenon DEF Label, made
  <2>8. CacheKey(req[b]).fingerprint = fingerprint
    BY KeyFingerprint
  <2>9. \A k \in DOMAIN cache' : Built(cache'[k], k.fingerprint)
    BY <2>5, <2>7, <2>8 DEF Grounded
  <2>10. \A a \in Builder : pc'[a] \in {"stage", "activate", "label", "done"} =>
           Built(index'[a], Fingerprint(ProfileOf(req'[a])))
    BY <2>1, <2>5, <2>6 DEF Grounded
  <2> QED
    BY <2>9, <2>10 DEF Grounded, Built, IsIndex, Fits, Databases, ProfileOf
<1>6. ASSUME NEW b \in Builder, Return(b) PROVE Grounded'
  <2>1. /\ pc'[b] = "idle" /\ UNCHANGED cache
        /\ \A a \in Builder \ {b} : UNCHANGED <<pc[a], req[a], index[a]>>
    BY <1>6 DEF Return, Typed, TypeOK
  <2> QED
    BY <2>1, QuietIndex
<1>7. CASE Rollback \/ UNCHANGED vars
  <2>1. UNCHANGED <<pc, req, index, cache>>
    BY <1>7 DEF Rollback, vars
  <2> QED
    BY <2>1 DEF Grounded, Built, IsIndex, Fits, Databases, ProfileOf
<1> QED
  BY <1>1, <1>2, <1>3, <1>4, <1>5, <1>6, <1>7 DEF Next, Build

-----------------------------------------------------------------------------
(* What the schema model is shown.                                         *)

\* Every string of a payload is what a collection or a field of the call's documents is
\* called: a profile has no other strings.
LEMMA PayloadNames ==
  ASSUME NEW r \in Request
  PROVE  \A s \in Payload(r) : IsName(s)
<1> DEFINE db == r.documents
<1>1. DOMAIN ProfileOf(r) = DOMAIN db
  BY DEF ProfileOf, Profile
<1>2. ASSUME NEW c \in DOMAIN db, NEW s \in FieldPaths(ProfileOf(r), c)
      PROVE  \E d \in Docs(db[c]) : \E f \in DOMAIN d : s = Normal[f]
  <2> DEFINE n == Smaller(SampleSize, Len(db[c]))
  <2> DEFINE sample == {db[c][i] : i \in 1 .. n}
  <2>1. ProfileOf(r)[c] = CollectionProfile(db[c], SampleSize)
    BY DEF ProfileOf, Profile
  <2>2. DOMAIN ProfileOf(r)[c].fields = Paths(sample)
    BY <2>1 DEF CollectionProfile
  <2>3. s \in Paths(sample)
    BY <1>1, <1>2, <2>2 DEF FieldPaths
  <2>4. db[c] \in Seq(Docs(db[c]))
    BY CallAssumption DEF IsCollection
  <2>5. 1 .. n \subseteq DOMAIN db[c]
    BY <2>4, BuildAssumption DEF Smaller
  <2>6. sample \subseteq Docs(db[c])
    BY <2>5 DEF Docs
  <2> HIDE DEF sample, db
  <2>7. PICK d \in sample : s \in {Normal[f] : f \in DOMAIN d}
    BY <2>3 DEF Paths
  <2> QED
    BY <2>6, <2>7
<1>3. ASSUME NEW s \in Payload(r) PROVE IsName(s)
  <2>1. s \in DOMAIN ProfileOf(r) \/ \E c \in DOMAIN ProfileOf(r) : s \in FieldPaths(ProfileOf(r), c)
    BY DEF Payload, Masked
  <2> QED
    BY <1>1, <1>2, <2>1 DEF IsName
<1> QED
  BY <1>3

\* The model is asked only after the payload was found to disclose nothing forbidden.
LEMMA MaskingStep ==
  ASSUME Typed, Masking, [Next]_vars
  PROVE  Masking'
<1>1. ASSUME NEW b \in Builder, Turn(b) PROVE Masking'
  <2>1. Drop(b) \/ Unknown(b) \/ PassOver(b) \/ Degrade(b) \/ Run(b)
    BY <1>1, TurnIs
  <2>2. req[b] \in Request
    BY <1>1, TurnIs DEF Typed
  <2>3. CASE UNCHANGED payloads
    BY <2>3 DEF Masking, IsName
  <2>4. CASE Run(b)
    <3>1. \/ UNCHANGED payloads
          \/ /\ Disclosed(Payload(req[b]), Forbidden)
             /\ payloads' = payloads \cup Payload(req[b])
      BY <2>4 DEF Run
    <3>2. CASE Disclosed(Payload(req[b]), Forbidden) /\ payloads' = payloads \cup Payload(req[b])
      BY <2>2, <3>2, PayloadNames DEF Masking, Disclosed, IsName
    <3> QED
      BY <2>3, <3>1, <3>2
  <2> QED
    BY <2>1, <2>3, <2>4 DEF Drop, Unknown, PassOver, Degrade
<1>2. ASSUME NEW b \in Builder,
             (\E r \in Request : Call(b, r)) \/ EndOfProviders(b) \/ Stage(b) \/ Activate(b) \/ Label(b) \/ Return(b)
      PROVE  Masking'
  <2>1. UNCHANGED payloads
    BY <1>2 DEF Call, EndOfProviders, Stage, Activate, Label, Return
  <2> QED
    BY <2>1 DEF Masking, IsName
<1>3. CASE Rollback \/ UNCHANGED vars
  <2>1. UNCHANGED payloads
    BY <1>3 DEF Rollback, vars
  <2> QED
    BY <2>1 DEF Masking, IsName
<1> QED
  BY <1>1, <1>2, <1>3 DEF Next, Build

-----------------------------------------------------------------------------
(* The queue of providers.                                                 *)

\* What stands at the head is blocked when all of the queue was passed over.
LEMMA NotAllPassedOver ==
  ASSUME NEW r \in Request, NEW queue \in Seq(Provider), NEW res, NEW turns, queue # <<>>,
         NEW k \in 0 .. Len(queue), PassedOver(r, queue, res, turns, k),
         ~Blocked(Head(queue), r, res)
  PROVE  k < Len(queue)
<1>1. Len(queue) \in Nat /\ Len(queue) >= 1 /\ Head(queue) = queue[1]
  BY HeadAndTail
<1> SUFFICES ASSUME k = Len(queue) PROVE FALSE
  BY <1>1
<1>2. 1 \in Len(queue) - k + 1 .. Len(queue)
  BY <1>1
<1>3. Blocked(queue[1], r, res)
  BY <1>2 DEF PassedOver
<1> QED
  BY <1>1, <1>3

\* A turn whose name has a result already.
LEMMA DropWaiting ==
  ASSUME NEW r \in Request, NEW queue \in Seq(Provider), NEW res \in Seq(Result), NEW turns \in Nat,
         queue # <<>>, turns < MaxSpins(r), Waiting(r, queue, res, turns), Head(queue) \in Answered(res)
  PROVE  Waiting(r, Tail(queue), res, turns + 1)
<1> DEFINE p == Head(queue)
<1> DEFINE l == Len(queue)
<1> DEFINE n == Len(r.enabled)
<1> DEFINE m == Len(res)
<1>1. n \in Nat /\ MaxSpins(r) \in Nat /\ m \in Nat
  BY RequestType
<1>2. /\ l \in Nat /\ l >= 1 /\ Len(Tail(queue)) = l - 1
      /\ \A i \in 1 .. l - 1 : Tail(queue)[i] = queue[i + 1]
      /\ Names(queue) = {p} \cup Names(Tail(queue))
  BY HeadAndTail
<1>3. PICK k \in 0 .. l : PassedOver(r, queue, res, turns, k)
  BY DEF Waiting
<1>4. k < l
  BY <1>3, NotAllPassedOver DEF Blocked
<1>5. PICK most \in Nat : most = n + n * m
  BY <1>1
<1>6. turns + (l - k) <= most /\ \A i \in l - k + 1 .. l : Blocked(queue[i], r, res)
  BY <1>3, <1>4, <1>5 DEF PassedOver
<1>7. ASSUME NEW i \in (l - 1) - k + 1 .. l - 1 PROVE Blocked(Tail(queue)[i], r, res)
  <2>1. i \in 1 .. l - 1 /\ i + 1 \in l - k + 1 .. l
    BY <1>2, <1>4
  <2> QED
    BY <1>2, <1>6, <2>1
<1>8. (turns + 1) + ((l - 1) - k) <= most
  BY <1>2, <1>4, <1>6
<1>9. PassedOver(r, Tail(queue), res, turns + 1, k)
  BY <1>2, <1>5, <1>7, <1>8 DEF PassedOver
<1>10. k \in 0 .. l - 1
  BY <1>2, <1>4
<1>11. /\ Names(Tail(queue)) \subseteq Names(r.enabled)
       /\ Names(r.enabled) \subseteq Answered(res) \cup Names(Tail(queue))
       /\ l - 1 <= n /\ turns + 1 <= MaxSpins(r)
  BY <1>1, <1>2 DEF Waiting
<1> QED
  BY <1>2, <1>9, <1>10, <1>11 DEF Waiting

\* A turn whose name waits for another name of the call.
LEMMA PassOverWaiting ==
  ASSUME NEW r \in Request, NEW queue \in Seq(Provider), NEW res \in Seq(Result), NEW turns \in Nat,
         queue # <<>>, turns < MaxSpins(r), Waiting(r, queue, res, turns), Blocked(Head(queue), r, res)
  PROVE  Waiting(r, Append(Tail(queue), Head(queue)), res, turns + 1)
<1> DEFINE p == Head(queue)
<1> DEFINE l == Len(queue)
<1> DEFINE n == Len(r.enabled)
<1> DEFINE m == Len(res)
<1>1. n \in Nat /\ MaxSpins(r) \in Nat /\ m \in Nat
  BY RequestType
<1>2. /\ l \in Nat /\ l >= 1 /\ Len(Tail(queue)) = l - 1
      /\ p \in Provider /\ Tail(queue) \in Seq(Provider)
      /\ \A i \in 1 .. l - 1 : Tail(queue)[i] = queue[i + 1]
      /\ Names(queue) = {p} \cup Names(Tail(queue))
  BY HeadAndTail
<1>3. PICK k \in 0 .. l : PassedOver(r, queue, res, turns, k)
  BY DEF Waiting
<1>4. PICK most \in Nat : most = n + n * m
  BY <1>1
<1>5. /\ k < l => turns + (l - k) <= most
      /\ \A i \in l - k + 1 .. l : Blocked(queue[i], r, res)
  BY <1>3, <1>4 DEF PassedOver
<1>6. PICK longer : longer = Append(Tail(queue), p)
  OBVIOUS
<1>8. /\ Len(longer) = l /\ longer[l] = p
      /\ \A i \in 1 .. l - 1 : longer[i] = queue[i + 1]
      /\ Names(longer) = Names(queue)
  BY <1>6, Rotated
<1>. l \in Nat /\ k \in 0 .. l
  BY <1>2, <1>3
<1>9. ASSUME NEW i \in l - k .. l, i >= 1 PROVE Blocked(longer[i], r, res)
  <2>1. CASE i = l
    BY <1>8, <2>1
  <2>2. CASE i # l
    <3>1. i \in 1 .. l - 1 /\ i + 1 \in l - k + 1 .. l
      BY <1>9, <2>2
    <3> QED
      BY <1>5, <1>8, <3>1
  <2> QED
    BY <2>1, <2>2
<1>10. \E j \in 0 .. l : PassedOver(r, longer, res, turns + 1, j)
  <2>1. CASE k < l
    <3>1. k + 1 \in 0 .. l
      BY <1>2, <2>1
    <3>2. ASSUME NEW i \in l - (k + 1) + 1 .. l PROVE Blocked(longer[i], r, res)
      <4>1. i \in l - k .. l /\ i >= 1
        BY <1>2, <2>1
      <4> QED
        BY <1>9, <4>1
    <3>3. (turns + 1) + (l - (k + 1)) <= most
      BY <1>2, <1>5, <2>1
    <3>4. PassedOver(r, longer, res, turns + 1, k + 1)
      BY <1>4, <1>8, <3>2, <3>3 DEF PassedOver
    <3> QED
      BY <3>1, <3>4
  <2>2. CASE k = l
    <3>1. ASSUME NEW i \in l - l + 1 .. l PROVE Blocked(longer[i], r, res)
      <4>1. i \in l - k .. l /\ i >= 1
        BY <1>2, <2>2
      <4> QED
        BY <1>9, <4>1
    <3>2. PassedOver(r, longer, res, turns + 1, l)
      BY <1>2, <1>8, <3>1 DEF PassedOver
    <3> QED
      BY <1>2, <3>2
  <2>3. k < l \/ k = l
    OBVIOUS
  <2> QED
    BY <2>1, <2>2, <2>3
<1>11. turns + 1 <= MaxSpins(r)
  BY <1>1
<1>12. Waiting(r, longer, res, turns + 1)
  BY <1>8, <1>10, <1>11 DEF Waiting
<1> QED
  BY <1>6, <1>12

\* The bound on the turns grows by the number of names with every result.
LEMMA OneMore ==
  ASSUME NEW n \in Nat, NEW m \in Nat
  PROVE  n + n * (m + 1) = (n + n * m) + n
OBVIOUS

\* A turn that gives the name at the head a result, after which it is off the queue or,
\* degraded, at its end.
LEMMA ResultWaiting ==
  ASSUME NEW r \in Request, NEW queue \in Seq(Provider), NEW res \in Seq(Result), NEW turns \in Nat,
         queue # <<>>, turns < MaxSpins(r), Waiting(r, queue, res, turns), ~Blocked(Head(queue), r, res),
         NEW more \in Seq(Result), Len(more) = Len(res) + 1,
         Answered(more) = Answered(res) \cup {Head(queue)},
         NEW rest, rest = Tail(queue) \/ rest = Append(Tail(queue), Head(queue))
  PROVE  Waiting(r, rest, more, turns + 1)
<1>1. PICK n \in Nat, m \in Nat, most \in Nat :
        n = Len(r.enabled) /\ m = Len(res) /\ most = n + n * m
  BY RequestType
<1>2. PICK l \in Nat : l = Len(queue)
  OBVIOUS
<1>5. /\ l >= 1 /\ Len(Tail(queue)) = l - 1
       /\ Names(queue) = {Head(queue)} \cup Names(Tail(queue))
  BY <1>2, HeadAndTail
<1>3. PICK k \in 0 .. l : PassedOver(r, queue, res, turns, k)
  BY <1>2 DEF Waiting
<1>4. k < l
  BY <1>2, <1>3, NotAllPassedOver
<1>6. n + n * Len(more) = most + n
  <2>1. Len(more) = m + 1
    BY <1>1
  <2>2. n + n * (m + 1) = most + n
    BY ONLY <1>1, OneMore
  <2> QED
    BY ONLY <2>1, <2>2
<1>7. turns + (l - k) <= most
  BY <1>1, <1>2, <1>3, <1>4 DEF PassedOver
<1>8. l <= n /\ turns + 1 <= MaxSpins(r)
  BY <1>1, <1>2, RequestType DEF Waiting
<1>9. turns + 1 + l <= most + n
  BY ONLY <1>1, <1>2, <1>5, <1>3, <1>4, <1>7, <1>8, turns \in Nat, SMTT(30)
<1>10. PICK size \in 0 .. l : size = Len(rest)
  <2>1. CASE rest = Tail(queue)
    BY <1>2, <1>5, <2>1
  <2>2. CASE rest = Append(Tail(queue), Head(queue))
    <3>1. Len(rest) = l
      BY <1>2, <2>2, Rotated
    <3> QED
      BY <1>2, <1>5, <3>1
  <2> QED
    BY <2>1, <2>2
<1>11. Names(rest) \cup {Head(queue)} = Names(queue)
  <2>1. CASE rest = Tail(queue)
    BY <1>2, <1>5, <2>1
  <2>2. CASE rest = Append(Tail(queue), Head(queue))
    <3>1. Names(rest) = Names(queue)
      BY <1>2, <2>2, Rotated
    <3> QED
      BY <1>2, <1>5, <3>1
  <2> QED
    BY <2>1, <2>2
<1>12. PassedOver(r, rest, more, turns + 1, 0)
  <2>1. turns + 1 + (size - 0) <= most + n
    BY ONLY <1>1, <1>2, <1>9, <1>10, turns \in Nat
  <2>2. \A i \in size - 0 + 1 .. size : FALSE
    BY ONLY <1>2, <1>10
  <2>3. \A i \in Len(rest) - 0 + 1 .. Len(rest) : Blocked(rest[i], r, more)
    BY ONLY <1>10, <2>2
  <2>4. turns + 1 + (Len(rest) - 0) <= Len(r.enabled) + Len(r.enabled) * Len(more)
    BY ONLY <1>1, <1>6, <1>10, <2>1
  <2> QED
    BY ONLY <2>3, <2>4 DEF PassedOver
<1>13. /\ Names(queue) \subseteq Names(r.enabled)
       /\ Answered(res) \subseteq Names(r.enabled)
       /\ Names(r.enabled) \subseteq Answered(res) \cup Names(queue)
  BY DEF Waiting
<1>14. /\ Names(rest) \subseteq Names(r.enabled)
       /\ Answered(more) \subseteq Names(r.enabled)
       /\ Names(r.enabled) \subseteq Answered(more) \cup Names(rest)
  <2>1. Answered(more) = Answered(res) \cup {Head(queue)}
    OBVIOUS
  <2> QED
    BY ONLY <1>11, <1>13, <2>1
<1>15. size <= n /\ 0 \in 0 .. size
  BY <1>1, <1>2, <1>8, <1>10
<1> QED
  BY <1>8, <1>10, <1>12, <1>14, <1>15, SMTT(30) DEF Waiting

\* One more result, of a name that had none and, if it is ok, after all it requires.
LEMMA ResultAdded ==
  ASSUME NEW res \in Seq(Result), NEW x \in Result, NEW more, more = Append(res, x),
         EvaluatedOnce(res), EvaluatedAfter(res), x.provider \notin Answered(res),
         x.envelope.status = "ok" => Requires[x.provider] \subseteq Answered(res)
  PROVE  /\ more \in Seq(Result) /\ Len(more) = Len(res) + 1
         /\ Answered(more) = Answered(res) \cup {x.provider}
         /\ EvaluatedOnce(more) /\ EvaluatedAfter(more)
<1>1. /\ more \in Seq(Result) /\ Len(more) = Len(res) + 1 /\ Len(res) \in Nat
      /\ DOMAIN res = 1 .. Len(res) /\ DOMAIN more = 1 .. Len(res) + 1
      /\ \A i \in 1 .. Len(res) : more[i] = res[i]
      /\ more[Len(res) + 1] = x
  OBVIOUS
<1> DEFINE last == Len(res) + 1
<1>2. \A i \in DOMAIN more : i = last \/ i \in DOMAIN res
  BY <1>1
<1>3. \A i \in DOMAIN res : more[i] = res[i] /\ i \in DOMAIN more /\ i # last
  BY <1>1
<1>4. more[last] = x /\ last \in DOMAIN more
  BY <1>1
<1>5. \A i \in DOMAIN res : res[i].provider \in Answered(res)
  BY DEF Answered
<1>6. Answered(more) = Answered(res) \cup {x.provider}
  <2>1. \A i \in DOMAIN more : more[i].provider \in Answered(res) \cup {x.provider}
    BY <1>2, <1>3, <1>4, <1>5
  <2>2. \A i \in DOMAIN res : res[i].provider \in Answered(more)
    BY <1>3 DEF Answered
  <2>3. x.provider \in Answered(more)
    BY <1>4 DEF Answered
  <2>4. Answered(more) \subseteq Answered(res) \cup {x.provider}
    BY <2>1 DEF Answered
  <2>5. Answered(res) \subseteq Answered(more)
    BY <2>2 DEF Answered
  <2> QED
    BY <2>3, <2>4, <2>5
<1>7. EvaluatedOnce(more)
  <2> SUFFICES ASSUME NEW i \in DOMAIN more, NEW j \in DOMAIN more, more[i].provider = more[j].provider
               PROVE  i = j
    BY DEF EvaluatedOnce
  <2>1. CASE i \in DOMAIN res /\ j \in DOMAIN res
    BY <1>3, <2>1 DEF EvaluatedOnce
  <2>2. CASE i = last /\ j \in DOMAIN res
    BY <1>3, <1>4, <1>5, <2>2
  <2>3. CASE i \in DOMAIN res /\ j = last
    BY <1>3, <1>4, <1>5, <2>3
  <2> QED
    BY <1>2, <2>1, <2>2, <2>3
<1>8. EvaluatedAfter(more)
  <2> SUFFICES ASSUME NEW i \in DOMAIN more, more[i].envelope.status = "ok"
               PROVE  Requires[more[i].provider] \subseteq {more[j].provider : j \in 1 .. i - 1}
    BY DEF EvaluatedAfter
  <2>1. CASE i \in DOMAIN res
    <3>1. more[i] = res[i] /\ \A j \in 1 .. i - 1 : more[j] = res[j]
      BY <1>1, <2>1
    <3>2. Requires[res[i].provider] \subseteq {res[j].provider : j \in 1 .. i - 1}
      BY <2>1, <3>1 DEF EvaluatedAfter
    <3> QED
      BY <3>1, <3>2
  <2>2. CASE i = last
    <3>1. i - 1 = Len(res)
      BY <1>1, <2>2
    <3>2. Answered(res) \subseteq {more[j].provider : j \in 1 .. i - 1}
      BY <1>1, <3>1 DEF Answered
    <3> QED
      BY <1>4, <2>2, <3>2
  <2> QED
    BY <1>2, <2>1, <2>2
<1> QED
  BY <1>1, <1>6, <1>7, <1>8

\* A turn keeps the queue of its builder in order.
LEMMA TurnQueued ==
  ASSUME Typed, Queued, NEW b \in Builder, Turn(b)
  PROVE  QueuedAs(pc'[b], req'[b], pending'[b], results'[b], spins'[b])
<1> DEFINE p == Head(pending[b])
<1>1. /\ pc[b] = "providers" /\ pending[b] # <<>> /\ spins[b] < MaxSpins(req[b])
      /\ spins' = [spins EXCEPT ![b] = spins[b] + 1] /\ UNCHANGED req
      /\ Drop(b) \/ Unknown(b) \/ PassOver(b) \/ Degrade(b) \/ Run(b)
  BY TurnIs
<1>2. /\ pending[b] \in Seq(Provider) /\ results[b] \in Seq(Result) /\ spins[b] \in Nat
      /\ spins'[b] = spins[b] + 1 /\ req[b] \in Request
      /\ b \in DOMAIN pending /\ b \in DOMAIN results /\ b \in DOMAIN pc
  BY <1>1 DEF Typed, TypeOK
<1>3. /\ EvaluatedOnce(results[b]) /\ EvaluatedAfter(results[b])
      /\ Waiting(req[b], pending[b], results[b], spins[b])
  BY <1>1 DEF Queued, QueuedAs
<1>4. Done(b) = Answered(results[b])
  BY DEF Done, Answered
<1>5. p \in Provider
  BY <1>1, <1>2, HeadAndTail
<1>6. CASE Drop(b)
  <2>1. /\ p \in Answered(results[b]) /\ pending'[b] = Tail(pending[b])
        /\ UNCHANGED <<pc, results>>
    BY <1>2, <1>4, <1>6 DEF Drop
  <2>2. Waiting(req[b], Tail(pending[b]), results[b], spins[b] + 1)
    BY <1>1, <1>2, <1>3, <2>1, DropWaiting
  <2> QED
    BY <1>1, <1>2, <1>3, <2>1, <2>2 DEF QueuedAs
<1>7. CASE Unknown(b)
  <2>1. pc'[b] = "raised" /\ UNCHANGED results
    BY <1>2, <1>7 DEF Unknown
  <2> QED
    BY <1>3, <2>1 DEF QueuedAs
<1>8. CASE PassOver(b)
  <2>1. /\ Blocked(p, req[b], results[b]) /\ pending'[b] = Append(Tail(pending[b]), p)
        /\ UNCHANGED <<pc, results>>
    BY <1>2, <1>4, <1>8 DEF PassOver, Blocked
  <2>2. Waiting(req[b], Append(Tail(pending[b]), p), results[b], spins[b] + 1)
    BY <1>1, <1>2, <1>3, <2>1, PassOverWaiting
  <2> QED
    BY <1>1, <1>2, <1>3, <2>1, <2>2 DEF QueuedAs
<1>9. ASSUME NEW e, [provider |-> p, envelope |-> e] \in Result, Add(b, p, e),
             p \notin Answered(results[b]), ~Blocked(p, req[b], results[b]),
             e.status = "ok" => Requires[p] \subseteq Answered(results[b]),
             pending'[b] = Tail(pending[b]) \/ pending'[b] = Append(Tail(pending[b]), p),
             UNCHANGED pc
      PROVE  QueuedAs(pc'[b], req'[b], pending'[b], results'[b], spins'[b])
  <2> PICK x : x = [provider |-> p, envelope |-> e]
    OBVIOUS
  <2>1. x \in Result /\ x.provider = p /\ x.envelope = e
    BY <1>9
  <2>2. results'[b] = Append(results[b], x)
    BY <1>2, <1>9 DEF Add
  <2>3. x.provider \notin Answered(results[b])
    BY <1>9, <2>1
  <2>4. x.envelope.status = "ok" => Requires[x.provider] \subseteq Answered(results[b])
    BY <1>9, <2>1
  <2>5. /\ results'[b] \in Seq(Result) /\ Len(results'[b]) = Len(results[b]) + 1
        /\ Answered(results'[b]) = Answered(results[b]) \cup {x.provider}
        /\ EvaluatedOnce(results'[b]) /\ EvaluatedAfter(results'[b])
    <3>1. PICK res, more : res = results[b] /\ more = results'[b]
      OBVIOUS
    <3>2. /\ res \in Seq(Result) /\ more = Append(res, x) /\ EvaluatedOnce(res) /\ EvaluatedAfter(res)
          /\ x.provider \notin Answered(res)
          /\ x.envelope.status = "ok" => Requires[x.provider] \subseteq Answered(res)
      BY <1>2, <1>3, <2>2, <2>3, <2>4, <3>1
    <3>3. /\ more \in Seq(Result) /\ Len(more) = Len(res) + 1
          /\ Answered(more) = Answered(res) \cup {x.provider}
          /\ EvaluatedOnce(more) /\ EvaluatedAfter(more)
      <4>1. more \in Seq(Result) /\ Len(more) = Len(res) + 1
        BY ONLY <2>1, <3>2
      <4>2. /\ Answered(more) = Answered(res) \cup {x.provider}
            /\ EvaluatedOnce(more) /\ EvaluatedAfter(more)
        BY ONLY <2>1, <3>2, ResultAdded, Zenon
      <4> QED
        BY <4>1, <4>2
    <3> QED
      BY <3>1, <3>3
  <2>6. Waiting(req[b], pending'[b], results'[b], spins[b] + 1)
    BY <1>1, <1>2, <1>3, <1>9, <2>1, <2>5, ResultWaiting
  <2> QED
    BY <1>1, <1>2, <1>9, <2>5, <2>6 DEF QueuedAs
<1>10. CASE Degrade(b)
  <2>1. /\ p \notin Done(b) /\ (Requires[p] \ Done(b)) \cap Names(req[b].enabled) = {}
        /\ Add(b, p, Degraded) /\ UNCHANGED pc
        /\ pending'[b] = Append(Tail(pending[b]), p)
    BY <1>2, <1>10 DEF Degrade
  <2>2. p \notin Answered(results[b]) /\ ~Blocked(p, req[b], results[b])
    BY <1>4, <2>1 DEF Blocked
  <2>3. [provider |-> p, envelope |-> Degraded] \in Result
    BY <1>2, <1>5, EvaluateType
  <2> QED
    BY <1>9, <2>1, <2>2, <2>3, DegradedIsNotOk
<1>11. CASE Run(b)
  <2> DEFINE e == Evaluate(p, req[b], Payload(req[b]))
  <2>1. /\ p \notin Done(b) /\ Requires[p] \subseteq Done(b)
        /\ Add(b, p, e) /\ UNCHANGED pc
        /\ pending'[b] = Tail(pending[b])
    BY <1>2, <1>11 DEF Run
  <2>2. /\ p \notin Answered(results[b]) /\ ~Blocked(p, req[b], results[b])
        /\ Requires[p] \subseteq Answered(results[b])
    BY <1>4, <2>1 DEF Blocked
  <2>3. [provider |-> p, envelope |-> e] \in Result
    BY <1>2, <1>5, EvaluateType
  <2> HIDE DEF e
  <2> QED
    BY <1>9, <2>1, <2>2, <2>3
<1> QED
  BY <1>1, <1>6, <1>7, <1>8, <1>10, <1>11

\* A call starts with all of its names in the queue and no result.
LEMMA StartWaiting ==
  ASSUME NEW r \in Request
  PROVE  Waiting(r, r.enabled, <<>>, 0)
<1>1. PICK n \in Nat : n = Len(r.enabled)
  BY RequestType
<1>2. Answered(<<>>) = {} /\ Len(<<>>) = 0
  BY DEF Answered
<1>3. PassedOver(r, r.enabled, <<>>, 0, 0)
  <2>1. 0 + (n - 0) <= n + n * 0 /\ \A i \in n - 0 + 1 .. n : FALSE
    BY <1>1
  <2>2. \A i \in Len(r.enabled) - 0 + 1 .. Len(r.enabled) : Blocked(r.enabled[i], r, <<>>)
    BY <1>1, <2>1
  <2>3. 0 + (Len(r.enabled) - 0) <= Len(r.enabled) + Len(r.enabled) * Len(<<>>)
    BY <1>1, <1>2, <2>1
  <2> QED
    BY <2>2, <2>3 DEF PassedOver
<1>4. 0 \in 0 .. Len(r.enabled) /\ Len(r.enabled) <= Len(r.enabled) /\ 0 <= MaxSpins(r)
  BY RequestType
<1> QED
  BY <1>2, <1>3, <1>4 DEF Waiting

\* Every step keeps the queues in order.
LEMMA QueuedStep ==
  ASSUME Typed, Queued, [Next]_vars
  PROVE  Queued'
<1> DEFINE Kept(a) == QueuedAs(pc'[a], req'[a], pending'[a], results'[a], spins'[a])
<1>0. \A a \in Builder : UNCHANGED <<pc[a], req[a], pending[a], results[a], spins[a]>> => Kept(a)
  BY DEF Queued
<1> SUFFICES \A a \in Builder : Kept(a)
  BY DEF Queued
<1>1. ASSUME NEW b \in Builder, NEW r \in Request, Call(b, r) PROVE \A a \in Builder : Kept(a)
  <2>1. /\ pc[b] = "idle" /\ req' = [req EXCEPT ![b] = r] /\ UNCHANGED <<results, spins>>
        /\ \/ pc' = [pc EXCEPT ![b] = "done"] /\ UNCHANGED pending
           \/ /\ pending' = [pending EXCEPT ![b] = r.enabled]
              /\ pc' = [pc EXCEPT ![b] = "providers"]
    BY <1>1, Zenon DEF Call
  <2>2. results[b] = <<>> /\ spins[b] = 0 /\ EvaluatedOnce(results[b]) /\ EvaluatedAfter(results[b])
    BY <2>1 DEF Typed, Queued, QueuedAs
  <2>3. Kept(b)
    <3>1. req'[b] = r /\ results'[b] = results[b] /\ spins'[b] = 0
      BY <2>1, <2>2 DEF Typed
    <3>2. pc'[b] = "done" \/ (pc'[b] = "providers" /\ pending'[b] = r.enabled)
      BY <2>1 DEF Typed, TypeOK
    <3>3. pc'[b] = "providers" => Waiting(r, pending'[b], <<>>, 0)
      BY <3>2, StartWaiting
    <3> QED
      BY <2>2, <3>1, <3>2, <3>3 DEF QueuedAs
  <2>4. \A a \in Builder \ {b} : UNCHANGED <<pc[a], req[a], pending[a], results[a], spins[a]>>
    BY <2>1 DEF Typed, TypeOK
  <2> QED
    BY <1>0, <2>3, <2>4
<1>2. ASSUME NEW b \in Builder, Turn(b) PROVE \A a \in Builder : Kept(a)
  <2>1. Kept(b)
    BY <1>2, TurnQueued
  <2>2. /\ spins' = [spins EXCEPT ![b] = spins[b] + 1] /\ UNCHANGED req
        /\ Drop(b) \/ Unknown(b) \/ PassOver(b) \/ Degrade(b) \/ Run(b)
    BY <1>2, TurnIs
  <2>3. \A a \in Builder \ {b} : UNCHANGED <<pc[a], req[a], pending[a], results[a], spins[a]>>
    BY <2>2 DEF Drop, Unknown, PassOver, Degrade, Run, Add, Typed, TypeOK
  <2> QED
    BY <1>0, <2>1, <2>3
<1>3. ASSUME NEW b \in Builder, EndOfProviders(b) PROVE \A a \in Builder : Kept(a)
  <2>1. /\ pc[b] = "providers" /\ (pending[b] = <<>> \/ spins[b] >= MaxSpins(req[b]))
        /\ pc' = [pc EXCEPT ![b] = "stage"] /\ UNCHANGED <<req, pending, results, spins>>
    BY <1>3 DEF EndOfProviders, run
  <2>2. QueuedAs("providers", req[b], pending[b], results[b], spins[b])
    BY <2>1 DEF Queued
  <2>3. spins[b] <= MaxSpins(req[b])
    BY <2>2 DEF QueuedAs, Waiting
  <2>4. spins[b] \in Nat /\ MaxSpins(req[b]) \in Nat
    BY <2>1, RequestType DEF Typed, TypeOK
  <2>5. pending[b] = <<>> \/ spins[b] = MaxSpins(req[b])
    BY <2>1, <2>3, <2>4
  <2>6. Kept(b)
    BY <2>1, <2>2, <2>5 DEF QueuedAs, Typed, TypeOK
  <2>7. \A a \in Builder \ {b} : UNCHANGED <<pc[a], req[a], pending[a], results[a], spins[a]>>
    BY <2>1 DEF Typed, TypeOK
  <2> QED
    BY <1>0, <2>6, <2>7
<1>4. ASSUME NEW b \in Builder, Stage(b) \/ Activate(b) \/ Label(b) PROVE \A a \in Builder : Kept(a)
  <2>1. /\ \E x \in {"activate", "label", "done"} : pc' = [pc EXCEPT ![b] = x]
        /\ UNCHANGED <<req, pending, results, spins>>
    BY <1>4 DEF Stage, Activate, Label, run
  <2>2. pc'[b] \in {"activate", "label", "done"} /\ \A a \in Builder \ {b} : pc'[a] = pc[a]
    BY <2>1 DEF Typed, TypeOK
  <2>3. Kept(b)
    BY <2>1, <2>2 DEF Queued, QueuedAs
  <2> QED
    BY <1>0, <2>1, <2>2, <2>3
<1>5. ASSUME NEW b \in Builder, Return(b) PROVE \A a \in Builder : Kept(a)
  <2>1. /\ pc'[b] = "idle" /\ results'[b] = <<>>
        /\ \A a \in Builder \ {b} : UNCHANGED <<pc[a], req[a], pending[a], results[a], spins[a]>>
    BY <1>5 DEF Return, Typed, TypeOK
  <2>2. Kept(b)
    BY <2>1 DEF QueuedAs, EvaluatedOnce, EvaluatedAfter
  <2> QED
    BY <1>0, <2>1, <2>2
<1>6. CASE Rollback \/ UNCHANGED vars
  <2>1. UNCHANGED <<pc, req, pending, results, spins>>
    BY <1>6 DEF Rollback, vars, run
  <2> QED
    BY <1>0, <2>1
<1> QED
  BY <1>1, <1>2, <1>3, <1>4, <1>5, <1>6 DEF Next, Build

\* The first n positions.
LEMMA Positions ==
  ASSUME NEW n \in Nat
  PROVE  IsFiniteSet(1 .. n) /\ Cardinality(1 .. n) = n
<1>1. /\ IsFiniteSet(1 .. n)
      /\ Cardinality(1 .. n) = IF 1 > n THEN 0 ELSE n - 1 + 1
  BY FS_Interval
<1> QED
  BY <1>1

\* A name without a result: there are fewer results than names.
LEMMA FewResults ==
  ASSUME NEW names \in Seq(Provider), NEW res \in Seq(Result),
         EvaluatedOnce(res), Answered(res) \subseteq Names(names), NEW p \in Names(names) \ Answered(res)
  PROVE  Len(res) < Len(names)
<1> DEFINE n == Len(names)
<1> DEFINE m == Len(res)
<1> DEFINE f == [i \in 1 .. n |-> names[i]]
<1> DEFINE g == [i \in 1 .. m |-> res[i].provider]
<1>1. n \in Nat /\ m \in Nat /\ DOMAIN names = 1 .. n /\ DOMAIN res = 1 .. m
  OBVIOUS
<1>2. IsFiniteSet(Names(names)) /\ Cardinality(Names(names)) <= n
  <2>1. f \in Surjection(1 .. n, Names(names))
    BY <1>1 DEF Surjection, Names
  <2>2. IsFiniteSet(1 .. n) /\ Cardinality(1 .. n) = n
    BY <1>1, Positions
  <2> HIDE DEF f, n
  <2> QED
    BY <2>1, <2>2, FS_Surjection
<1>3. IsFiniteSet(Names(names) \ {p}) /\ Cardinality(Names(names) \ {p}) = Cardinality(Names(names)) - 1
  BY <1>2, FS_RemoveElement
<1>4. m <= Cardinality(Names(names) \ {p})
  <2>1. g \in Injection(1 .. m, Names(names) \ {p})
    <3>1. \A i \in 1 .. m : g[i] \in Names(names) \ {p}
      BY <1>1 DEF Answered
    <3>2. \A i, j \in 1 .. m : g[i] = g[j] => i = j
      BY <1>1 DEF EvaluatedOnce
    <3> QED
      BY <3>1, <3>2 DEF Injection, IsInjective
  <2>2. IsFiniteSet(1 .. m) /\ Cardinality(1 .. m) = m
    BY <1>1, Positions
  <2> HIDE DEF g, m
  <2> QED
    BY <1>3, <2>1, <2>2, FS_Injection
<1>5. Cardinality(Names(names)) \in Nat
  BY <1>2, FS_CardinalityType
<1> HIDE DEF n, m
<1> QED
  BY <1>1, <1>2, <1>3, <1>4, <1>5 DEF n, m

\* The turns are enough for four names: at most n before each result, and one result for
\* each name.
LEMMA FourNames ==
  ASSUME NEW n \in Nat, NEW m \in Nat, m < n, n <= 4, NEW turns \in Nat,
         turns < n + n * m
  PROVE  turns < IF 4 * n > 8 THEN 4 * n ELSE 8
<1>1. n = 1 \/ n = 2 \/ n = 3 \/ n = 4
  OBVIOUS
<1> QED
  BY <1>1

\* When the loop ends, a name is left out by the bound on the turns; with few names they
\* were all passed over, and each waits for another one.
LEMMA LeftOut ==
  ASSUME NEW r \in Request, NEW queue \in Seq(Provider), NEW res \in Seq(Result), NEW turns \in Nat,
         QueuedAs("stage", r, queue, res, turns), NEW p \in Names(r.enabled) \ Answered(res)
  PROVE  turns = MaxSpins(r) /\ (Len(r.enabled) <= 4 => InCircle(Names(r.enabled), p))
<1>1. Waiting(r, queue, res, turns) /\ EvaluatedOnce(res) /\ (queue = <<>> \/ turns = MaxSpins(r))
  BY DEF QueuedAs
<1>2. p \in Names(queue) /\ Answered(res) \subseteq Names(r.enabled)
  BY <1>1 DEF Waiting
<1>3. turns = MaxSpins(r)
  BY <1>1, <1>2 DEF Names
<1>4. ASSUME Len(r.enabled) <= 4 PROVE InCircle(Names(r.enabled), p)
  <2>1. PICK n \in Nat, m \in Nat, l \in Nat : n = Len(r.enabled) /\ m = Len(res) /\ l = Len(queue)
    BY RequestType
  <2>2. PICK k \in 0 .. l : PassedOver(r, queue, res, turns, k)
    BY <1>1, <2>1 DEF Waiting
  <2>3. m < n
    BY <1>1, <1>2, <2>1, FewResults, RequestType
  <2>4. k = l
    <3> SUFFICES ASSUME k < l PROVE FALSE
      BY <2>1, <2>2
    <3>1. turns + (l - k) <= n + n * m
      BY <2>1, <2>2 DEF PassedOver
    <3>2. PICK most \in Nat : most = n + n * m
      BY <2>1
    <3>3. turns < most
      BY ONLY <2>1, <2>2, <3>1, <3>2, turns \in Nat, k < l
    <3>4. turns < n + n * m
      BY ONLY <3>2, <3>3
    <3>5. turns < IF 4 * n > 8 THEN 4 * n ELSE 8
      BY ONLY <1>4, <2>1, <2>3, <3>4, FourNames, turns \in Nat
    <3> QED
      BY ONLY <1>3, <2>1, <3>5, turns \in Nat DEF MaxSpins
  <2>5. \A i \in DOMAIN queue : Blocked(queue[i], r, res)
    <3>1. \A i \in 1 .. l : i \in Len(queue) - k + 1 .. Len(queue)
      BY <2>1, <2>4
    <3>2. DOMAIN queue = 1 .. l
      BY <2>1
    <3> QED
      BY <2>2, <3>1, <3>2 DEF PassedOver
  <2> DEFINE S == Names(r.enabled) \ Answered(res)
  <2>6. \A q \in S : q \in Names(queue)
    BY <1>1 DEF Waiting
  <2>7. \A q \in S : Requires[q] \cap S # {}
    <3> SUFFICES ASSUME NEW q \in S PROVE Requires[q] \cap S # {}
      OBVIOUS
    <3>1. PICK i \in DOMAIN queue : queue[i] = q
      BY <2>6 DEF Names
    <3>2. Blocked(q, r, res)
      BY <2>5, <3>1
    <3> QED
      BY <3>2 DEF Blocked
  <2> QED
    BY <2>7 DEF InCircle
<1> QED
  BY <1>3, <1>4

-----------------------------------------------------------------------------
(* The invariant.                                                          *)

\* Nothing is called, staged or cached at the start.
LEMMA InitInv == Init => IInv
<1> SUFFICES ASSUME Init PROVE IInv
  OBVIOUS
<1>1. Typed
  BY TypedInit
<1>2. \A b \in Builder : pc[b] = "idle" /\ results[b] = <<>>
  BY DEF Init
<1>3. Queued
  BY <1>2 DEF Queued, QueuedAs, EvaluatedOnce, EvaluatedAfter
<1>4. Grounded
  BY <1>2 DEF Grounded, Init
<1>5. Booked
  BY <1>2 DEF Booked, Init
<1>6. Masking
  BY DEF Masking, Init
<1> QED
  BY <1>1, <1>3, <1>4, <1>5, <1>6 DEF IInv

\* Every step keeps the invariant: the queues, the indexes and the payloads on their own,
\* the book with the indexes that are cached.
LEMMA StepInv == IInv /\ [Next]_vars => IInv'
<1> SUFFICES ASSUME IInv, [Next]_vars PROVE IInv'
  OBVIOUS
<1>1. Typed'
  BY TypedStep DEF IInv
<1>2. Queued'
  BY QueuedStep DEF IInv
<1>3. Grounded'
  BY GroundedStep DEF IInv
<1>4. Booked'
  BY <1>1, BookedStep DEF IInv
<1>5. Masking'
  BY MaskingStep DEF IInv
<1> QED
  BY <1>1, <1>2, <1>3, <1>4, <1>5 DEF IInv

\* The invariant holds in every state of every behaviour.
LEMMA Invariance == Spec => []IInv
BY InitInv, StepInv, PTL DEF Spec

\* However calls, turns of the provider loop, stagings and rollbacks interleave, the
\* variables keep their types.
THEOREM TypeCorrect == Spec => []TypeOK
<1>1. IInv => TypeOK
  BY DEF IInv, Typed
<1> QED
  BY <1>1, Invariance, PTL

\* run_enabled evaluates a provider once and after everything it requires, and leaves a
\* name out only by its bound on the turns, which is enough for the default providers.
THEOREM LoopKeepsOrder == Spec => []ProvidersInOrder
<1>1. IInv => ProvidersInOrder
  <2> SUFFICES ASSUME IInv, NEW b \in Builder
               PROVE  /\ EvaluatedOnce(results[b]) /\ EvaluatedAfter(results[b])
                      /\ pc[b] = "stage" =>
                           \A p \in Names(req[b].enabled) \ Answered(results[b]) :
                             /\ spins[b] = MaxSpins(req[b])
                             /\ Len(req[b].enabled) <= 4 => InCircle(Names(req[b].enabled), p)
    BY Zenon DEF ProvidersInOrder, EvaluatedOnce, EvaluatedAfter, Done, Answered
  <2>1. QueuedAs(pc[b], req[b], pending[b], results[b], spins[b])
    BY DEF IInv, Queued
  <2>2. pending[b] \in Seq(Provider) /\ results[b] \in Seq(Result) /\ spins[b] \in Nat
    BY DEF IInv, Typed, TypeOK
  <2>3. pc[b] = "stage" => req[b] \in Request
    BY DEF IInv, Typed
  <2>4. EvaluatedOnce(results[b]) /\ EvaluatedAfter(results[b])
    BY <2>1 DEF QueuedAs
  <2>5. ASSUME pc[b] = "stage", NEW p \in Names(req[b].enabled) \ Answered(results[b])
        PROVE  /\ spins[b] = MaxSpins(req[b])
               /\ Len(req[b].enabled) <= 4 => InCircle(Names(req[b].enabled), p)
    BY <2>1, <2>2, <2>3, <2>5, LeftOut
  <2> QED
    BY <2>4, <2>5
<1> QED
  BY <1>1, Invariance, PTL

\* However builds, forced failures and rollbacks interleave, what is active, previous,
\* cached or returned was activated, and a failed candidate stays failed.
THEOREM OnlyActivatedInForce == Spec => BookHolds
<1> DEFINE InBook ==
      /\ (\A g \in {active, previous} \ {NoGeneration} : Activated(g))'
      /\ previous' # NoGeneration => previous' # active'
      /\ (\A x \in Cached : Activated(x.generation))'
      /\ (\A b \in Builder : pc[b] = "done" /\ ~req[b].force_fail => Activated(index[b].generation))'
      /\ \A g \in Generation : status[g] = "failed" => status'[g] = "failed"
<1>1. ASSUME IInv, IInv', [Next]_vars PROVE InBook
  <2>1. Booked'
    BY <1>1 DEF IInv
  <2>2. (\A g \in {active, previous} \ {NoGeneration} : Activated(g))'
    BY <2>1 DEF Booked, InForce
  <2>3. previous' # NoGeneration => previous' # active'
    BY <2>1 DEF Booked
  <2>4. (\A x \in Cached : Activated(x.generation))'
    BY <2>1 DEF Booked, InForce, Cached
  <2>5. (\A b \in Builder : pc[b] = "done" /\ ~req[b].force_fail => Activated(index[b].generation))'
    BY <2>1 DEF Booked, InForce
  <2>6. \A g \in Generation : status[g] = "failed" => status'[g] = "failed"
    BY <1>1, StatusMoves DEF IInv
  <2> QED
    BY <2>2, <2>3, <2>4, <2>5, <2>6
<1>2. IInv /\ IInv' /\ [Next]_vars => [InBook]_vars
  BY <1>1
<1> QED
  BY <1>2, Invariance, PTL DEF Spec, BookHolds

\* The plans of an index returned to a caller, cached ones built for other documents
\* included, name collections and fields of the documents this caller passed.
THEOREM PlansFitEveryCaller == Spec => []PlansFitTheCaller
<1>1. IInv => PlansFitTheCaller
  <2> SUFFICES ASSUME IInv, NEW b \in Builder, pc[b] = "done", NEW p \in index[b].plans
               PROVE  /\ p.collection \in DOMAIN req[b].documents
                      /\ p.field # "" => p.field \in FieldPaths(ProfileOf(req[b]), p.collection)
                      /\ p.to # "" => p.to \in DOMAIN req[b].documents
    BY DEF PlansFitTheCaller
  <2> DEFINE profile == ProfileOf(req[b])
  <2>1. DOMAIN profile = DOMAIN req[b].documents
    BY DEF ProfileOf, Profile
  <2>2. Fits(index[b].plans, Fingerprint(profile))
    BY DEF IInv, Grounded, Built
  <2>3. /\ DOMAIN Fingerprint(profile) = DOMAIN profile
        /\ \A c \in DOMAIN profile : DOMAIN Fingerprint(profile)[c] = FieldPaths(profile, c)
    BY DEF Fingerprint, FieldPaths
  <2> HIDE DEF profile
  <2> QED
    BY <2>1, <2>2, <2>3 DEF Fits, profile
<1> QED
  BY <1>1, Invariance, PTL

\* The schema model is never shown a forbidden value, nor any value of a document that is
\* not what a collection or a field is called.
THEOREM OnlyNamesReachTheModel == Spec => []OnlyNamesDisclosed
<1>1. IInv => OnlyNamesDisclosed
  BY DEF IInv, Masking, OnlyNamesDisclosed
<1> QED
  BY <1>1, Invariance, PTL

-----------------------------------------------------------------------------
(* The receipts of investigate.                                            *)

\* What ReceiptsHold says of one receipt, for the tokens and the month of the question.
Sound(x, db, tokens, month) ==
  /\ x.exact => x.count = Cardinality(x.ids) /\ Cardinality(x.collections) = 1
  /\ x.absence => x.exact /\ x.ids = {} /\ \A c \in x.collections : Match(Docs(db[c]), tokens, month) = {}
  /\ x.ids \subseteq UNION {Ids(db[c]) : c \in x.collections}
  /\ x.ids = {} => x.absence \/ x.plan = "none"

\* One of six stages is the first to give a receipt: the last one always does.
LEMMA FirstStage ==
  ASSUME NEW stages, DOMAIN stages = 1 .. 6, stages[6] # {}
  PROVE  \E i \in DOMAIN stages : stages[i] # {} /\ \A j \in 1 .. i - 1 : stages[j] = {}
<1> SUFFICES ASSUME \A i \in 1 .. 6 : (\A j \in 1 .. i - 1 : stages[j] = {}) => stages[i] = {}
             PROVE  FALSE
  OBVIOUS
<1> DEFINE None(n) == \A j \in 1 .. n : stages[j] = {}
<1>1. ASSUME NEW n \in 0 .. 5, None(n)
      PROVE  None(n + 1)
  <2>1. n + 1 \in 1 .. 6 /\ (n + 1) - 1 = n
    OBVIOUS
  <2>2. stages[n + 1] = {}
    BY <1>1, <2>1
  <2> QED
    BY <1>1, <2>2
<1>2. None(0)
  OBVIOUS
<1> HIDE DEF None
<1>3. None(0 + 1)
  BY <1>1, <1>2
<1>4. None(1 + 1)
  BY <1>1, <1>3
<1>5. None(2 + 1)
  BY <1>1, <1>4
<1>6. None(3 + 1)
  BY <1>1, <1>5
<1>7. None(4 + 1)
  BY <1>1, <1>6
<1>8. None(5 + 1)
  BY <1>1, <1>7
<1> QED
  BY <1>8 DEF None

\* investigate answers with a receipt of one of its stages.
LEMMA InvestigateIs ==
  ASSUME NEW x, NEW i, NEW question,
         question = [counting |-> question.counting, mentioned |-> question.mentioned,
                     tokens |-> question.tokens, words |-> question.words, month |-> question.month],
         x \in Investigate(i, question)
  PROVE  \E q : /\ q.tokens = question.tokens /\ q.month = question.month
                /\ q.mentioned \subseteq DOMAIN i.documents
                /\ LET hits == IdHits(i.documents, q.tokens)
                   IN  \/ x \in CountReceipts(i, q)
                       \/ x \in HopReceipts(i, q, hits)
                       \/ x \in IdReceipts(i, q, hits)
                       \/ x \in FieldReceipts(i, q)
                       \/ x \in SearchReceipts(i, q)
                       \/ x = NoPlan
<1> DEFINE q == [question EXCEPT !.mentioned = Mentioned(@, i.documents)]
<1> DEFINE hits == IdHits(i.documents, q.tokens)
<1> DEFINE counts == IF q.counting THEN CountReceipts(i, q) ELSE {}
<1> DEFINE hops == IF Cardinality(q.mentioned) > 1 THEN HopReceipts(i, q, hits) ELSE {}
<1> DEFINE stages == << counts, hops, IdReceipts(i, q, hits), FieldReceipts(i, q), SearchReceipts(i, q), {NoPlan} >>
<1> DEFINE First(n) == stages[n] # {} /\ \A j \in 1 .. n - 1 : stages[j] = {}
<1>1. x \in stages[CHOOSE n \in DOMAIN stages : First(n)]
  BY Zenon DEF Investigate
<1>2. /\ q.tokens = question.tokens /\ q.month = question.month
      /\ q.mentioned \subseteq DOMAIN i.documents
  BY DEF Mentioned
<1>3. counts \subseteq CountReceipts(i, q) /\ hops \subseteq HopReceipts(i, q, hits)
  OBVIOUS
<1> HIDE DEF q, hits, counts, hops
<1>4. /\ DOMAIN stages = 1 .. 6
      /\ stages[1] = counts /\ stages[2] = hops /\ stages[3] = IdReceipts(i, q, hits)
      /\ stages[4] = FieldReceipts(i, q) /\ stages[5] = SearchReceipts(i, q) /\ stages[6] = {NoPlan}
  OBVIOUS
<1> HIDE DEF stages
<1>5. \E n \in DOMAIN stages : First(n)
  <2>1. stages[6] # {}
    BY <1>4
  <2> QED
    BY <1>4, <2>1, FirstStage
<1>6. PICK n \in 1 .. 6 : x \in stages[n]
  BY <1>1, <1>4, <1>5
<1>7. n = 1 \/ n = 2 \/ n = 3 \/ n = 4 \/ n = 5 \/ n = 6
  OBVIOUS
<1>8. \/ x \in CountReceipts(i, q)
      \/ x \in HopReceipts(i, q, hits)
      \/ x \in IdReceipts(i, q, hits)
      \/ x \in FieldReceipts(i, q)
      \/ x \in SearchReceipts(i, q)
      \/ x = NoPlan
  BY <1>3, <1>4, <1>6, <1>7
<1> QED
  BY <1>2, <1>8 DEF hits

\* Documents of a collection have ids of their own: there are as many of those.
LEMMA IdsOfDocuments ==
  ASSUME NEW coll, IsCollection(coll), NEW docs, docs \subseteq Docs(coll)
  PROVE  Cardinality(IdsOf(docs)) = Cardinality(docs) /\ IdsOf(docs) \subseteq Ids(coll)
<1> DEFINE f == [i \in 1 .. Len(coll) |-> coll[i]]
<1> DEFINE g == [d \in docs |-> d["_id"]]
<1>1. Len(coll) \in Nat /\ DOMAIN coll = 1 .. Len(coll)
  BY DEF IsCollection
<1>2. IsFiniteSet(Docs(coll))
  <2>1. f \in Surjection(1 .. Len(coll), Docs(coll))
    BY <1>1 DEF Surjection, Docs
  <2>2. IsFiniteSet(1 .. Len(coll))
    BY <1>1, Positions
  <2> HIDE DEF f
  <2> QED
    BY <2>1, <2>2, FS_Surjection
<1>3. IsFiniteSet(docs)
  BY <1>2, FS_Subset
<1>4. g \in Bijection(docs, IdsOf(docs))
  <2>1. \A d \in docs : g[d] \in IdsOf(docs)
    BY DEF IdsOf
  <2>2. \A d, e \in docs : g[d] = g[e] => d = e
    BY DEF IsCollection
  <2>3. \A s \in IdsOf(docs) : \E d \in docs : g[d] = s
    BY DEF IdsOf
  <2> QED
    BY <2>1, <2>2, <2>3 DEF Bijection, Injection, Surjection, IsInjective
<1>5. Cardinality(IdsOf(docs)) = Cardinality(docs)
  <2>1. ExistsBijection(docs, IdsOf(docs))
    BY <1>4 DEF ExistsBijection
  <2> QED
    BY <1>3, <2>1, FS_Bijection
<1>6. IdsOf(docs) \subseteq Ids(coll)
  BY DEF IdsOf, Ids
<1> QED
  BY <1>5, <1>6

\* An exact receipt over documents of one collection, if it has some unless there is no
\* match at all.
LEMMA ExactIsSound ==
  ASSUME NEW db, \A c \in DOMAIN db : IsCollection(db[c]), NEW plan, NEW c \in DOMAIN db,
         NEW docs, docs \subseteq Docs(db[c]), NEW tokens, NEW month,
         docs = {} => Match(Docs(db[c]), tokens, month) = {}
  PROVE  Sound(Exact(plan, c, docs), db, tokens, month)
<1> DEFINE x == Exact(plan, c, docs)
<1>1. /\ x.ids = IdsOf(docs) /\ x.count = Cardinality(docs) /\ x.collections = {c}
      /\ x.exact = TRUE /\ x.absence = (docs = {})
  BY DEF Exact, Receipt
<1>2. Cardinality(IdsOf(docs)) = Cardinality(docs) /\ IdsOf(docs) \subseteq Ids(db[c])
  BY IdsOfDocuments
<1>3. IdsOf(docs) = {} <=> docs = {}
  BY DEF IdsOf
<1>4. Cardinality({c}) = 1
  BY FS_Singleton
<1> HIDE DEF x
<1> QED
  BY <1>1, <1>2, <1>3, <1>4 DEF Sound, x

\* A receipt that is neither exact nor claims absence, with ids of its collections.
LEMMA LooseIsSound ==
  ASSUME NEW plan, NEW collections, NEW ids, NEW count, NEW db, NEW tokens, NEW month,
         NEW c \in collections, ids \subseteq Ids(db[c]), ids # {}
  PROVE  Sound(Receipt(plan, FALSE, collections, ids, count, FALSE), db, tokens, month)
BY DEF Sound, Receipt

\* The ids of matches are ids of the collection they were looked for in.
LEMMA IdsInside ==
  ASSUME NEW db, NEW c, NEW docs, docs \subseteq Docs(db[c]), docs # {}
  PROVE  IdsOf(docs) \subseteq Ids(db[c]) /\ IdsOf(docs) # {}
BY DEF IdsOf, Ids

\* Every stage of investigate gives sound receipts.
LEMMA StagesAreSound ==
  ASSUME NEW i, \A c \in DOMAIN i.documents : IsCollection(i.documents[c]),
         NEW q, q.mentioned \subseteq DOMAIN i.documents, NEW x
  PROVE  LET hits == IdHits(i.documents, q.tokens)
         IN  \/ x \in CountReceipts(i, q)
             \/ x \in HopReceipts(i, q, hits)
             \/ x \in IdReceipts(i, q, hits)
             \/ x \in FieldReceipts(i, q)
             \/ x \in SearchReceipts(i, q)
             \/ x = NoPlan
             => Sound(x, i.documents, q.tokens, q.month)
<1> DEFINE db == i.documents
<1> DEFINE hits == IdHits(db, q.tokens)
<1> DEFINE Goal == Sound(x, db, q.tokens, q.month)
<1>1. ASSUME x \in CountReceipts(i, q) PROVE Goal
  <2>1. PICK c \in q.mentioned : x = Exact("count", c, Match(Docs(db[c]), q.tokens, q.month))
    BY <1>1 DEF CountReceipts
  <2>2. c \in DOMAIN db /\ Match(Docs(db[c]), q.tokens, q.month) \subseteq Docs(db[c])
    BY DEF Match
  <2> QED
    BY <2>1, <2>2, ExactIsSound
<1>2. ASSUME x \in HopReceipts(i, q, hits) PROVE Goal
  <2>1. PICK l \in hits \X Hops(i) :
          /\ Targets(db, l[2], l[1].doc) # {}
          /\ x = Receipt("hop", FALSE, {h.collection : h \in hits} \cup {l[2].to},
                         IdsOf(Targets(db, l[2], l[1].doc)), Cardinality(Targets(db, l[2], l[1].doc)), FALSE)
    BY <1>2 DEF HopReceipts
  <2>2. Targets(db, l[2], l[1].doc) \subseteq Docs(db[l[2].to])
    BY DEF Targets
  <2>3. /\ IdsOf(Targets(db, l[2], l[1].doc)) \subseteq Ids(db[l[2].to])
        /\ IdsOf(Targets(db, l[2], l[1].doc)) # {}
    BY <2>1, <2>2, IdsInside
  <2> QED
    BY <2>1, <2>3, LooseIsSound
<1>3. ASSUME x \in IdReceipts(i, q, hits) PROVE Goal
  <2>1. PICK h \in hits : x = Exact("find_id", h.collection, {h.doc})
    BY <1>3 DEF IdReceipts
  <2>2. PICK c \in DOMAIN db : \E d \in Docs(db[c]) : h = Hit(c, d)
    BY DEF IdHits
  <2>3. PICK d \in Docs(db[c]) : h = Hit(c, d)
    BY <2>2
  <2>4. h.collection = c /\ h.doc = d
    BY <2>3 DEF Hit
  <2> QED
    BY <2>1, <2>4, ExactIsSound
<1>4. ASSUME x \in FieldReceipts(i, q) PROVE Goal
  <2>1. PICK c \in DOMAIN db : /\ Match(Docs(db[c]), q.tokens, {}) # {}
                               /\ x = Exact("find", c, Match(Docs(db[c]), q.tokens, {}))
    BY <1>4 DEF FieldReceipts
  <2>2. Match(Docs(db[c]), q.tokens, {}) \subseteq Docs(db[c])
    BY DEF Match
  <2> QED
    BY <2>1, <2>2, ExactIsSound
<1>5. ASSUME x \in SearchReceipts(i, q) PROVE Goal
  <2> DEFINE words(c)  == {d \in Docs(db[c]) : HasToken(d, q.words)}
  <2> DEFINE best      == UNION {{[collection |-> c, docs |-> S] : S \in (SUBSET words(c)) \ {{}}} : c \in DOMAIN db}
  <2> DEFINE pairs(b, p) == {y \in b.docs \X Docs(db[p.to]) : y[2] \in Targets(db, p, y[1])}
  <2>1. PICK b \in best :
          \/ x = Receipt("search_cards", FALSE, {b.collection}, IdsOf(b.docs), Cardinality(b.docs), FALSE)
          \/ \E p \in Hops(i) :
               /\ pairs(b, p) # {}
               /\ x = Receipt("search_hop", FALSE, {b.collection, p.to}, {y[2]["_id"] : y \in pairs(b, p)},
                              Cardinality(pairs(b, p)), FALSE)
    BY <1>5 DEF SearchReceipts
  <2>2. b.docs \subseteq Docs(db[b.collection]) /\ b.docs # {}
    <3>1. PICK c \in DOMAIN db : \E S \in (SUBSET words(c)) \ {{}} : b = [collection |-> c, docs |-> S]
      OBVIOUS
    <3>2. PICK S \in (SUBSET words(c)) \ {{}} : b = [collection |-> c, docs |-> S]
      BY <3>1
    <3>3. b.collection = c /\ b.docs = S
      BY <3>2
    <3>4. S \subseteq Docs(db[c]) /\ S # {}
      OBVIOUS
    <3> QED
      BY <3>3, <3>4
  <2>3. CASE x = Receipt("search_cards", FALSE, {b.collection}, IdsOf(b.docs), Cardinality(b.docs), FALSE)
    <3>1. IdsOf(b.docs) \subseteq Ids(db[b.collection]) /\ IdsOf(b.docs) # {}
      BY <2>2, IdsInside
    <3> QED
      BY <2>3, <3>1, LooseIsSound
  <2>4. ASSUME NEW p \in Hops(i), pairs(b, p) # {},
               x = Receipt("search_hop", FALSE, {b.collection, p.to}, {y[2]["_id"] : y \in pairs(b, p)},
                           Cardinality(pairs(b, p)), FALSE)
        PROVE  Goal
    <3> DEFINE ids == {y[2]["_id"] : y \in pairs(b, p)}
    <3>1. \A y \in pairs(b, p) : y[2] \in Docs(db[p.to])
      OBVIOUS
    <3>2. ids \subseteq Ids(db[p.to]) /\ ids # {}
      BY <2>4, <3>1 DEF Ids
    <3> HIDE DEF pairs
    <3> QED
      BY <2>4, <3>2, LooseIsSound
  <2> QED
    BY <2>1, <2>3, <2>4
<1>6. ASSUME x = NoPlan PROVE Goal
  BY <1>6 DEF NoPlan, Receipt, Sound
<1> QED
  BY <1>1, <1>2, <1>3, <1>4, <1>5, <1>6

\* investigate claims exactness and absence only of what it read to the end, names ids of
\* the collections it says, and is left without an answer only by having no plan.
THEOREM EveryReceiptHolds == Spec => []ReceiptsHold
<1>1. IInv => ReceiptsHold
  <2> SUFFICES ASSUME IInv, NEW b \in Builder, pc[b] = "done",
                      NEW question \in Question, NEW x \in Investigate(index[b], question)
               PROVE  Sound(x, index[b].documents, question.tokens, question.month)
    BY Zenon DEF ReceiptsHold, Sound
  <2>1. index[b].documents \in Databases
    BY DEF IInv, Grounded, Built
  <2>2. \A c \in DOMAIN index[b].documents : IsCollection(index[b].documents[c])
    BY <2>1, CallAssumption DEF Databases
  <2>3. question = [counting |-> question.counting, mentioned |-> question.mentioned,
                    tokens |-> question.tokens, words |-> question.words, month |-> question.month]
    BY CallAssumption
  <2> PICK i : i = index[b]
    OBVIOUS
  <2>4. PICK q : /\ q.tokens = question.tokens /\ q.month = question.month
                 /\ q.mentioned \subseteq DOMAIN i.documents
                 /\ LET hits == IdHits(i.documents, q.tokens)
                    IN  \/ x \in CountReceipts(i, q)
                        \/ x \in HopReceipts(i, q, hits)
                        \/ x \in IdReceipts(i, q, hits)
                        \/ x \in FieldReceipts(i, q)
                        \/ x \in SearchReceipts(i, q)
                        \/ x = NoPlan
    <3>1. x \in Investigate(i, question)
      OBVIOUS
    <3> QED
      BY <2>3, <3>1, InvestigateIs
  <2>5. Sound(x, i.documents, q.tokens, q.month)
    BY <2>2, <2>4, StagesAreSound
  <2> QED
    BY <2>4, <2>5
<1> QED
  BY <1>1, Invariance, PTL
=============================================================================
