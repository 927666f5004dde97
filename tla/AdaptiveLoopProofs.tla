------------------------- MODULE AdaptiveLoopProofs -------------------------
(***************************************************************************)
(* Proofs about AdaptiveLoop, for every set of nodes and claims, every     *)
(* weight of the score, every limit and whatever the model replies.  The   *)
(* inductive invariant is TypeOK with Frontier (the queue against what was *)
(* read), Spending (the counters against their limits) and Verdict (what   *)
(* should_stop knew when the loop was left), one for each piece of the     *)
(* session that the rounds change.                                         *)
(***************************************************************************)
EXTENDS AdaptiveLoop, FiniteSetTheorems, SequenceTheorems, TLAPS

\* What is open has not been read, and each retrieval read another node.
Frontier ==
  /\ DOMAIN items \cap visited = {}
  /\ retrievals = Cardinality(visited)

\* A round may spend one of each counter after a look at all of them.
Room ==
  /\ retrievals < MaxRetrievals
  /\ searches < MaxSearches
  /\ documents < MaxDocuments
  /\ rounds < MaxRounds

Spending ==
  /\ pc = "begin" => retrievals = 0 /\ searches = 0 /\ documents = 0 /\ rounds = 0
  /\ pc = "pop" => Room
  /\ pc \in {"extract", "update", "gap"} => searches < MaxSearches
  /\ WithinBudgets

\* What should_stop leaves for Answer: the reasons to stop held, or it was left
\* with nothing to pop while a contradiction kept the loop going.
Verdict ==
  /\ pc = "pop" => ~stop /\ (Unresolved(claims) \/ ~NothingWorthOpening)
  /\ pc = "answer" /\ stop =>
       /\ status = "complete" => WellCovered(claims) /\ stable >= StabilityRounds
       /\ reason = "frontier_exhausted" => NothingWorthOpening
       /\ Unresolved(claims) => status = "budget_exhausted"
  /\ pc = "answer" /\ ~stop => Unresolved(claims) /\ Open = {}
  /\ StopReasonHolds

IInv == TypeOK /\ Frontier /\ Spending /\ Verdict

-----------------------------------------------------------------------------
(* The queue: what its operators return, and that no priority falls.       *)

\* A candidate from a search has a score.
LEMMA CandidateType ==
  ASSUME NEW n \in Node, NEW r \in Relevance, NEW seen \in SUBSET Node
  PROVE  Candidate(n, r, seen) \in Scored
<1> DEFINE Popped == {v \in seen : Source[v] = Source[n]}
           d == 1 + Cardinality(Popped)
<1>1. IsFiniteSet(Popped)
  BY FS_Subset, LoopAssumption
<1>2. d \in Nat \ {0}
  BY <1>1, FS_CardinalityType
<1> HIDE DEF d
<1>3. 6 \div d \in 0 .. 6
  BY <1>2
<1>4. 0 \in 0 .. MaxGap /\ 3 \in 0 .. 6
  BY LoopAssumption
<1> QED
  BY <1>3, <1>4 DEF Candidate, Scored, d

\* The weights are naturals.
LEMMA WeightType ==
  /\ Weight["relevance"] \in Nat /\ Weight["gap"] \in Nat
  /\ Weight["diversity"] \in Nat /\ Weight["fixed"] \in Nat
BY LoopAssumption

\* The parts of a score are naturals.
LEMMA ScoreType ==
  ASSUME NEW c \in Scored
  PROVE  /\ c.relevance \in Relevance /\ c.gap \in 0 .. MaxGap /\ c.diversity \in 0 .. 6
         /\ c.relevance \in Nat /\ c.gap \in Nat /\ c.diversity \in Nat
<1>1. c.relevance \in Relevance /\ c.gap \in 0 .. MaxGap /\ c.diversity \in 0 .. 6
  BY DEF Scored
<1>2. Relevance \subseteq Nat /\ MaxGap \in Nat
  BY LoopAssumption
<1>3. c.gap \in Nat /\ c.diversity \in Nat
  BY <1>1, <1>2
<1> QED
  BY <1>1, <1>2, <1>3

\* A priority is a natural number.
LEMMA PriorityType ==
  ASSUME NEW c \in Scored
  PROVE  Priority(c) \in Nat
<1>1. c.relevance \in Nat /\ c.gap \in Nat /\ c.diversity \in Nat
  BY ScoreType
<1>2. ASSUME NEW a \in Nat, NEW b \in Nat PROVE a * b \in Nat
  BY <1>2
<1>3. /\ Weight["relevance"] * c.relevance \in Nat
      /\ Weight["gap"] * c.gap \in Nat
      /\ Weight["diversity"] * c.diversity \in Nat
  BY <1>1, <1>2, WeightType
<1> QED
  BY <1>3, WeightType DEF Priority

\* A queue of scored candidates.
Queue(its) == DOMAIN its \subseteq Node /\ \A n \in DOMAIN its : its[n] \in Scored

\* extend keeps every candidate, adds the hits that were not read, and replaces a
\* candidate only by a better one.
LEMMA ExtendRises ==
  ASSUME NEW its, Queue(its), NEW hits \in SUBSET Node, NEW r \in Relevance,
         NEW seen \in SUBSET Node, NEW new, new = Extend(its, hits, r, seen)
  PROVE  /\ DOMAIN new = DOMAIN its \cup (hits \ seen)
         /\ Queue(new)
         /\ \A n \in DOMAIN its : Priority(new[n]) >= Priority(its[n])
<1>1. DOMAIN new = DOMAIN its \cup (hits \ seen)
  BY DEF Extend
<1>2. ASSUME NEW n \in DOMAIN new
      PROVE  \/ new[n] = Candidate(n, r, seen)
             \/ n \in DOMAIN its /\ new[n] = its[n]
  BY <1>2 DEF Extend
<1>3. \A n \in DOMAIN new : n \in Node /\ new[n] \in Scored
  BY <1>1, <1>2, CandidateType DEF Queue
<1>4. ASSUME NEW n \in DOMAIN its
      PROVE  Priority(new[n]) >= Priority(its[n])
  <2>1. n \in DOMAIN new /\ new[n] \in Scored /\ its[n] \in Scored
    BY <1>1, <1>3 DEF Queue
  <2>2. Priority(new[n]) \in Nat /\ Priority(its[n]) \in Nat
    BY <2>1, PriorityType
  <2>3. new[n] = its[n] \/ Better(new[n], its[n])
    BY <2>1 DEF Extend
  <2>4. CASE new[n] = its[n]
    BY <2>2, <2>4
  <2>5. CASE Better(new[n], its[n])
    BY <2>2, <2>5 DEF Better
  <2> QED
    BY <2>3, <2>4, <2>5
<1> QED
  BY <1>1, <1>3, <1>4 DEF Queue

\* The rerank keeps the queue, and raises the gap of some candidates.
LEMMA RerankRises ==
  ASSUME NEW its, Queue(its), NEW named
  PROVE  /\ DOMAIN Rerank(its, named) = DOMAIN its
         /\ Queue(Rerank(its, named))
         /\ \A n \in DOMAIN its : Priority(Rerank(its, named)[n]) >= Priority(its[n])
<1> DEFINE new == Rerank(its, named)
<1>1. DOMAIN new = DOMAIN its
  BY DEF Rerank
<1>2. ASSUME NEW n \in DOMAIN its
      PROVE  new[n] \in Scored /\ Priority(new[n]) >= Priority(its[n])
  <2> DEFINE c == its[n]
  <2>1. c \in Scored
    BY DEF Queue
  <2>2. CASE new[n] = c
    BY <2>1, <2>2, PriorityType
  <2>3. CASE new[n] = [c EXCEPT !.gap = @ + 1] /\ c.gap < MaxGap
    <3> HIDE DEF new, c
    <3>1. /\ c.relevance \in Nat /\ c.gap \in Nat /\ c.diversity \in Nat
          /\ c.gap + 1 \in 0 .. MaxGap
      BY <2>1, <2>3, ScoreType, LoopAssumption
    <3>2. /\ new[n] \in Scored
          /\ new[n].relevance = c.relevance /\ new[n].gap = c.gap + 1
          /\ new[n].diversity = c.diversity
      BY <2>1, <2>3, <3>1 DEF Scored
    <3>3. ASSUME NEW a \in Nat, NEW b \in Nat
          PROVE  a * b \in Nat /\ a * (b + 1) \in Nat /\ a * (b + 1) >= a * b
      BY <3>3
    <3>4. /\ Weight["gap"] * c.gap \in Nat /\ Weight["gap"] * new[n].gap \in Nat
          /\ Weight["gap"] * new[n].gap >= Weight["gap"] * c.gap
          /\ Weight["relevance"] * c.relevance \in Nat
          /\ Weight["diversity"] * c.diversity \in Nat
      BY <3>1, <3>2, <3>3, WeightType
    <3>5. ASSUME NEW a \in Nat, NEW b \in Nat, NEW b1 \in Nat, NEW d \in Nat,
                 NEW e \in Nat, b1 >= b
          PROVE  a + b1 + d + e >= a + b + d + e
      BY <3>5
    <3>6. /\ Priority(c) = Weight["relevance"] * c.relevance + Weight["gap"] * c.gap
                           + Weight["diversity"] * c.diversity + Weight["fixed"]
          /\ Priority(new[n]) = Weight["relevance"] * c.relevance + Weight["gap"] * new[n].gap
                                + Weight["diversity"] * c.diversity + Weight["fixed"]
      BY <3>2 DEF Priority
    <3>7. Priority(new[n]) >= Priority(c)
      BY <3>4, <3>5, <3>6, WeightType
    <3> QED
      BY <3>2, <3>7 DEF c
  <2>4. CASE n \in named /\ its[n].gap < MaxGap
    <3>1. new[n] = [c EXCEPT !.gap = @ + 1]
      BY <2>4 DEF Rerank
    <3> QED
      BY <2>3, <2>4, <3>1
  <2>5. CASE ~(n \in named /\ its[n].gap < MaxGap)
    <3>1. new[n] = c
      BY <2>5 DEF Rerank
    <3> QED
      BY <2>2, <3>1
  <2> QED
    BY <2>4, <2>5
<1> QED
  BY <1>1, <1>2 DEF Queue

-----------------------------------------------------------------------------
(* The claims: what the replies of the model do to them.                   *)

\* Claims by id.
Ledger(cs) == DOMAIN cs \subseteq ClaimId /\ \A c \in DOMAIN cs : cs[c] \in Held

\* One claim after a reply, against the same claim before it.
Stronger(new, old) ==
  /\ new.confidence >= old.confidence
  /\ old.status # "unsupported" => new.status # "unsupported"

Gained(new, old) == \A c \in DOMAIN old : c \in DOMAIN new /\ Stronger(new[c], old[c])

\* What a claim holds, and that nothing is lost when it stays.
LEMMA HeldType ==
  ASSUME NEW h \in Held
  PROVE  /\ h.status \in Statuses /\ h.confidence \in 0 .. 3 /\ h.material \in BOOLEAN
         /\ Stronger(h, h)
BY DEF Held, Stronger

\* An observation gives a claim a status and raises its confidence.
LEMMA ObservedClaim ==
  ASSUME NEW h \in Held, NEW k \in 0 .. 3, NEW s \in Statuses,
         h.status # "unsupported" => s # "unsupported",
         NEW new, new = [h EXCEPT !.confidence = Max2(@, k), !.status = s]
  PROVE  new \in Held /\ Stronger(new, h)
<1>1. h.confidence \in 0 .. 3
  BY HeldType
<1>2. Max2(h.confidence, k) \in 0 .. 3 /\ Max2(h.confidence, k) >= h.confidence
  BY <1>1 DEF Max2
<1>3. new \in Held /\ new.confidence = Max2(h.confidence, k) /\ new.status = s
  BY <1>2 DEF Held
<1> QED
  BY <1>2, <1>3 DEF Stronger

\* The strength of an observation.
LEMMA ObservationType ==
  ASSUME NEW obs \in AtMostOne(Observation)
  PROVE  \A o \in obs : o.strength \in 0 .. 3
<1>1. Strength \subseteq 0 .. 3
  BY LoopAssumption
<1> QED
  BY <1>1 DEF AtMostOne, Observation

\* Evidence for a claim, skipped when the claim is not known.
LEMMA SupportGains ==
  ASSUME NEW cs, Ledger(cs), NEW obs \in AtMostOne(Observation)
  PROVE  Ledger(Support(cs, obs)) /\ Gained(Support(cs, obs), cs)
<1> DEFINE new == Support(cs, obs)
<1>1. DOMAIN new = DOMAIN cs
  BY DEF Support, Observe
<1>2. ASSUME NEW c \in DOMAIN cs
      PROVE  new[c] \in Held /\ Stronger(new[c], cs[c])
  <2>1. cs[c] \in Held
    BY DEF Ledger
  <2>2. CASE \A o \in obs : o.claim # c
    <3>1. new[c] = cs[c]
      BY <2>2 DEF Support, Observe
    <3> QED
      BY <2>1, <3>1, HeldType
  <2>3. CASE \E o \in obs : o.claim = c
    <3> DEFINE o == CHOOSE o \in obs : o.claim = c
               s == StatusOf(o.strength, cs[c].status)
    <3>1. o \in obs /\ o.strength \in 0 .. 3
      BY <2>3, ObservationType
    <3>2. s \in Statuses /\ (cs[c].status # "unsupported" => s # "unsupported")
      <4>1. cs[c].status \in Statuses
        BY <2>1, HeldType
      <4> QED
        BY <4>1 DEF StatusOf, Statuses
    <3>3. new[c] = [cs[c] EXCEPT !.confidence = Max2(@, o.strength), !.status = s]
      BY <2>3 DEF Support, Observe
    <3> HIDE DEF o, s, new
    <3> QED
      BY <2>1, <3>1, <3>2, <3>3, ObservedClaim
  <2> QED
    BY <2>2, <2>3
<1> QED
  BY <1>1, <1>2 DEF Ledger, Gained

\* Evidence against a claim.
LEMMA ContradictGains ==
  ASSUME NEW cs, Ledger(cs), NEW obs \in AtMostOne(Observation)
  PROVE  Ledger(Contradict(cs, obs)) /\ Gained(Contradict(cs, obs), cs)
<1> DEFINE new == Contradict(cs, obs)
<1>1. DOMAIN new = DOMAIN cs
  BY DEF Contradict, Observe
<1>2. ASSUME NEW c \in DOMAIN cs
      PROVE  new[c] \in Held /\ Stronger(new[c], cs[c])
  <2>1. cs[c] \in Held
    BY DEF Ledger
  <2>2. CASE \A o \in obs : o.claim # c
    <3>1. new[c] = cs[c]
      BY <2>2 DEF Contradict, Observe
    <3> QED
      BY <2>1, <3>1, HeldType
  <2>3. CASE \E o \in obs : o.claim = c
    <3> DEFINE o == CHOOSE o \in obs : o.claim = c
    <3>1. o \in obs /\ o.strength \in 0 .. 3
      BY <2>3, ObservationType
    <3>2. new[c] = [cs[c] EXCEPT !.confidence = Max2(@, o.strength),
                                 !.status = "contradicted"]
      BY <2>3 DEF Contradict, Observe
    <3>3. "contradicted" \in Statuses
      BY DEF Statuses
    <3> HIDE DEF o, new
    <3> QED
      BY <2>1, <3>1, <3>2, <3>3, ObservedClaim
  <2> QED
    BY <2>2, <2>3
<1> QED
  BY <1>1, <1>2 DEF Ledger, Gained

\* Gains add up.
LEMMA GainedTransitive ==
  ASSUME NEW a, Ledger(a), NEW b, Ledger(b), NEW c, Ledger(c), Gained(b, a), Gained(c, b)
  PROVE  Gained(c, a)
<1> SUFFICES ASSUME NEW x \in DOMAIN a PROVE x \in DOMAIN c /\ Stronger(c[x], a[x])
  BY DEF Gained
<1>1. /\ x \in DOMAIN b /\ x \in DOMAIN c
      /\ Stronger(b[x], a[x]) /\ Stronger(c[x], b[x])
  BY DEF Gained
<1>2. a[x].confidence \in 0 .. 3 /\ b[x].confidence \in 0 .. 3 /\ c[x].confidence \in 0 .. 3
  BY <1>1, HeldType DEF Ledger
<1> QED
  BY <1>1, <1>2 DEF Stronger

\* A claim that was not there is put beside the others.
LEMMA PutGains ==
  ASSUME NEW cs, Ledger(cs), NEW c \in ClaimId, c \notin DOMAIN cs, NEW h \in Held
  PROVE  Ledger(Put(cs, c, h)) /\ Gained(Put(cs, c, h), cs)
<1>1. /\ DOMAIN Put(cs, c, h) = DOMAIN cs \cup {c}
      /\ Put(cs, c, h)[c] = h
      /\ \A x \in DOMAIN cs : Put(cs, c, h)[x] = cs[x]
  BY DEF Put
<1>2. \A x \in DOMAIN cs : Stronger(cs[x], cs[x])
  BY HeldType DEF Ledger
<1> QED
  BY <1>1, <1>2 DEF Ledger, Gained

\* Nothing is lost when the claims stay.
LEMMA KeptGains ==
  ASSUME NEW cs, Ledger(cs)
  PROVE  Gained(cs, cs)
BY HeldType DEF Ledger, Gained

\* A new claim of the model, lost when its id is taken.
LEMMA AddNewGains ==
  ASSUME NEW cs, Ledger(cs), Cardinality(DOMAIN cs) + 1 \in DOMAIN NewId
  PROVE  Ledger(AddNew(cs)) /\ Gained(AddNew(cs), cs)
<1> DEFINE id == NewId[Cardinality(DOMAIN cs) + 1]
           h  == [status |-> "unsupported", confidence |-> 0, material |-> TRUE]
<1>1. id \in ClaimId
  BY LoopAssumption
<1>2. h \in Held
  BY DEF Held, Statuses
<1>3. CASE id \in DOMAIN cs
  <2>1. AddNew(cs) = cs
    BY <1>3 DEF AddNew
  <2> QED
    BY <2>1, KeptGains
<1>4. CASE id \notin DOMAIN cs
  <2>1. AddNew(cs) = Put(cs, id, h)
    BY <1>4 DEF AddNew
  <2> HIDE DEF id, h
  <2> QED
    BY <1>1, <1>2, <1>4, <2>1, PutGains
<1> QED
  BY <1>3, <1>4

\* What the model may say of a claim can be held.
LEMMA ReplyType == \A h \in Reply : h \in Held
<1>1. Replied \subseteq Statuses /\ Strength \subseteq 0 .. 3 /\ Materiality \subseteq BOOLEAN
  BY LoopAssumption
<1> QED
  BY <1>1 DEF Reply, Held

\* The model's revision of a claim takes neither its status nor its confidence back.
LEMMA MergeGains ==
  ASSUME NEW cs, Ledger(cs), NEW c \in ClaimId, NEW held \in Reply
  PROVE  Ledger(Merge(cs, c, held)) /\ Gained(Merge(cs, c, held), cs)
<1>1. held \in Held
  BY ReplyType
<1>2. CASE c \notin DOMAIN cs
  BY <1>1, <1>2, PutGains DEF Merge
<1>3. CASE c \in DOMAIN cs
  <2> DEFINE old == cs[c]
             s   == IF Rank[old.status] >= Rank[held.status] THEN old.status ELSE held.status
             h   == [held EXCEPT !.confidence = Max2(@, old.confidence), !.status = s]
  <2>1. old \in Held
    BY <1>3 DEF Ledger
  <2>2. /\ old.status \in Statuses /\ held.status \in Statuses
        /\ old.confidence \in 0 .. 3 /\ held.confidence \in 0 .. 3
    BY <1>1, <2>1, HeldType
  <2>3. s \in Statuses /\ (old.status # "unsupported" => s # "unsupported")
    BY <2>2 DEF Rank, Statuses
  <2>4. /\ Max2(held.confidence, old.confidence) \in 0 .. 3
        /\ Max2(held.confidence, old.confidence) >= old.confidence
    BY <2>2 DEF Max2
  <2>5. Merge(cs, c, held) = [cs EXCEPT ![c] = h]
    BY <1>3 DEF Merge
  <2> HIDE DEF s
  <2>6. h \in Held /\ h.confidence = Max2(held.confidence, old.confidence) /\ h.status = s
    BY <1>1, <2>3, <2>4 DEF Held
  <2> HIDE DEF h
  <2>7. Stronger(h, old)
    BY <2>3, <2>4, <2>6 DEF Stronger
  <2>8. ASSUME NEW x \in DOMAIN cs
        PROVE  /\ Merge(cs, c, held)[x] = IF x = c THEN h ELSE cs[x]
               /\ cs[x] \in Held /\ Stronger(cs[x], cs[x])
    BY <2>5, HeldType DEF Ledger
  <2>9. DOMAIN Merge(cs, c, held) = DOMAIN cs
    BY <2>5
  <2> QED
    BY <2>6, <2>7, <2>8, <2>9 DEF Ledger, Gained
<1> QED
  BY <1>2, <1>3

-----------------------------------------------------------------------------
(* should_stop: the first rule that holds. *)

\* The elements of a concatenation.
LEMMA Joined ==
  ASSUME NEW S, NEW a \in Seq(S), NEW b \in Seq(S)
  PROVE  /\ a \o b \in Seq(S) /\ Len(a \o b) = Len(a) + Len(b)
         /\ \A i \in 1 .. Len(a) : (a \o b)[i] = a[i]
         /\ \A i \in 1 .. Len(b) : (a \o b)[Len(a) + i] = b[i]
<1>1. a \o b \in Seq(S) /\ Len(a \o b) = Len(a) + Len(b)
  OBVIOUS
<1>2. \A i \in 1 .. Len(a) : (a \o b)[i] = a[i]
  OBVIOUS
<1>3. \A i \in 1 .. Len(b) : (a \o b)[Len(a) + i] = b[i]
  OBVIOUS
<1> QED
  BY <1>1, <1>2, <1>3

\* The rules in their order: six budgets, the contradictions, the softer ones.
LEMMA RulesInOrder ==
  ASSUME NEW tokens, NEW late, NEW rules, rules = Rules(tokens, late),
         NEW b, b = Budgets(tokens, late)
  PROVE  /\ DOMAIN rules = 1 .. 11
         /\ \A i \in 1 .. 6 : rules[i] = b[i]
         /\ rules[7] = Contradictions[1]
         /\ rules[8] = Softer[1] /\ rules[9] = Softer[2] /\ rules[10] = Softer[3]
         /\ rules[11] = GoOn[1]
<1>1. PICK c : c = Contradictions
  OBVIOUS
<1>2. PICK s : s = Softer
  OBVIOUS
<1>3. PICK g : g = GoOn
  OBVIOUS
<1>4. PICK S : S = {b[1], b[2], b[3], b[4], b[5], b[6], c[1], s[1], s[2], s[3], g[1]}
  OBVIOUS
<1>5. PICK bc : bc = b \o c
  OBVIOUS
<1>6. PICK bs : bs = bc \o s
  OBVIOUS
<1>7. rules = bs \o g
  BY <1>1, <1>2, <1>3, <1>5, <1>6 DEF Rules
<1>8. b \in Seq(S) /\ Len(b) = 6
  BY <1>4 DEF Budgets
<1>9. c \in Seq(S) /\ Len(c) = 1
  BY <1>1, <1>4 DEF Contradictions
<1>10. s \in Seq(S) /\ Len(s) = 3
  BY <1>2, <1>4 DEF Softer
<1>11. g \in Seq(S) /\ Len(g) = 1
  <2>1. g[1] \in S
    BY <1>4
  <2>2. PICK v : v = Rule(TRUE, "", "running")
    OBVIOUS
  <2>3. g = <<v>>
    BY <1>3, <2>2 DEF GoOn
  <2> QED
    BY <2>1, <2>3
<1>12. b \in Seq(S) /\ c \in Seq(S) /\ s \in Seq(S) /\ g \in Seq(S)
  BY <1>8, <1>9, <1>10, <1>11
<1>12a. bc \in Seq(S) /\ bs \in Seq(S)
  BY <1>5, <1>6, <1>12, ConcatProperties, Zenon
<1>13. /\ Len(bc) = Len(b) + Len(c)
       /\ \A i \in 1 .. Len(b) : bc[i] = b[i]
       /\ \A i \in 1 .. Len(c) : bc[Len(b) + i] = c[i]
  <2>1. /\ b \o c \in Seq(S) /\ Len(b \o c) = Len(b) + Len(c)
        /\ \A i \in 1 .. Len(b) : (b \o c)[i] = b[i]
        /\ \A i \in 1 .. Len(c) : (b \o c)[Len(b) + i] = c[i]
    BY <1>12, Joined
  <2> QED
    BY <1>5, <2>1, Zenon
<1>14. /\ Len(bs) = Len(bc) + Len(s)
       /\ \A i \in 1 .. Len(bc) : bs[i] = bc[i]
       /\ \A i \in 1 .. Len(s) : bs[Len(bc) + i] = s[i]
  <2>1. /\ bc \o s \in Seq(S) /\ Len(bc \o s) = Len(bc) + Len(s)
        /\ \A i \in 1 .. Len(bc) : (bc \o s)[i] = bc[i]
        /\ \A i \in 1 .. Len(s) : (bc \o s)[Len(bc) + i] = s[i]
    BY <1>12, <1>12a, Joined
  <2> QED
    BY <1>6, <2>1, Zenon
<1>15. /\ rules \in Seq(S) /\ Len(rules) = Len(bs) + Len(g)
       /\ \A i \in 1 .. Len(bs) : rules[i] = bs[i]
       /\ \A i \in 1 .. Len(g) : rules[Len(bs) + i] = g[i]
  <2>1. /\ bs \o g \in Seq(S) /\ Len(bs \o g) = Len(bs) + Len(g)
        /\ \A i \in 1 .. Len(bs) : (bs \o g)[i] = bs[i]
        /\ \A i \in 1 .. Len(g) : (bs \o g)[Len(bs) + i] = g[i]
    BY <1>12, <1>12a, Joined
  <2> QED
    BY <1>7, <2>1, Zenon
<1>16. DOMAIN rules = 1 .. 11
  <2>1. Len(rules) = 11
    BY <1>8, <1>9, <1>10, <1>11, <1>13, <1>14, <1>15
  <2>2. DOMAIN rules = 1 .. Len(rules)
    BY <1>15, LenProperties, Zenon
  <2> QED
    BY <2>1, <2>2, Zenon
<1>17. \A i \in 1 .. 6 : rules[i] = b[i]
  BY <1>8, <1>9, <1>10, <1>13, <1>14, <1>15
<1>18. rules[7] = c[1]
  BY <1>8, <1>9, <1>10, <1>13, <1>14, <1>15
<1>19. rules[8] = s[1] /\ rules[9] = s[2] /\ rules[10] = s[3]
  <2>1. 7 + 1 = 8 /\ 7 + 2 = 9 /\ 7 + 3 = 10
    OBVIOUS
  <2> QED
    BY <1>8, <1>9, <1>10, <1>13, <1>14, <1>15, <2>1
<1>20. rules[11] = g[1]
  BY <1>8, <1>9, <1>10, <1>11, <1>13, <1>14, <1>15
<1> QED
  BY <1>1, <1>2, <1>3, <1>16, <1>17, <1>18, <1>19, <1>20

\* Some rule is the first to hold, the last one does.
LEMMA FirstRule ==
  ASSUME NEW rules, DOMAIN rules = 1 .. 11, rules[11].holds
  PROVE  \E i \in DOMAIN rules : rules[i].holds /\ \A j \in 1 .. i - 1 : ~rules[j].holds
<1> SUFFICES ASSUME \A i \in 1 .. 11 :
                      (\A j \in 1 .. i - 1 : ~rules[j].holds) => ~rules[i].holds
             PROVE  FALSE
  OBVIOUS
<1> DEFINE None(n) == \A j \in 1 .. n : ~rules[j].holds
<1>1. ASSUME NEW n \in 0 .. 10, None(n)
      PROVE  None(n + 1)
  <2>1. n + 1 \in 1 .. 11 /\ (n + 1) - 1 = n
    OBVIOUS
  <2>2. ~rules[n + 1].holds
    BY <1>1, <2>1
  <2> QED
    BY <1>1, <2>2
<1>2. None(0)
  OBVIOUS
<1> HIDE DEF None
<1>3. None(1) /\ None(2) /\ None(3) /\ None(4)
  <2>1. None(0 + 1)
    BY <1>1, <1>2
  <2>2. None(1 + 1)
    BY <1>1, <2>1
  <2>3. None(2 + 1)
    BY <1>1, <2>2
  <2>4. None(3 + 1)
    BY <1>1, <2>3
  <2> QED
    BY <2>1, <2>2, <2>3, <2>4
<1>4. None(5) /\ None(6) /\ None(7) /\ None(8)
  <2>1. None(4 + 1)
    BY <1>1, <1>3
  <2>2. None(5 + 1)
    BY <1>1, <2>1
  <2>3. None(6 + 1)
    BY <1>1, <2>2
  <2>4. None(7 + 1)
    BY <1>1, <2>3
  <2> QED
    BY <2>1, <2>2, <2>3, <2>4
<1>5. None(11)
  <2>1. None(8 + 1)
    BY <1>1, <1>4
  <2>2. None(9 + 1)
    BY <1>1, <2>1
  <2>3. None(10 + 1)
    BY <1>1, <2>2
  <2> QED
    BY <2>3
<1> QED
  BY <1>5 DEF None

\* The last rule always holds, and goes on.
LEMMA LastRule == GoOn[1].holds /\ GoOn[1].status = "running" /\ GoOn[1].reason = ""
<1>1. GoOn[1].holds
  BY DEF GoOn, Rule
<1>2. GoOn[1].status = "running"
  BY DEF GoOn, Rule
<1>3. GoOn[1].reason = ""
  BY DEF GoOn, Rule
<1> QED
  BY <1>1, <1>2, <1>3

\* What should_stop decides says which of its rules held.
LEMMA CheckStopDecides ==
  ASSUME TypeOK, CheckStop
  PROVE  /\ reason' \in Reasons
         /\ status' \in SessionStatus
         /\ stop' \in BOOLEAN /\ pc' = (IF stop' THEN "answer" ELSE "pop")
         /\ ~stop' => Room /\ (Unresolved(claims) \/ ~NothingWorthOpening)
         /\ status' = "complete" => WellCovered(claims) /\ stable >= StabilityRounds
         /\ reason' = "frontier_exhausted" => NothingWorthOpening
         /\ stop' /\ Unresolved(claims) => status' = "budget_exhausted"
<1>1. PICK tokens \in BOOLEAN, late \in {FALSE} \cup {rounds > 0} :
        LET rules == Rules(tokens, late)
            first == CHOOSE i \in DOMAIN rules :
                       rules[i].holds /\ \A j \in 1 .. i - 1 : ~rules[j].holds
        IN  /\ reason' = rules[first].reason
            /\ status' = rules[first].status
            /\ stop' = (rules[first].status # "running")
  BY DEF CheckStop
<1>2. PICK rules : rules = Rules(tokens, late)
  OBVIOUS
<1>3. PICK b : b = Budgets(tokens, late)
  OBVIOUS
<1>4. PICK first : first = CHOOSE i \in DOMAIN rules :
                             rules[i].holds /\ \A j \in 1 .. i - 1 : ~rules[j].holds
  OBVIOUS
<1>5. /\ reason' = rules[first].reason
      /\ status' = rules[first].status
      /\ stop' = (rules[first].status # "running")
  BY <1>1, <1>2, <1>4
<1>6. /\ DOMAIN rules = 1 .. 11
      /\ \A i \in 1 .. 6 : rules[i] = b[i]
      /\ rules[7] = Contradictions[1]
      /\ rules[8] = Softer[1] /\ rules[9] = Softer[2] /\ rules[10] = Softer[3]
      /\ rules[11] = GoOn[1]
  BY <1>2, <1>3, RulesInOrder
<1>7. rules[11].holds
  BY <1>6, LastRule, Zenon
<1>8. first \in 1 .. 11 /\ rules[first].holds /\ \A j \in 1 .. first - 1 : ~rules[j].holds
  BY <1>4, <1>6, <1>7, FirstRule
<1> DEFINE Outcome ==
             /\ reason' \in Reasons
             /\ status' \in SessionStatus
             /\ status' = "running" => Room /\ (Unresolved(claims) \/ ~NothingWorthOpening)
             /\ status' = "complete" => WellCovered(claims) /\ stable >= StabilityRounds
             /\ reason' = "frontier_exhausted" => NothingWorthOpening
             /\ status' # "running" /\ Unresolved(claims) => status' = "budget_exhausted"
<1> HIDE DEF Outcome
<1>9. reason' = rules[first].reason /\ status' = rules[first].status
  BY <1>5
<1>10. ASSUME first \in 1 .. 6
       PROVE  Outcome
  <2>1. /\ b[1].status = "budget_exhausted" /\ b[1].reason = "max_retrieval_operations"
        /\ b[2].status = "budget_exhausted" /\ b[2].reason = "max_search_operations"
        /\ b[3].status = "budget_exhausted" /\ b[3].reason = "max_documents_read"
        /\ b[4].status = "budget_exhausted" /\ b[4].reason = "max_llm_tokens"
        /\ b[5].status = "budget_exhausted" /\ b[5].reason = "max_elapsed_ms"
        /\ b[6].status = "budget_exhausted" /\ b[6].reason = "max_loop_rounds"
    BY <1>3 DEF Budgets, Rule
  <2>2. first = 1 \/ first = 2 \/ first = 3 \/ first = 4 \/ first = 5 \/ first = 6
    BY <1>10
  <2>3. b[first].status = "budget_exhausted"
    BY <2>1, <2>2
  <2>4. b[first].reason \in Reasons /\ b[first].reason # "frontier_exhausted"
    BY <2>1, <2>2 DEF Reasons
  <2>5. status' = b[first].status /\ reason' = b[first].reason
    BY <1>6, <1>9, <1>10
  <2> QED
    BY <2>3, <2>4, <2>5 DEF Outcome, SessionStatus, Reasons
<1>11. ASSUME first > 6
       PROVE  Room
  <2>1. \A j \in 1 .. 6 : ~b[j].holds
    BY <1>6, <1>8, <1>11
  <2>2. /\ ~Spent(retrievals, MaxRetrievals) /\ ~Spent(searches, MaxSearches)
        /\ ~Spent(documents, MaxDocuments) /\ ~Spent(rounds, MaxRounds)
    BY <1>3, <2>1 DEF Budgets, Rule
  <2>3. retrievals \in Nat /\ searches \in Nat /\ documents \in Nat /\ rounds \in Nat
    BY DEF TypeOK
  <2>4. MaxRetrievals \in Nat /\ MaxSearches \in Nat /\ MaxDocuments \in Nat /\ MaxRounds \in Nat
    BY LoopAssumption
  <2> QED
    BY <2>2, <2>3, <2>4 DEF Spent, Room
<1>12. ASSUME first = 7
       PROVE  Outcome
  <2>1. /\ rules[7].holds = Unresolved(claims) /\ rules[7].status = "running"
        /\ rules[7].reason = "unresolved_contradictions"
    BY <1>6 DEF Contradictions, Rule
  <2> QED
    <3>1. status' = "running" /\ reason' = "unresolved_contradictions"
      BY <1>9, <1>12, <2>1
    <3>2. Unresolved(claims)
      BY <1>8, <1>12, <2>1
    <3>3. Room
      BY <1>11, <1>12
    <3> QED
      BY <3>1, <3>2, <3>3 DEF Outcome, SessionStatus, Reasons
<1>13. ASSUME first > 7
       PROVE  ~Unresolved(claims)
  <2>1. ~rules[7].holds
    BY <1>8, <1>13
  <2> QED
    BY <1>6, <2>1 DEF Contradictions, Rule
<1>14. ASSUME first \in 8 .. 10
       PROVE  Outcome
  <2>1. Short \in {"partial", "insufficient_evidence"}
    BY DEF Short
  <2>2. CASE first = 8
    <3>1. /\ rules[8].holds = (WellCovered(claims) /\ stable >= StabilityRounds)
          /\ rules[8].status = "complete" /\ rules[8].reason = "coverage_and_stability"
      BY <1>6 DEF Softer, Rule
    <3> QED
      <4>1. status' = "complete" /\ reason' = "coverage_and_stability"
        BY <1>9, <2>2, <3>1
      <4>2. WellCovered(claims) /\ stable >= StabilityRounds
        BY <1>8, <2>2, <3>1
      <4>3. ~Unresolved(claims)
        BY <1>13, <2>2
      <4> QED
        BY <4>1, <4>2, <4>3 DEF Outcome, SessionStatus, Reasons
  <2>3. CASE first = 9
    <3>1. rules[9].status = Short /\ rules[9].reason = "marginal_information_gain"
      BY <1>6 DEF Softer, Rule
    <3> QED
      <4>1. status' = Short /\ reason' = "marginal_information_gain"
        BY <1>9, <2>3, <3>1
      <4>2. ~Unresolved(claims)
        BY <1>13, <2>3
      <4> QED
        BY <2>1, <4>1, <4>2 DEF Outcome, SessionStatus, Reasons
  <2>4. CASE first = 10
    <3>1. /\ rules[10].holds = NothingWorthOpening
          /\ rules[10].status = Short /\ rules[10].reason = "frontier_exhausted"
      BY <1>6 DEF Softer, Rule
    <3> QED
      <4>1. status' = Short /\ reason' = "frontier_exhausted"
        BY <1>9, <2>4, <3>1
      <4>2. NothingWorthOpening
        BY <1>8, <2>4, <3>1
      <4>3. ~Unresolved(claims)
        BY <1>13, <2>4
      <4> QED
        BY <2>1, <4>1, <4>2, <4>3 DEF Outcome, SessionStatus, Reasons
  <2> QED
    BY <1>14, <2>2, <2>3, <2>4
<1>15. ASSUME first = 11
       PROVE  Outcome
  <2>1. ~rules[10].holds
    BY <1>8, <1>15
  <2>2. ~NothingWorthOpening
    <3>1. rules[10].holds = NothingWorthOpening
      BY <1>6 DEF Softer, Rule
    <3> QED
      BY <2>1, <3>1
  <2>3. rules[11].status = "running" /\ rules[11].reason = ""
    BY <1>6, LastRule, Zenon
  <2> QED
    <3>1. status' = "running" /\ reason' = ""
      BY <1>9, <1>15, <2>3
    <3>2. Room
      BY <1>11, <1>15
    <3> QED
      BY <2>2, <3>1, <3>2 DEF Outcome, SessionStatus, Reasons
<1>16. Outcome
  BY <1>8, <1>10, <1>12, <1>14, <1>15
<1>17. stop' = (status' # "running")
  BY <1>5
<1>18. pc' = IF stop' THEN "answer" ELSE "pop"
  BY DEF CheckStop
<1> QED
  BY <1>16, <1>17, <1>18 DEF Outcome

-----------------------------------------------------------------------------
(* The steps of the loop, piece by piece. *)

\* The queue and the claims are well formed.
LEMMA TypedParts ==
  ASSUME TypeOK
  PROVE  Queue(items) /\ Ledger(claims) /\ visited \in SUBSET Node
BY DEF TypeOK, Queue, Ledger

\* An open candidate is read, or stays with the same or a higher priority.
Risen(new, old, read) ==
  \A n \in DOMAIN old : n \in read \/ (n \in DOMAIN new /\ Priority(new[n]) >= Priority(old[n]))

\* No candidate sinks in a queue that stays as it is.
LEMMA KeptRises ==
  ASSUME NEW its, Queue(its), NEW read
  PROVE  Risen(its, its, read)
<1>1. \A n \in DOMAIN its : Priority(its[n]) \in Nat
  BY PriorityType DEF Queue
<1> QED
  BY <1>1 DEF Risen

\* What a step does to the queue: it stays well formed and apart from what was read,
\* and no candidate is lost or sinks.
LEMMA QueueStep ==
  ASSUME TypeOK, Frontier, [Next]_vars
  PROVE  /\ Queue(items') /\ visited' \in SUBSET Node
         /\ DOMAIN items' \cap visited' = {}
         /\ Risen(items', items, visited')
<1>1. Queue(items) /\ visited \in SUBSET Node /\ DOMAIN items \cap visited = {}
  BY TypedParts DEF Frontier
<1>2. CASE Begin
  <2>1. PICK hits \in Hits, r \in Relevance : items' = Extend(items, hits, r, visited)
    BY <1>2 DEF Begin
  <2>2. hits \in SUBSET Node /\ visited' = visited
    BY <1>2 DEF Hits, Begin
  <2>3. /\ DOMAIN items' = DOMAIN items \cup (hits \ visited)
        /\ Queue(items')
        /\ \A n \in DOMAIN items : Priority(items'[n]) >= Priority(items[n])
    <3>1. Queue(items) /\ hits \in SUBSET Node /\ r \in Relevance /\ visited \in SUBSET Node
      BY <1>1, <2>2
    <3>2. DOMAIN items' = DOMAIN items \cup (hits \ visited)
      BY <2>1 DEF Extend
    <3>3. Queue(items')
      BY <2>1, <3>1, ExtendRises, Zenon
    <3>4. \A n \in DOMAIN items : Priority(items'[n]) >= Priority(items[n])
      BY <2>1, <3>1, ExtendRises
    <3> QED
      BY <3>2, <3>3, <3>4
  <2> QED
    BY <1>1, <2>2, <2>3 DEF Risen
<1>3. CASE Retrieve
  <2>1. PICK n \in Best, there \in BOOLEAN, r \in Relevance : Visit(n, there, r)
    BY <1>3 DEF Retrieve
  <2> DEFINE rest == [m \in Open \ {n} |-> items[m]]
             hits == IF there THEN Children[n] ELSE {}
  <2>2. n \in Node /\ n \in DOMAIN items
    BY <1>1 DEF Best, Open, Queue
  <2>3. visited' = visited \cup {n} /\ items' = Extend(rest, hits, r, visited')
    BY <2>1 DEF Visit
  <2>4. Queue(rest) /\ DOMAIN rest = DOMAIN items \ {n}
    BY <1>1 DEF Queue, Open
  <2>5. hits \in SUBSET Node /\ visited' \in SUBSET Node
    BY <1>1, <2>2, <2>3, LoopAssumption
  <2>6. \A m \in DOMAIN items \ {n} : rest[m] = items[m]
    BY DEF Open
  <2> HIDE DEF rest, hits
  <2>7. /\ DOMAIN items' = DOMAIN rest \cup (hits \ visited')
        /\ Queue(items')
        /\ \A m \in DOMAIN rest : Priority(items'[m]) >= Priority(rest[m])
    <3>1. DOMAIN items' = DOMAIN rest \cup (hits \ visited')
      BY <2>3 DEF Extend
    <3>2. Queue(items')
      BY <2>3, <2>4, <2>5, ExtendRises, Zenon
    <3>3. \A m \in DOMAIN rest : Priority(items'[m]) >= Priority(rest[m])
      BY <2>3, <2>4, <2>5, ExtendRises
    <3> QED
      BY <3>1, <3>2, <3>3
  <2>8. Risen(items', items, visited')
    <3> SUFFICES ASSUME NEW m \in DOMAIN items, m # n
                 PROVE  m \in DOMAIN items' /\ Priority(items'[m]) >= Priority(items[m])
      BY <2>3 DEF Risen
    <3>1. m \in DOMAIN rest /\ rest[m] = items[m]
      BY <2>4, <2>6
    <3> QED
      BY <2>7, <3>1
  <2> QED
    BY <1>1, <2>3, <2>4, <2>5, <2>7, <2>8
<1>4. CASE GapSearch
  <2>1. PICK hits \in Hits, r \in Relevance, named \in Hits :
          items' = Rerank(Extend(items, hits, r, visited), named)
    BY <1>4 DEF GapSearch
  <2>2. hits \in SUBSET Node /\ visited' = visited
    BY <1>4 DEF Hits, GapSearch
  <2>3. PICK its : its = Extend(items, hits, r, visited)
    OBVIOUS
  <2>4. /\ DOMAIN its = DOMAIN items \cup (hits \ visited)
        /\ Queue(its)
        /\ \A n \in DOMAIN items : Priority(its[n]) >= Priority(items[n])
    <3>1. Queue(items) /\ hits \in SUBSET Node /\ r \in Relevance /\ visited \in SUBSET Node
      BY <1>1, <2>2
    <3>2. DOMAIN its = DOMAIN items \cup (hits \ visited)
      BY <2>3 DEF Extend
    <3>3. Queue(its)
      BY <2>3, <3>1, ExtendRises, Zenon
    <3>4. \A n \in DOMAIN items : Priority(its[n]) >= Priority(items[n])
      BY <2>3, <3>1, ExtendRises
    <3> QED
      BY <3>2, <3>3, <3>4
  <2>5. /\ DOMAIN items' = DOMAIN its
        /\ Queue(items')
        /\ \A n \in DOMAIN its : Priority(items'[n]) >= Priority(its[n])
    BY <2>1, <2>3, <2>4, RerankRises
  <2>6. ASSUME NEW n \in DOMAIN items
        PROVE  n \in DOMAIN items' /\ Priority(items'[n]) >= Priority(items[n])
    <3>1. n \in DOMAIN its /\ n \in DOMAIN items'
      BY <2>4, <2>5
    <3>2. items[n] \in Scored /\ its[n] \in Scored /\ items'[n] \in Scored
      BY <1>1, <2>4, <2>5, <3>1 DEF Queue
    <3>3. /\ Priority(items[n]) \in Nat /\ Priority(its[n]) \in Nat
          /\ Priority(items'[n]) \in Nat
      BY <3>2, PriorityType
    <3>4. Priority(items'[n]) >= Priority(its[n]) /\ Priority(its[n]) >= Priority(items[n])
      BY <2>4, <2>5, <3>1
    <3> QED
      BY <3>1, <3>3, <3>4
  <2> QED
    BY <1>1, <2>2, <2>4, <2>5, <2>6 DEF Risen
<1>5. CASE UNCHANGED queue
  <2>1. items' = items /\ visited' = visited
    BY <1>5 DEF queue
  <2>2. Risen(items, items, visited)
    BY <1>1, KeptRises
  <2> QED
    BY <1>1, <2>1, <2>2
<1>6. CASE CheckStop \/ PopNothing \/ Extract \/ Update \/ Answer \/ UNCHANGED vars
  <2>1. UNCHANGED queue
    <3>1. CASE CheckStop
      BY <3>1 DEF CheckStop, queue
    <3>2. CASE PopNothing
      BY <3>2 DEF PopNothing, queue
    <3>3. CASE Extract
      BY <3>3 DEF Extract, queue
    <3>4. CASE Update
      BY <3>4 DEF Update, queue
    <3>5. CASE Answer
      BY <3>5 DEF Answer, queue
    <3>6. CASE UNCHANGED vars
      BY <3>6 DEF vars, queue
    <3> QED
      BY <1>6, <3>1, <3>2, <3>3, <3>4, <3>5, <3>6
  <2> QED
    BY <1>5, <2>1
<1> QED
  BY <1>2, <1>3, <1>4, <1>6 DEF Next, Step, Finished

\* What a step does to the claims.
LEMMA ClaimsStep ==
  ASSUME TypeOK, [Next]_vars
  PROVE  Ledger(claims') /\ (pc # "begin" => Gained(claims', claims))
<1>1. Ledger(claims)
  BY TypedParts
<1>2. CASE Begin
  <2>1. pc = "begin"
    BY <1>2 DEF Begin
  <2>2. CASE claims' = claims
    BY <1>1, <2>1, <2>2
  <2>3. CASE \E c \in ClaimId, held \in Reply : claims' = Put(claims, c, held)
    BY <1>1, <2>1, <2>3, ReplyType DEF Put, Ledger
  <2> QED
    BY <1>2, <2>2, <2>3 DEF Begin, InitialClaims
<1>3. CASE Extract
  <2>1. PICK for \in AtMostOne(Observation), against \in AtMostOne(Observation), new \in BOOLEAN :
          /\ new => Cardinality(DOMAIN Contradict(Support(claims, for), against)) + 1 \in DOMAIN NewId
          /\ claims' = IF new THEN AddNew(Contradict(Support(claims, for), against))
                       ELSE Contradict(Support(claims, for), against)
    BY <1>3 DEF Extract
  <2>2. PICK one : one = Support(claims, for)
    OBVIOUS
  <2>3. PICK told : told = Contradict(one, against)
    OBVIOUS
  <2>4. Ledger(one) /\ Gained(one, claims)
    BY <1>1, <2>2, SupportGains
  <2>5. Ledger(told) /\ Gained(told, one)
    BY <2>3, <2>4, ContradictGains
  <2>6. Gained(told, claims)
    BY <1>1, <2>4, <2>5, GainedTransitive
  <2>7. CASE new
    <3>1. Cardinality(DOMAIN told) + 1 \in DOMAIN NewId /\ claims' = AddNew(told)
      BY <2>1, <2>2, <2>3, <2>7
    <3>2. Ledger(claims') /\ Gained(claims', told)
      BY <2>5, <3>1, AddNewGains
    <3> QED
      BY <1>1, <2>5, <2>6, <3>2, GainedTransitive
  <2>8. CASE ~new
    <3>1. claims' = told
      BY <2>1, <2>2, <2>3, <2>8
    <3> QED
      BY <2>5, <2>6, <3>1
  <2> QED
    BY <2>7, <2>8
<1>4. CASE Update
  <2>1. CASE claims' = claims
    BY <1>1, <2>1, KeptGains
  <2>2. CASE \E c \in ClaimId, held \in Reply : claims' = Merge(claims, c, held)
    BY <1>1, <2>2, MergeGains
  <2> QED
    BY <1>4, <2>1, <2>2 DEF Update
<1>5. CASE UNCHANGED claims
  BY <1>1, <1>5, KeptGains
<1>6. CASE CheckStop \/ PopNothing \/ Retrieve \/ GapSearch \/ Answer \/ UNCHANGED vars
  <2>1. UNCHANGED claims
    <3>1. CASE CheckStop
      BY <3>1 DEF CheckStop
    <3>2. CASE PopNothing
      BY <3>2 DEF PopNothing
    <3>3. CASE Retrieve
      BY <3>3 DEF Retrieve, Visit
    <3>4. CASE GapSearch
      BY <3>4 DEF GapSearch
    <3>5. CASE Answer
      BY <3>5 DEF Answer
    <3>6. CASE UNCHANGED vars
      BY <3>6 DEF vars
    <3> QED
      BY <1>6, <3>1, <3>2, <3>3, <3>4, <3>5, <3>6
  <2> QED
    BY <1>5, <2>1
<1> QED
  BY <1>2, <1>3, <1>4, <1>6 DEF Next, Step, Finished

\* The limits are positive, and a batch has a size.
LEMMA Limits ==
  /\ MaxRetrievals \in Nat \ {0} /\ MaxSearches \in Nat \ {0}
  /\ MaxDocuments \in Nat \ {0} /\ MaxRounds \in Nat \ {0}
  /\ Batches \subseteq Nat /\ Batches # {}
BY LoopAssumption

\* The inductive invariant holds when the question is asked.
LEMMA InitInv == Init => IInv
<1> SUFFICES ASSUME Init PROVE IInv
  OBVIOUS
<1>1. /\ pc = "begin" /\ DOMAIN items = {} /\ visited = {} /\ DOMAIN claims = {}
      /\ supported = FALSE /\ gaps = FALSE /\ stop = FALSE /\ reason = "" /\ status = "running"
  BY DEF Init
<1>2. retrievals = 0 /\ searches = 0 /\ documents = 0 /\ rounds = 0 /\ stable = 0 /\ lowGain = 0
  BY DEF Init
<1> HIDE DEF Init
<1>3. TypeOK
  <2>1. {retrievals, searches, documents, rounds, stable, lowGain} \subseteq Nat
    BY <1>2
  <2>2. supported \in BOOLEAN /\ gaps \in BOOLEAN /\ stop \in BOOLEAN
    BY <1>1
  <2>3. \A n \in DOMAIN items : items[n] \in Scored
    BY <1>1
  <2>4. \A c \in DOMAIN claims : claims[c] \in Held
    BY <1>1
  <2> QED
    BY <1>1, <2>1, <2>2, <2>3, <2>4 DEF TypeOK, SessionStatus, Reasons
<1>4. Frontier
  BY <1>1, <1>2, FS_EmptySet DEF Frontier
<1>5. Spending
  <2>1. retrievals = Cardinality(visited)
    BY <1>4 DEF Frontier
  <2>2. PICK k \in Batches : k \in Nat
    BY Limits
  <2>3. documents < MaxDocuments + k
    BY <1>2, <2>2, Limits
  <2>4. retrievals <= MaxRetrievals /\ searches <= MaxSearches /\ rounds <= MaxRounds
    BY <1>2, Limits
  <2> QED
    BY <1>1, <1>2, <2>1, <2>3, <2>4 DEF Spending, WithinBudgets
<1>6. Verdict
  BY <1>1 DEF Verdict, StopReasonHolds
<1> QED
  BY <1>3, <1>4, <1>5, <1>6 DEF IInv

\* Every step keeps the types.
LEMMA TypeStep ==
  ASSUME TypeOK, Frontier, [Next]_vars
  PROVE  TypeOK'
<1>1. Queue(items') /\ visited' \in SUBSET Node /\ Ledger(claims')
  BY QueueStep, ClaimsStep
<1>2. /\ DOMAIN items' \subseteq Node /\ \A n \in DOMAIN items' : items'[n] \in Scored
      /\ visited' \subseteq Node
      /\ DOMAIN claims' \subseteq ClaimId /\ \A c \in DOMAIN claims' : claims'[c] \in Held
  BY <1>1 DEF Queue, Ledger
<1> DEFINE Rest ==
             /\ pc \in {"begin", "check", "pop", "extract", "update", "gap", "answer", "done"}
             /\ supported \in BOOLEAN /\ gaps \in BOOLEAN /\ stop \in BOOLEAN
             /\ retrievals \in Nat /\ searches \in Nat /\ documents \in Nat
             /\ rounds \in Nat /\ stable \in Nat /\ lowGain \in Nat
             /\ status \in SessionStatus /\ reason \in Reasons
<1>3. Rest
  BY DEF TypeOK
<1>4. Rest'
  <2>1. CASE Begin
    BY <1>3, <2>1 DEF Begin, gain, ending
  <2>2. CASE CheckStop
    <3>1. /\ reason' \in Reasons /\ status' \in SessionStatus /\ stop' \in BOOLEAN
          /\ pc' \in {"answer", "pop"}
      BY <2>2, CheckStopDecides
    <3>2. UNCHANGED <<counters, gain, gaps>>
      BY <2>2 DEF CheckStop
    <3> QED
      BY <1>3, <3>1, <3>2 DEF counters, gain
  <2>3. CASE PopNothing
    <3>1. /\ rounds' = rounds + 1 /\ pc' = "answer"
          /\ reason' = "frontier_exhausted" /\ status' = "insufficient_evidence"
          /\ UNCHANGED <<retrievals, searches, documents, stable, lowGain, supported, gaps, stop>>
      BY <2>3 DEF PopNothing, gain
    <3>2. supported' \in BOOLEAN /\ gaps' \in BOOLEAN /\ stop' \in BOOLEAN
      BY <1>3, <3>1, Zenon
    <3>3. /\ retrievals' \in Nat /\ searches' \in Nat /\ documents' \in Nat
          /\ rounds' \in Nat /\ stable' \in Nat /\ lowGain' \in Nat
      BY <1>3, <3>1
    <3>4. status' \in SessionStatus /\ reason' \in Reasons
      BY <1>3, <3>1 DEF SessionStatus, Reasons
    <3> QED
      BY <3>1, <3>2, <3>3, <3>4
  <2>4. CASE Retrieve
    <3>1. PICK n \in Best, there \in BOOLEAN, r \in Relevance : Visit(n, there, r)
      BY <2>4 DEF Retrieve
    <3>2. documents' \in Nat
      BY <1>3, <3>1, Limits DEF Visit
    <3>3. /\ rounds' = rounds + 1 /\ retrievals' = retrievals + 1 /\ pc' = "extract"
          /\ UNCHANGED <<searches, gain, gaps, ending>>
      BY <3>1 DEF Visit
    <3> QED
      BY <1>3, <3>2, <3>3 DEF gain, ending
  <2>5. CASE Extract
    <3>1. supported' \in BOOLEAN /\ gaps' \in BOOLEAN
      BY <2>5, Zenon DEF Extract, ClaimGap
    <3>2. pc' = "update" /\ UNCHANGED <<counters, stable, lowGain, ending>>
      BY <2>5 DEF Extract
    <3> QED
      BY <1>3, <3>1, <3>2 DEF counters, ending
  <2>6. CASE Update
    <3>1. /\ supported' = FALSE /\ pc' = (IF gaps THEN "gap" ELSE "check")
          /\ UNCHANGED <<counters, gaps, ending>>
      BY <2>6 DEF Update
    <3>2. stable' \in Nat /\ lowGain' \in Nat
      BY <1>3, <2>6 DEF Update
    <3> QED
      BY <1>3, <3>1, <3>2 DEF counters, ending
  <2>7. CASE GapSearch
    <3>1. /\ searches' = searches + 1 /\ pc' = "check" /\ gaps' = FALSE
          /\ UNCHANGED <<retrievals, documents, rounds, stable, lowGain, supported, stop, reason, status>>
      BY <2>7 DEF GapSearch, gain, ending
    <3>2. supported' \in BOOLEAN /\ gaps' \in BOOLEAN /\ stop' \in BOOLEAN
      BY <1>3, <3>1, Zenon
    <3>3. /\ retrievals' \in Nat /\ searches' \in Nat /\ documents' \in Nat
          /\ rounds' \in Nat /\ stable' \in Nat /\ lowGain' \in Nat
      BY <1>3, <3>1
    <3>4. status' \in SessionStatus /\ reason' \in Reasons
      BY <1>3, <3>1
    <3> QED
      BY <3>1, <3>2, <3>3, <3>4
  <2>8. CASE Answer
    BY <1>3, <2>8 DEF Answer, counters, gain, SessionStatus
  <2>9. CASE UNCHANGED vars
    BY <1>3, <2>9 DEF vars, counters, gain, ending
  <2> QED
    BY <2>1, <2>2, <2>3, <2>4, <2>5, <2>6, <2>7, <2>8, <2>9 DEF Next, Step, Finished
<1> QED
  BY <1>2, <1>4 DEF TypeOK

\* Each retrieval adds one node to what was read.
LEMMA FrontierStep ==
  ASSUME TypeOK, Frontier, [Next]_vars
  PROVE  Frontier'
<1>1. DOMAIN items' \cap visited' = {}
  BY QueueStep
<1>2. IsFiniteSet(visited)
  BY TypedParts, FS_Subset, LoopAssumption
<1>3. retrievals = Cardinality(visited) /\ DOMAIN items \cap visited = {}
  BY DEF Frontier
<1>4. CASE Retrieve
  <2>1. PICK n \in Best, there \in BOOLEAN, r \in Relevance : Visit(n, there, r)
    BY <1>4 DEF Retrieve
  <2>2. n \notin visited
    BY <1>3 DEF Best, Open
  <2>3. visited' = visited \cup {n} /\ retrievals' = retrievals + 1
    BY <2>1 DEF Visit
  <2>4. Cardinality(visited \cup {n}) = Cardinality(visited) + 1
    BY <1>2, <2>2, FS_AddElement
  <2> QED
    BY <1>1, <1>3, <2>3, <2>4 DEF Frontier
<1>5. ASSUME UNCHANGED <<visited, retrievals>>
      PROVE  Frontier'
  BY <1>1, <1>3, <1>5 DEF Frontier
<1>6. CASE Begin
  BY <1>5, <1>6 DEF Begin
<1>10. CASE CheckStop
  BY <1>5, <1>10 DEF CheckStop, queue, counters
<1>11. CASE PopNothing
  BY <1>5, <1>11 DEF PopNothing, queue
<1>7. CASE Extract
  BY <1>5, <1>7 DEF Extract, queue, counters
<1>8. CASE Update \/ GapSearch
  BY <1>5, <1>8 DEF Update, GapSearch, queue, counters
<1>9. CASE Answer \/ UNCHANGED vars
  BY <1>5, <1>9 DEF Answer, vars, queue, counters
<1> QED
  BY <1>4, <1>6, <1>7, <1>8, <1>9, <1>10, <1>11 DEF Next, Step, Finished

\* What a step may spend, and from where to where it leads.
LEMMA SpendingStep ==
  ASSUME TypeOK, Frontier, Spending, [Next]_vars
  PROVE  Spending'
<1>1. /\ retrievals \in Nat /\ searches \in Nat /\ documents \in Nat /\ rounds \in Nat
  BY DEF TypeOK
<1>2. retrievals' = Cardinality(visited')
  BY FrontierStep DEF Frontier
<1>3. /\ retrievals <= MaxRetrievals /\ searches <= MaxSearches /\ rounds <= MaxRounds
      /\ \E k \in Batches : documents < MaxDocuments + k
  BY DEF Spending, WithinBudgets
<1> DEFINE Looks == {"check", "answer", "done"}
           Spends == {"extract", "update", "gap"}
<1>4. ASSUME pc' \in Looks \cup Spends,
             retrievals' <= MaxRetrievals, searches' <= MaxSearches, rounds' <= MaxRounds,
             \E k \in Batches : documents' < MaxDocuments + k,
             pc' \in Spends => searches' < MaxSearches
      PROVE  Spending'
  BY <1>2, <1>4 DEF Spending, WithinBudgets
<1>5. CASE Begin
  <2>1. /\ pc' = "check" /\ searches' = 0 + 1 /\ retrievals' = retrievals
        /\ documents' = documents /\ rounds' = rounds
    BY <1>5 DEF Begin, Spending
  <2> QED
    BY <1>3, <1>4, <2>1, Limits
<1>6. CASE CheckStop
  <2>1. UNCHANGED <<retrievals, searches, documents, rounds>> /\ pc' \in {"answer", "pop"}
    BY <1>6, CheckStopDecides DEF CheckStop, counters
  <2>2. pc' = "pop" => Room
    BY <1>6, CheckStopDecides
  <2>3. CASE pc' = "answer"
    BY <1>3, <1>4, <2>1, <2>3
  <2>4. CASE pc' = "pop"
    BY <1>2, <1>3, <2>1, <2>2, <2>4 DEF Spending, WithinBudgets, Room
  <2> QED
    BY <2>1, <2>3, <2>4
<1>7. CASE PopNothing
  <2>1. /\ pc' = "answer" /\ rounds' = rounds + 1
        /\ UNCHANGED <<retrievals, searches, documents>>
    BY <1>7 DEF PopNothing
  <2>2. rounds < MaxRounds
    BY <1>7 DEF PopNothing, Spending, Room
  <2> QED
    BY <1>1, <1>3, <1>4, <2>1, <2>2, Limits
<1>8. CASE Retrieve
  <2>1. PICK n \in Best, there \in BOOLEAN, r \in Relevance : Visit(n, there, r)
    BY <1>8 DEF Retrieve
  <2>2. pc = "pop"
    BY <2>1 DEF Visit
  <2>3. /\ retrievals < MaxRetrievals /\ searches < MaxSearches
        /\ documents < MaxDocuments /\ rounds < MaxRounds
    BY <2>2 DEF Spending, Room
  <2>4. /\ pc' = "extract" /\ rounds' = rounds + 1 /\ retrievals' = retrievals + 1
        /\ searches' = searches
    BY <2>1 DEF Visit
  <2>5. documents' = documents \/ \E k \in Batches : documents' = documents + k
    BY <2>1 DEF Visit
  <2>6. \E k \in Batches : documents' < MaxDocuments + k
    <3>1. CASE documents' = documents
      BY <1>3, <3>1
    <3>2. CASE \E k \in Batches : documents' = documents + k
      <4>1. PICK k \in Batches : documents' = documents + k
        BY <3>2
      <4>2. k \in Nat /\ MaxDocuments \in Nat
        BY Limits
      <4>3. documents' < MaxDocuments + k
        BY <1>1, <2>3, <4>1, <4>2
      <4> QED
        BY <4>3
    <3> QED
      BY <2>5, <3>1, <3>2
  <2> QED
    BY <1>1, <1>4, <2>3, <2>4, <2>6, Limits
<1>9. CASE Extract
  <2>1. pc = "extract" /\ pc' = "update" /\ UNCHANGED <<retrievals, searches, documents, rounds>>
    BY <1>9 DEF Extract, counters
  <2>2. searches < MaxSearches
    BY <2>1 DEF Spending
  <2> QED
    BY <1>3, <1>4, <2>1, <2>2
<1>10. CASE Update
  <2>1. /\ pc = "update" /\ pc' \in {"gap", "check"}
        /\ UNCHANGED <<retrievals, searches, documents, rounds>>
    BY <1>10 DEF Update, counters
  <2>2. searches < MaxSearches
    BY <2>1 DEF Spending
  <2> QED
    BY <1>3, <1>4, <2>1, <2>2
<1>11. CASE GapSearch
  <2>1. /\ pc = "gap" /\ pc' = "check" /\ searches' = searches + 1
        /\ UNCHANGED <<retrievals, documents, rounds>>
    BY <1>11 DEF GapSearch
  <2>2. searches < MaxSearches
    BY <2>1 DEF Spending
  <2> QED
    BY <1>1, <1>3, <1>4, <2>1, <2>2, Limits
<1>12. CASE Answer
  <2>1. pc' = "done" /\ UNCHANGED <<retrievals, searches, documents, rounds>>
    BY <1>12 DEF Answer, counters
  <2> QED
    BY <1>3, <1>4, <2>1
<1>13. CASE UNCHANGED vars
  <2>1. UNCHANGED <<pc, visited, retrievals, searches, documents, rounds>>
    BY <1>13 DEF vars, queue, counters
  <2> QED
    BY <2>1 DEF Spending, WithinBudgets, Room
<1> QED
  BY <1>5, <1>6, <1>7, <1>8, <1>9, <1>10, <1>11, <1>12, <1>13 DEF Next, Step, Finished

\* What should_stop knew still holds when the answer is given.
LEMMA VerdictStep ==
  ASSUME TypeOK, Verdict, [Next]_vars
  PROVE  Verdict'
<1>1. CASE CheckStop
  <2>1. /\ ~stop' => Unresolved(claims) \/ ~NothingWorthOpening
        /\ status' = "complete" => WellCovered(claims) /\ stable >= StabilityRounds
        /\ reason' = "frontier_exhausted" => NothingWorthOpening
        /\ stop' /\ Unresolved(claims) => status' = "budget_exhausted"
        /\ stop' \in BOOLEAN /\ pc' = (IF stop' THEN "answer" ELSE "pop")
    BY <1>1, CheckStopDecides
  <2>2. claims' = claims /\ items' = items /\ stable' = stable
    BY <1>1 DEF CheckStop, queue, gain
  <2>3. NothingWorthOpening' <=> NothingWorthOpening
    BY <2>2 DEF NothingWorthOpening, Open
  <2>4. CASE stop'
    BY <2>1, <2>2, <2>3, <2>4 DEF Verdict, StopReasonHolds
  <2>5. CASE ~stop'
    BY <2>1, <2>2, <2>3, <2>5 DEF Verdict, StopReasonHolds
  <2> QED
    BY <2>4, <2>5
<1>2. CASE PopNothing
  <2>1. /\ pc = "pop" /\ Open = {} /\ pc' = "answer"
        /\ claims' = claims /\ items' = items /\ stop' = stop
    BY <1>2 DEF PopNothing, queue
  <2>2. NothingWorthOpening
    BY <2>1 DEF NothingWorthOpening
  <2>3. ~stop /\ Unresolved(claims)
    BY <2>1, <2>2 DEF Verdict
  <2> QED
    BY <2>1, <2>3 DEF Verdict, StopReasonHolds, Open
<1>3. CASE Answer
  <2>1. /\ pc = "answer" /\ pc' = "done" /\ status' = (IF stop THEN status ELSE "complete")
        /\ claims' = claims /\ items' = items /\ stable' = stable /\ reason' = reason
    BY <1>3 DEF Answer, queue, gain
  <2>2. NothingWorthOpening' <=> NothingWorthOpening
    BY <2>1 DEF NothingWorthOpening, Open
  <2>3. Open' = Open
    BY <2>1 DEF Open
  <2>4. CASE stop
    BY <2>1, <2>2, <2>4 DEF Verdict, StopReasonHolds
  <2>5. CASE ~stop
    <3>1. Unresolved(claims) /\ Open = {}
      BY <2>1, <2>5 DEF Verdict
    <3>2. NothingWorthOpening
      BY <3>1 DEF NothingWorthOpening
    <3> QED
      BY <2>1, <2>2, <2>3, <2>5, <3>1, <3>2 DEF Verdict, StopReasonHolds
  <2> QED
    BY <2>4, <2>5 DEF TypeOK
<1>4. CASE UNCHANGED vars
  <2>1. UNCHANGED <<pc, items, claims, stable, stop, reason, status>>
    BY <1>4 DEF vars, queue, gain, ending
  <2>2. (NothingWorthOpening' <=> NothingWorthOpening) /\ Open' = Open
    BY <2>1 DEF NothingWorthOpening, Open
  <2> QED
    BY <2>1, <2>2 DEF Verdict, StopReasonHolds
<1>5. ASSUME pc' \notin {"pop", "answer", "done"}
      PROVE  Verdict'
  BY <1>5 DEF Verdict, StopReasonHolds
<1>6. CASE Begin
  BY <1>5, <1>6 DEF Begin
<1>7. CASE Retrieve
  BY <1>5, <1>7 DEF Retrieve, Visit
<1>8. CASE Extract
  BY <1>5, <1>8 DEF Extract
<1>9. CASE Update
  BY <1>5, <1>9 DEF Update
<1>10. CASE GapSearch
  BY <1>5, <1>10 DEF GapSearch
<1> QED
  BY <1>1, <1>2, <1>3, <1>4, <1>6, <1>7, <1>8, <1>9, <1>10 DEF Next, Step, Finished

-----------------------------------------------------------------------------
(* The theorems. *)

\* Every step keeps all four parts of the invariant.
LEMMA StepInv == IInv /\ [Next]_vars => IInv'
BY TypeStep, FrontierStep, SpendingStep, VerdictStep DEF IInv

\* The invariant holds in every state of every run.
LEMMA Invariance == Spec => []IInv
<1> QED
  BY InitInv, StepInv, PTL DEF Spec

\* Every variable keeps its type.
THEOREM TypeCorrect == Spec => []TypeOK
<1>1. IInv => TypeOK
  BY DEF IInv
<1> QED
  BY <1>1, Invariance, PTL

\* The budgets are looked at once a round and spent by at most one each in between,
\* so they are never passed, but for documents, by less than one batch.
THEOREM BudgetsHold == Spec => []WithinBudgets
<1>1. IInv => WithinBudgets
  BY DEF IInv, Spending
<1> QED
  BY <1>1, Invariance, PTL

\* The status and the reason of a finished session are true of its claims and queue.
THEOREM StopReasonIsTrue == Spec => []StopReasonHolds
<1>1. IInv => StopReasonHolds
  BY DEF IInv, Verdict
<1> QED
  BY <1>1, Invariance, PTL

\* No reply of the model takes evidence back.
THEOREM EvidenceAccumulates == Spec => ClaimsOnlyGain
<1>1. TypeOK /\ [Next]_vars =>
        [pc # "begin" =>
           \A c \in DOMAIN claims :
             /\ c \in DOMAIN claims'
             /\ claims'[c].confidence >= claims[c].confidence
             /\ claims[c].status # "unsupported" => claims'[c].status # "unsupported"]_vars
  BY ClaimsStep DEF Gained, Stronger
<1> QED
  BY <1>1, TypeCorrect, PTL DEF Spec, ClaimsOnlyGain

\* No candidate is lost unread or sinks in the queue.
THEOREM NoCandidateSinks == Spec => CandidatesOnlyRise
<1>1. IInv /\ [Next]_vars =>
        [\A n \in Open : n \in visited' \/
           (n \in DOMAIN items' /\ Priority(items'[n]) >= Priority(items[n]))]_vars
  BY QueueStep DEF IInv, Risen, Open
<1> QED
  BY <1>1, Invariance, PTL DEF Spec, CandidatesOnlyRise
=============================================================================
