---------------------------- MODULE AdaptiveLoop ----------------------------
(***************************************************************************)
(* run_adaptive (app/retrieval/loop.py): one question explored best first. *)
(*                                                                         *)
(* A round pops the best open navigation node, reads it, lets the model    *)
(* extract evidence and revise the claims, searches again for what is      *)
(* missing and asks should_stop.  Searches, documents and the model's      *)
(* replies are chosen freely; the queue, the counters, the claims and the  *)
(* order of the stopping rules are the code's.                             *)
(***************************************************************************)
EXTENDS Integers, FiniteSets, Sequences

CONSTANTS
  Node,            \* navigation nodes
  Collection,      \* source collections
  Source,          \* [Node -> Collection \cup {NoCollection}]
  Children,        \* [Node -> SUBSET Node], of databases and collections
  RawNode,         \* nodes whose source is in RAW_DB
  ClaimId,         \* claim ids; NewId[k] is "N{k}"
  NewId,
  Relevance,       \* scores a search gives, as integers
  Strength,        \* support strengths: 0 below 0.4, 1 below 0.5, 2 below 0.75, 3
  MaxGap,          \* evidence_gap saturates there
  Weight,          \* w_relevance, w_evidence_gap, w_diversity and the rest
  MinPriority,
  MaxHits,         \* most nodes a search returns, and a rerank raises
  Materiality,     \* what the model may say of a claim being material
  Batches,         \* numbers of documents a node may yield, besides none
  Replied,         \* statuses the model may give a claim
  MaxRetrievals, MaxSearches, MaxDocuments, MaxRounds,
  StabilityRounds, LowGainRounds

NoCollection == "no collection"
Statuses == {"unsupported", "partially_supported", "supported", "contradicted"}

ASSUME LoopAssumption ==
  /\ IsFiniteSet(Node)
  /\ Source \in [Node -> Collection \cup {NoCollection}]
  /\ Children \in [Node -> SUBSET Node]
  /\ RawNode \subseteq Node
  /\ DOMAIN NewId \subseteq Nat /\ \A k \in DOMAIN NewId : NewId[k] \in ClaimId
  /\ Relevance \subseteq Nat
  /\ Strength \subseteq 0 .. 3
  /\ MaxGap \in Nat /\ MinPriority \in Nat /\ MaxHits \in Nat /\ Materiality \subseteq BOOLEAN /\ Batches \subseteq Nat /\ Batches # {}
  /\ Replied \subseteq Statuses
  /\ Weight \in [{"relevance", "gap", "diversity", "fixed"} -> Nat]
  /\ {MaxRetrievals, MaxSearches, MaxDocuments, MaxRounds} \subseteq Nat \ {0}
  /\ {StabilityRounds, LowGainRounds} \subseteq Nat \ {0}

VARIABLES
  pc,
  items,           \* CandidateQueue._items, without the visited ones
  visited,         \* CandidateQueue._visited
  claims,          \* session.claims
  retrievals, searches, documents, rounds,
  stable,          \* stable_rounds
  lowGain,         \* consecutive_low_gain
  supported,       \* extraction.claims_supported of this round is non-empty
  gaps,            \* identify_gaps of this round returned something
  stop, reason, status     \* what should_stop returned; at the end, as saved

queue    == <<items, visited>>
counters == <<retrievals, searches, documents, rounds>>
gain     == <<stable, lowGain, supported>>
ending   == <<stop, reason, status>>
vars     == <<pc, queue, claims, counters, gain, gaps, ending>>

Scored == [relevance : Relevance, gap : 0 .. MaxGap, diversity : 0 .. 6]
Held   == [status : Statuses, confidence : 0 .. 3, material : BOOLEAN]

SessionStatus == {"running", "complete", "partial", "insufficient_evidence", "budget_exhausted"}

Reasons == {"", "max_retrieval_operations", "max_search_operations", "max_documents_read",
            "max_llm_tokens", "max_elapsed_ms", "max_loop_rounds", "unresolved_contradictions",
            "coverage_and_stability", "marginal_information_gain", "frontier_exhausted"}

TypeOK ==
  /\ pc \in {"begin", "check", "pop", "extract", "update", "gap", "answer", "done"}
  /\ DOMAIN items \subseteq Node /\ \A n \in DOMAIN items : items[n] \in Scored
  /\ visited \subseteq Node
  /\ DOMAIN claims \subseteq ClaimId /\ \A c \in DOMAIN claims : claims[c] \in Held
  /\ supported \in BOOLEAN /\ gaps \in BOOLEAN /\ stop \in BOOLEAN
  /\ {retrievals, searches, documents, rounds, stable, lowGain} \subseteq Nat
  /\ status \in SessionStatus
  /\ reason \in Reasons

Init ==
  /\ pc = "begin"
  /\ items = [n \in {} |-> 0]
  /\ visited = {}
  /\ claims = [c \in {} |-> 0]
  /\ supported = FALSE /\ gaps = FALSE
  /\ retrievals = 0 /\ searches = 0 /\ documents = 0 /\ rounds = 0
  /\ stable = 0 /\ lowGain = 0
  /\ stop = FALSE /\ reason = "" /\ status = "running"

-----------------------------------------------------------------------------
(* The candidate queue.                                                    *)

\* score_candidate of an open candidate: its novelty is 1 and its cost fixed.
Priority(c) == Weight["relevance"] * c.relevance + Weight["gap"] * c.gap
               + Weight["diversity"] * c.diversity + Weight["fixed"]

\* from_nodes and add: diversity is 1 / (1 + pops of the collection), here out of
\* 6; without a collection the default of 0.5 stays.
Candidate(n, r, seen) ==
  [relevance |-> r, gap |-> 0,
   diversity |-> IF Source[n] = NoCollection THEN 3
                 ELSE 6 \div (1 + Cardinality({v \in seen : Source[v] = Source[n]}))]

\* add keeps the better of two candidates for a node.  One that is added for a
\* visited node is never looked at again, and the model drops it.
BetterAlways(new, old) == TRUE      \* mutant: the newest candidate wins
Better(new, old) == Priority(new) > Priority(old)

\* extend(from_nodes(hits)): the hits share a relevance to keep the choices few.
Extend(its, hits, r, seen) ==
  [n \in DOMAIN its \cup (hits \ seen) |->
     IF n \in hits /\ (n \notin DOMAIN its \/ Better(Candidate(n, r, seen), its[n]))
     THEN Candidate(n, r, seen) ELSE its[n]]

\* rerank_for_gaps: candidates whose text names a gap gain on it.
Rerank(its, named) ==
  [n \in DOMAIN its |-> IF n \in named /\ its[n].gap < MaxGap
                        THEN [its[n] EXCEPT !.gap = @ + 1] ELSE its[n]]

Open == DOMAIN items

Best == {n \in Open : \A m \in Open : Priority(items[m]) <= Priority(items[n])}

\* highest_priority, which is 0 when nothing is open, is below min_priority.
NothingWorthOpening == \A n \in Open : Priority(items[n]) < MinPriority

-----------------------------------------------------------------------------
(* Claims.                                                                 *)

Material(cs) == {c \in DOMAIN cs : cs[c].material}
Covered(cs)  == {c \in Material(cs) : cs[c].status # "unsupported"}

\* coverage(claims) >= coverage_threshold (0.75)
WellCovered(cs) == Material(cs) # {} /\ 4 * Cardinality(Covered(cs)) >= 3 * Cardinality(Material(cs))

\* unresolved_critical_contradictions
Unresolved(cs) == \E c \in Material(cs) : cs[c].status = "contradicted" /\ cs[c].confidence >= 2

Put(f, x, v) == [y \in DOMAIN f \cup {x} |-> IF y = x THEN v ELSE f[y]]

Max2(a, b) == IF a >= b THEN a ELSE b

Rank == [s \in Statuses |-> CASE s = "unsupported" -> 0 [] s = "partially_supported" -> 1
                              [] s = "supported" -> 2 [] s = "contradicted" -> 3]

StatusOf(strength, prior) ==
  IF strength = 3 THEN "supported" ELSE IF strength > 0 THEN "partially_supported" ELSE prior

\* One observation (a set of at most one) of a known claim, with the status it gives.
Observe(cs, obs, newStatus(_, _)) ==
  [c \in DOMAIN cs |->
     IF \A o \in obs : o.claim # c THEN cs[c]
     ELSE LET o == CHOOSE o \in obs : o.claim = c
          IN  [cs[c] EXCEPT !.confidence = Max2(@, o.strength),
                            !.status = newStatus(o.strength, @)]]

Support(cs, obs)    == Observe(cs, obs, StatusOf)
Contradict(cs, obs) == Observe(cs, obs, LAMBDA strength, prior : "contradicted")

\* A new claim is named after the number of claims; if the id is taken it is lost.
AddNew(cs) ==
  LET id == NewId[Cardinality(DOMAIN cs) + 1]
  IN  IF id \in DOMAIN cs THEN cs
      ELSE Put(cs, id, [status |-> "unsupported", confidence |-> 0, material |-> TRUE])

\* Mutant: the model's status is taken as it is.
MergeModelStatus(cs, c, held) ==
  IF c \notin DOMAIN cs THEN Put(cs, c, held)
  ELSE [cs EXCEPT ![c] = [held EXCEPT !.confidence = Max2(@, cs[c].confidence)]]

\* merge_claims: the stronger status, the higher confidence; the rest is the model's.
Merge(cs, c, held) ==
  IF c \notin DOMAIN cs THEN Put(cs, c, held)
  ELSE [cs EXCEPT ![c] =
          [held EXCEPT !.confidence = Max2(@, cs[c].confidence),
                       !.status = IF Rank[cs[c].status] >= Rank[@] THEN cs[c].status ELSE @]]

\* identify_gaps finds a claim that needs evidence; it also returns the open
\* questions, which the model leaves to choice.
ClaimGap(cs) == \E c \in DOMAIN cs : cs[c].status \in {"unsupported", "partially_supported"}

Observation == [claim : ClaimId, strength : Strength]
AtMostOne(S) == {{}} \cup {{x} : x \in S}
Reply == [status : Replied, confidence : Strength, material : Materiality]
Hits == {h \in SUBSET Node : Cardinality(h) <= MaxHits}

-----------------------------------------------------------------------------
(* The loop.                                                               *)

\* generate_hypothesis: no claim, or one.
InitialClaims == {claims} \cup {Put(claims, c, held) : c \in ClaimId, held \in Reply}

\* The first search seeds the queue; generate_hypothesis returns claims.
Begin ==
  /\ pc = "begin"
  /\ items' \in {Extend(items, hits, r, visited) : hits \in Hits, r \in Relevance}
  /\ claims' \in InitialClaims
  /\ searches' = searches + 1
  /\ pc' = "check"
  /\ UNCHANGED <<visited, retrievals, documents, rounds, gain, gaps, ending>>

Short == IF Covered(claims) # {} THEN "partial" ELSE "insufficient_evidence"

\* should_stop as a list of rules: the budgets, in order; then contradictions,
\* which hold back the softer rules; then those.
SpentLate(count, limit) == count > limit      \* mutant: off by one
Spent(count, limit) == count >= limit

Rule(holds, why, how) == [holds |-> holds, reason |-> why, status |-> how]

Budgets(tokens, late) ==
  << Rule(Spent(retrievals, MaxRetrievals), "max_retrieval_operations", "budget_exhausted"),
     Rule(Spent(searches, MaxSearches), "max_search_operations", "budget_exhausted"),
     Rule(Spent(documents, MaxDocuments), "max_documents_read", "budget_exhausted"),
     Rule(tokens, "max_llm_tokens", "budget_exhausted"),
     Rule(late, "max_elapsed_ms", "budget_exhausted"),
     Rule(Spent(rounds, MaxRounds), "max_loop_rounds", "budget_exhausted") >>

Contradictions == << Rule(Unresolved(claims), "unresolved_contradictions", "running") >>

Softer ==
  << Rule(WellCovered(claims) /\ stable >= StabilityRounds, "coverage_and_stability", "complete"),
     Rule(lowGain >= LowGainRounds, "marginal_information_gain", Short),
     Rule(NothingWorthOpening, "frontier_exhausted", Short) >>

GoOn == << Rule(TRUE, "", "running") >>

\* Mutant: contradictions are looked at after the softer rules.
RulesContradictionsLast(tokens, late) == Budgets(tokens, late) \o Softer \o Contradictions \o GoOn
Rules(tokens, late) == Budgets(tokens, late) \o Contradictions \o Softer \o GoOn

\* elapsed_ms is 0 until the first round ends.
CheckStop ==
  /\ pc = "check"
  /\ \E tokens \in BOOLEAN, late \in {FALSE} \cup {rounds > 0} :
       LET rules == Rules(tokens, late)
           first == CHOOSE i \in DOMAIN rules :
                      rules[i].holds /\ \A j \in 1 .. i - 1 : ~rules[j].holds
       IN  /\ reason' = rules[first].reason
           /\ status' = rules[first].status
           /\ stop' = (rules[first].status # "running")
  /\ pc' = IF stop' THEN "answer" ELSE "pop"
  /\ UNCHANGED <<queue, claims, counters, gain, gaps>>

\* The loop is left with stop still FALSE.
PopNothing ==
  /\ pc = "pop" /\ Open = {}
  /\ rounds' = rounds + 1
  /\ reason' = "frontier_exhausted" /\ status' = "insufficient_evidence"
  /\ pc' = "answer"
  /\ UNCHANGED <<queue, claims, retrievals, searches, documents, gain, gaps, stop>>

\* pop_best and _retrieve.  A node without a collection yields no documents, one
\* that is gone neither documents nor children; only documents of RAW_DB count.
Visit(n, there, r) ==
  /\ pc = "pop"
  /\ visited' = visited \cup {n}
  /\ items' = Extend([m \in Open \ {n} |-> items[m]], IF there THEN Children[n] ELSE {}, r, visited')
  /\ \/ UNCHANGED documents
     \/ there /\ n \in RawNode /\ Source[n] # NoCollection /\ documents' \in {documents + k : k \in Batches}
  /\ rounds' = rounds + 1
  /\ retrievals' = retrievals + 1
  /\ pc' = "extract"
  /\ UNCHANGED <<claims, searches, gain, gaps, ending>>

\* Mutant: a node that is gone is skipped uncounted, and stays in the queue.
RetrieveSkippingGone ==
  \/ \E n \in Best, r \in Relevance : Visit(n, TRUE, r)
  \/ pc = "pop" /\ Open # {} /\ pc' = "check"
     /\ UNCHANGED <<queue, claims, counters, gain, gaps, ending>>
Retrieve == \E n \in Best, there \in BOOLEAN, r \in Relevance : Visit(n, there, r)

\* extract_evidence and apply_extraction; an observation of an unknown claim is
\* skipped.  The gaps are those of the claims before the model revises them.
Extract ==
  /\ pc = "extract"
  /\ \E for \in AtMostOne(Observation), against \in AtMostOne(Observation),
        new \in BOOLEAN :
       LET told == Contradict(Support(claims, for), against)
       IN  /\ new => Cardinality(DOMAIN told) + 1 \in DOMAIN NewId
           /\ claims' = IF new THEN AddNew(told) ELSE told
           /\ supported' = (for # {})
           /\ gaps' \in {ClaimGap(claims'), TRUE}      \* an open question is a gap too
  /\ pc' = "update"
  /\ UNCHANGED <<queue, counters, stable, lowGain, ending>>

\* update_hypothesis and merge_claims.  The hypothesis changes much, or little (delta
\* below 0.08); a small delta may also be below min_gain, unless a claim was supported.
Update ==
  /\ pc = "update"
  /\ claims' \in {claims} \cup {Merge(claims, c, held) : c \in ClaimId, held \in Reply}
  /\ \/ stable' = 0 /\ lowGain' = 0
     \/ stable' = stable + 1 /\ lowGain' \in {0, IF supported THEN 0 ELSE lowGain + 1}
  /\ supported' = FALSE      \* not read again
  /\ pc' = IF gaps THEN "gap" ELSE "check"
  /\ UNCHANGED <<queue, counters, gaps, ending>>

\* The search for the first gap, and rerank_for_gaps over the queue.
GapSearch ==
  /\ pc = "gap"
  /\ items' \in {Rerank(Extend(items, hits, r, visited), named) :
                   hits \in Hits, r \in Relevance, named \in Hits}
  /\ searches' = searches + 1
  /\ pc' = "check"
  /\ gaps' = FALSE
  /\ UNCHANGED <<visited, claims, retrievals, documents, rounds, gain, ending>>

\* generate_answer; the status is that of should_stop only if it said stop.
Answer ==
  /\ pc = "answer"
  /\ status' = IF stop THEN status ELSE "complete"
  /\ pc' = "done"
  /\ UNCHANGED <<queue, claims, counters, gain, gaps, reason, stop>>

Step == Begin \/ CheckStop \/ PopNothing \/ Retrieve \/ Extract \/ Update \/ GapSearch \/ Answer

Finished == pc = "done" /\ UNCHANGED vars

Next == Step \/ Finished

\* One thread runs the loop, and the clients it calls have timeouts.  A call that
\* raises ends run_adaptive where it is, with the session as it was last saved.
Spec == Init /\ [][Next]_vars /\ WF_vars(Step)

-----------------------------------------------------------------------------
(* Properties.                                                             *)

\* The hard budgets of should_stop are tested once a round, after the round has
\* spent: retrievals, searches and rounds never pass their limit all the same, and
\* documents pass it by less than one batch.  Each retrieval read another node.
WithinBudgets ==
  /\ retrievals <= MaxRetrievals
  /\ searches <= MaxSearches
  /\ rounds <= MaxRounds
  /\ \E k \in Batches : documents < MaxDocuments + k
  /\ retrievals = Cardinality(visited)

\* A session is saved as complete only if its material claims were covered over
\* stable rounds, or a contradiction was left and no node to settle it; and the
\* frontier is called exhausted only if no candidate worth min_priority is left.
StopReasonHolds ==
  pc = "done" =>
    /\ status = "complete" =>
         \/ WellCovered(claims) /\ stable >= StabilityRounds
         \/ Unresolved(claims) /\ Open = {}
    /\ reason = "frontier_exhausted" => NothingWorthOpening
    /\ Unresolved(claims) => status \in {"complete", "budget_exhausted"}

\* Evidence accumulates: no reply of the model takes a claim away, makes a covered
\* claim unsupported again or lowers a confidence.
ClaimsOnlyGain ==
  [][pc # "begin" =>
       \A c \in DOMAIN claims :
         /\ c \in DOMAIN claims'
         /\ claims'[c].confidence >= claims[c].confidence
         /\ claims[c].status # "unsupported" => claims'[c].status # "unsupported"]_vars

\* An open candidate leaves the queue only by being read, and neither a later hit
\* nor the rerank for gaps lowers its priority.
CandidatesOnlyRise ==
  [][\A n \in Open : n \in visited' \/ (n \in DOMAIN items' /\ Priority(items'[n]) >= Priority(items[n]))]_vars

\* Whatever the model replies, every question ends.
Ends == <>(pc = "done")
=============================================================================
