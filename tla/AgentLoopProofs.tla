--------------------------- MODULE AgentLoopProofs ---------------------------
(***************************************************************************)
(* Proofs about AgentLoop, for every set of references, every set of       *)
(* approved tools, both modes and every value of the caps.  The inductive  *)
(* invariant is the conjunction of Replied, Gated, Budgeted, Concluded and *)
(* Planned, one for each piece of the loop's state.                        *)
(***************************************************************************)
EXTENDS AgentLoop, TLAPS

Looping == {"top", "llm", "turn"}

\* The first at - 1 calls of the reply are answered, in order; a new turn
\* starts only after the last one.
Replied ==
  /\ pc \in Looping => replies = [i \in 1 .. at - 1 |-> i]
  /\ pc \in {"top", "llm"} => at = Len(calls) + 1
  /\ pc = "turn" => at <= Len(calls) + 1

\* A refusal is pending in its own turn and bounced in the later ones.
Gated ==
  /\ pc = "llm" => ~gate.pending
  /\ pc = "turn" => turns >= 1
  /\ pc \in {"top", "turn"} /\ gate.pending => refusedIn = turns /\ turns >= 1
  /\ gate.bounced => refusedIn \in 1 .. turns
  /\ pc = "turn" /\ gate.bounced => refusedIn < turns
  /\ refusedIn # 0 => gate.pending \/ gate.bounced
  /\ draft # None => pc \notin {"top", "llm"}
  /\ ReadOrSeenRefusal

\* The loop never comes back to its head once the submission was forced.
Budgeted ==
  /\ pc \in Looping => submitted = None /\ turns <= MaxTurns
  /\ pc \in {"top", "turn"} => ~forced
  /\ pc = "llm" /\ ~forced => turns < MaxTurns
  /\ TurnBudget

\* What the loop leaves for Finish to conclude from.
Concluded ==
  /\ pc \in Looping \cup {"finish"} =>
       /\ session.status = IF forced THEN "budget_exhausted" ELSE "complete"
       /\ session.reason \in {"max_agent_turns", "max_elapsed_ms"} <=> forced
  /\ pc = "finish" /\ ~forced => submitted # None
  /\ StatusTellsHow

\* The plan of a turn was made against the ledger the turn started with.
Planned ==
  /\ pc = "turn" => Len(plan) = Len(calls)
  /\ pc = "turn" /\ Parallel =>
       \A i \in 1 .. Len(calls) : plan[i] = Decide(calls[i], before)
  /\ NoStaleDraft

IInv == TypeOK /\ Replied /\ Gated /\ Budgeted /\ Concluded /\ Planned

-----------------------------------------------------------------------------
\* The inductive invariant holds when the ask starts.
LEMMA InitInv == Init => IInv
<1> SUFFICES ASSUME Init PROVE IInv
  OBVIOUS
<1> USE LoopAssumption DEF Init, Looping, None, Answers
<1>1. TypeOK
  <2>1. calls \in Seq(ToolCall) /\ plan \in Seq(Decisions) /\ replies \in Seq(Nat)
    OBVIOUS
  <2>2. session \in [status : Statuses, reason : Reasons, saved : Statuses,
                    answer : Answers]
    BY DEF Statuses, Reasons
  <2>3. gate \in [pending : BOOLEAN, bounced : BOOLEAN]
    OBVIOUS
  <2>4. /\ late \in BOOLEAN /\ forced \in BOOLEAN
        /\ read \in BOOLEAN /\ gathered \in BOOLEAN
    OBVIOUS
  <2>5. turns \in Nat /\ at \in Nat \ {0} /\ refusedIn \in Nat
    OBVIOUS
  <2>6. draft \in Answers \cup {None} /\ submitted \in Answers \cup {None}
    OBVIOUS
  <2>7. pc \in {"top", "llm", "turn", "finish", "done", "raised"}
        /\ ledger \in SUBSET Ref /\ before \in SUBSET Ref
    OBVIOUS
  <2> HIDE DEF Init
  <2> QED
    BY <2>1, <2>2, <2>3, <2>4, <2>5, <2>6, <2>7 DEF TypeOK
<1>2. Replied
  BY DEF Replied
<1>3. Gated
  BY DEF Gated, ReadOrSeenRefusal
<1>4. Budgeted
  BY DEF Budgeted, TurnBudget
<1>5. Concluded
  BY DEF Concluded, StatusTellsHow
<1>6. Planned
  BY DEF Planned, NoStaleDraft
<1> QED
  BY <1>1, <1>2, <1>3, <1>4, <1>5, <1>6 DEF IInv

-----------------------------------------------------------------------------
(* The replies of the model. *)

\* A reply is a sequence of tool calls.
LEMMA TurnsAreSequences ==
  ASSUME NEW cs \in Turns
  PROVE  cs \in Seq(ToolCall) /\ DOMAIN cs = 1 .. Len(cs) /\ Len(cs) \in Nat
<1>1. PICK n \in 1 .. MaxCalls : cs \in [1 .. n -> ToolCall]
  BY DEF Turns
<1> QED
  BY <1>1, LoopAssumption

\* A decision is planned for each call.
LEMMA DecideType ==
  ASSUME NEW c, NEW known
  PROVE  Decide(c, known) \in Decisions
  BY DEF Decide, Decisions

\* Answers are arguments of submissions, and none of them is None.
LEMMA SubmissionType ==
  ASSUME NEW c \in ToolCall, c.tool = "submit"
  PROVE  c.arg \in Answers /\ c.arg # None
  BY DEF ToolCall, Answers, None, Reads

-----------------------------------------------------------------------------
(* Type correctness. *)

\* Answering n calls appends n positions.
LEMMA AnswerType ==
  ASSUME TypeOK, NEW n \in Nat \ {0}, Answer(n)
  PROVE  /\ at' \in Nat \ {0} /\ at' = at + n
         /\ replies' \in Seq(Nat)
         /\ UNCHANGED <<pc, budget, turn, submitted, session>>
<1>1. at \in Nat \ {0} /\ replies \in Seq(Nat)
  BY DEF TypeOK
<1>2. [i \in 1 .. n |-> at + i - 1] \in Seq(Nat)
  BY <1>1
<1>3. replies \o [i \in 1 .. n |-> at + i - 1] \in Seq(Nat)
  BY <1>1, <1>2
<1> QED
  BY <1>1, <1>3 DEF Answer

\* What the results of tools add to the evidence.
LEMMA AbsorbType ==
  ASSUME TypeOK, NEW records, \A r \in records : r.refs \subseteq Ref, Absorb(records)
  PROVE  /\ read' \in BOOLEAN /\ gathered' \in BOOLEAN
         /\ ledger' \in SUBSET Ref
<1>1. read' \in BOOLEAN
  BY Zenon DEF Absorb
<1>2. gathered' \in BOOLEAN
  BY Zenon DEF Absorb
<1>3. ledger' \in SUBSET Ref
  BY DEF Absorb, TypeOK
<1> QED
  BY <1>1, <1>2, <1>3

\* A record of a result holds references of the result.
LEMMA RecordType ==
  ASSUME NEW i, NEW found \in Found
  PROVE  Record(i, found).refs \subseteq Ref
  BY DEF Record, Found

\* A new reply resets the turn.
LEMMA ReplyType ==
  ASSUME TypeOK, NEW cs, NEW decisions, cs \in Seq(ToolCall),
         decisions \in Seq(Decisions), Reply(cs, decisions)
  PROVE  /\ turns' \in Nat /\ at' \in Nat \ {0}
         /\ calls' \in Seq(ToolCall) /\ plan' \in Seq(Decisions)
         /\ before' \in SUBSET Ref
         /\ draft' \in Answers \cup {None}
         /\ late' \in BOOLEAN /\ forced' \in BOOLEAN
         /\ read' \in BOOLEAN /\ gathered' \in BOOLEAN /\ ledger' \in SUBSET Ref
  BY DEF Reply, TypeOK, evidence

\* What a batch does to the state: n calls are answered, n results absorbed.
LEMMA BatchShape ==
  ASSUME RunBatch
  PROVE  \E n \in 2 .. Cap :
           /\ Segment(n)
           /\ \E found \in [1 .. n -> Found] :
                Absorb({Record(at + i - 1, found[i]) : i \in 1 .. n})
           /\ Answer(n)
<1>1. Nothing \in Found
  BY DEF Nothing, Found
<1>2. PICK n \in 2 .. Cap :
        /\ Segment(n)
        /\ \E found \in [1 .. n -> IF late THEN {Nothing} ELSE Found] :
             Absorb({Record(at + i - 1, found[i]) : i \in 1 .. n})
        /\ Answer(n)
  BY DEF RunBatch
<1>3. [1 .. n -> IF late THEN {Nothing} ELSE Found] \subseteq [1 .. n -> Found]
  BY <1>1
<1> QED
  BY <1>2, <1>3

\* Every action keeps the types.
LEMMA TypeStep ==
  ASSUME TypeOK, [Next]_vars
  PROVE  TypeOK'
<1> USE LoopAssumption
<1> DEFINE Session == [status : Statuses, reason : Reasons, saved : Statuses,
                       answer : Answers]
           Gate == [pending : BOOLEAN, bounced : BOOLEAN]
<1>t. /\ gate \in Gate /\ session \in Session
      /\ gate.pending \in BOOLEAN /\ gate.bounced \in BOOLEAN
  BY DEF TypeOK
<1>s. /\ [session EXCEPT !.status = "complete", !.reason = "completed"] \in Session
      /\ [session EXCEPT !.status = "budget_exhausted", !.reason = BudgetReason]
           \in Session
  BY <1>t DEF BudgetReason, Statuses, Reasons
<1>g. [gate EXCEPT !.pending = TRUE] \in Gate
  BY <1>t
<1>e. <<>> \in Seq(ToolCall) /\ <<>> \in Seq(Decisions) /\ <<>> \in Seq(Nat)
  OBVIOUS
<1>1. CASE TimePasses
  BY <1>1 DEF TimePasses, TypeOK, evidence, turn
<1>2. CASE TopOfLoop
  <2>1. gate' \in Gate
    <3>1. (gate.bounced \/ gate.pending) \in BOOLEAN
      BY Zenon
    <3> QED
      BY <1>2, <3>1 DEF TopOfLoop
  <2>2. forced' \in BOOLEAN /\ session' \in Session
        /\ pc' \in {"top", "llm", "turn", "finish", "done", "raised"}
    BY <1>2, <1>s, <1>t DEF TopOfLoop, TypeOK
  <2> QED
    BY <1>2, <2>1, <2>2 DEF TopOfLoop, TypeOK, evidence, turn
<1>3. CASE ReplyText
  <2>1. Reply(<<>>, <<>>) /\ replies' = <<>>
    BY <1>3 DEF ReplyText
  <2>2. gate' \in Gate /\ session' \in Session
    BY <1>3, <1>s, <1>g, <1>t DEF ReplyText, Refuse
  <2>3. refusedIn' \in Nat /\ submitted' \in Answers \cup {None}
        /\ pc' \in {"top", "finish"}
    BY <1>3 DEF ReplyText, Refuse, Reply, Answers, TypeOK
  <2> QED
    BY <1>e, <2>1, <2>2, <2>3, ReplyType DEF TypeOK
<1>4. CASE ReplyEmpty
  <2>1. Reply(<<>>, <<>>) /\ replies' = <<>> /\ pc' \in {"top", "finish"}
    BY <1>4 DEF ReplyEmpty
  <2> QED
    BY <1>4, <1>e, <2>1, ReplyType DEF ReplyEmpty, TypeOK
<1>5. ASSUME NEW cs \in Turns, ReplyForced(cs)
      PROVE  TypeOK'
  <2>1. Reply(cs, <<>>) /\ replies' = <<>> /\ pc' = "finish"
    BY <1>5 DEF ReplyForced
  <2>2. cs \in Seq(ToolCall)
    BY TurnsAreSequences
  <2>3. submitted' \in Answers \cup {None}
    BY <1>5 DEF ReplyForced, TypeOK
  <2> QED
    BY <1>5, <1>e, <2>1, <2>2, <2>3, ReplyType DEF ReplyForced, TypeOK
<1>6. ASSUME NEW cs \in Turns, ReplyCalls(cs)
      PROVE  TypeOK'
  <2> DEFINE decisions == IF Parallel
                          THEN [i \in DOMAIN cs |-> Decide(cs[i], ledger)]
                          ELSE [i \in DOMAIN cs |-> "sequential"]
  <2>1. Reply(cs, decisions) /\ replies' = <<>> /\ pc' = "turn"
    BY <1>6 DEF ReplyCalls
  <2>2. cs \in Seq(ToolCall) /\ DOMAIN cs = 1 .. Len(cs) /\ Len(cs) \in Nat
    BY TurnsAreSequences
  <2>3. decisions \in Seq(Decisions)
    <3>1. \A i \in DOMAIN cs : Decide(cs[i], ledger) \in Decisions
      BY DecideType
    <3>2. "sequential" \in Decisions
      BY DEF Decisions
    <3> QED
      BY <2>2, <3>1, <3>2
  <2> HIDE DEF decisions
  <2> QED
    BY <1>6, <1>e, <2>1, <2>2, <2>3, ReplyType DEF ReplyCalls, TypeOK
<1>7. CASE DeferSubmit
  <2>1. Answer(1)
    BY <1>7 DEF DeferSubmit
  <2> QED
    BY <1>7, <2>1, AnswerType DEF DeferSubmit, TypeOK, evidence, budget, turn
<1>8. CASE Submit
  <2>1. Answer(1)
    BY <1>8 DEF Submit
  <2>2. calls[at] \in ToolCall /\ calls[at].tool = "submit"
    BY <1>8 DEF Submit, InTurn, TypeOK
  <2>3. gate' \in Gate /\ draft' \in Answers \cup {None}
    BY <1>8, <1>g, <1>t, <2>2, SubmissionType DEF Submit, Refuse, TypeOK
  <2>4. refusedIn' \in Nat
    BY <1>8, <2>1 DEF Submit, Refuse, Answer, budget, TypeOK
  <2> QED
    BY <1>8, <2>1, <2>3, <2>4, AnswerType DEF Submit, TypeOK, evidence, budget, turn
<1>9. CASE RejectInvalid
  <2>1. Answer(1)
    BY <1>9 DEF RejectInvalid
  <2> QED
    BY <1>9, <2>1, AnswerType DEF RejectInvalid, TypeOK, evidence, budget, turn
<1>10. CASE Dispatch
  <2>1. Answer(1)
    BY <1>10 DEF Dispatch
  <2>2. PICK found \in Found : Absorb({Record(at, found)})
    BY <1>10 DEF Dispatch
  <2>3. \A r \in {Record(at, found)} : r.refs \subseteq Ref
    BY RecordType
  <2>4. read' \in BOOLEAN /\ gathered' \in BOOLEAN /\ ledger' \in SUBSET Ref
    BY <2>2, <2>3, AbsorbType
  <2> QED
    BY <1>10, <2>1, <2>4, AnswerType DEF Dispatch, TypeOK, budget, turn
<1>11. CASE RunBatch
  <2>0. PICK n \in 2 .. Cap : 
          /\ \E found \in [1 .. n -> Found] :
               Absorb({Record(at + i - 1, found[i]) : i \in 1 .. n})
          /\ Answer(n)
    BY <1>11, BatchShape
  <2>1. PICK found \in [1 .. n -> Found] :
          Absorb({Record(at + i - 1, found[i]) : i \in 1 .. n})
    BY <2>0
  <2>2. \A r \in {Record(at + i - 1, found[i]) : i \in 1 .. n} : r.refs \subseteq Ref
    BY RecordType
  <2>3. read' \in BOOLEAN /\ gathered' \in BOOLEAN /\ ledger' \in SUBSET Ref
    BY <2>1, <2>2, AbsorbType
  <2>4. n \in Nat \ {0}
    OBVIOUS
  <2> QED
    BY <1>11, <2>0, <2>3, <2>4, AnswerType DEF RunBatch, TypeOK, budget, turn
<1>12. CASE EndTurn
  <2>1. session' \in Session
    BY <1>12, <1>s, <1>t DEF EndTurn
  <2> QED
    BY <1>12, <2>1 DEF EndTurn, TypeOK, evidence, budget, turn
<1>13. CASE Finish
  <2>1. ASSUME NEW answer \in Answers, Conclude(answer)
        PROVE  session' \in Session
    BY <1>t, <2>1 DEF Conclude, Statuses, Reasons
  <2>2. \E answer \in Answers : Conclude(answer)
    <3>1. (IF submitted = None THEN "empty" ELSE submitted) \in Answers
      BY DEF TypeOK, Answers
    <3> QED
      BY <1>13, <3>1 DEF Finish
  <2>3. session' \in Session /\ turns' \in Nat
    BY <1>13, <2>1, <2>2 DEF Finish, TypeOK
  <2> QED
    BY <1>13, <2>3 DEF Finish, TypeOK, evidence, turn
<1>14. CASE Raise
  BY <1>14 DEF Raise, TypeOK, evidence, budget, turn
<1>15. CASE UNCHANGED vars
  BY <1>15 DEF vars, TypeOK, evidence, budget, turn
<1> QED
  BY <1>1, <1>2, <1>3, <1>4, <1>5, <1>6, <1>7, <1>8, <1>9, <1>10, <1>11, <1>12,
     <1>13, <1>14, <1>15 DEF Next, Step

\* The loop's state has the expected types in every reachable state.
THEOREM TypeCorrect == Spec => []TypeOK
<1>1. Init => TypeOK
  BY InitInv DEF IInv
<1>2. TypeOK /\ [Next]_vars => TypeOK'
  BY TypeStep
<1> QED
  BY <1>1, <1>2, PTL DEF Spec

-----------------------------------------------------------------------------
(* Every tool call is answered, in the order of the request. *)

\* A segment lies within the calls of the turn.
LEMMA SegmentWithin ==
  ASSUME TypeOK, NEW n \in Nat \ {0}, Segment(n)
  PROVE  at + n - 1 <= Len(calls)
<1>1. at + n - 1 \in at .. at + n - 1
  BY DEF TypeOK
<1>2. at + n - 1 \in at .. Len(calls)
  BY <1>1 DEF Segment, Eligible
<1> QED
  BY <1>2 DEF TypeOK

\* Answering keeps the positions in order.
LEMMA AnswerInOrder ==
  ASSUME TypeOK, NEW n \in Nat \ {0}, Answer(n),
         replies = [i \in 1 .. at - 1 |-> i]
  PROVE  replies' = [i \in 1 .. at' - 1 |-> i]
<1> DEFINE r == [i \in 1 .. at - 1 |-> i]
           s == [i \in 1 .. n |-> at + i - 1]
<1>1. at \in Nat \ {0} /\ at' = at + n
  BY DEF TypeOK, Answer
<1>2. r \in Seq(Nat) /\ Len(r) = at - 1
  BY <1>1
<1>3. s \in Seq(Nat) /\ Len(s) = n
  BY <1>1
<1>4. replies' = r \o s
  BY DEF Answer
<1>5. r \o s \in Seq(Nat) /\ Len(r \o s) = at' - 1
  BY <1>1, <1>2, <1>3
<1>6. \A i \in 1 .. at' - 1 : (r \o s)[i] = i
  <2> TAKE i \in 1 .. at' - 1
  <2>1. CASE i <= at - 1
    BY <2>1, <1>1, <1>2, <1>3
  <2>2. CASE i > at - 1
    <3>1. (r \o s)[i] = s[i - (at - 1)]
      BY <2>2, <1>1, <1>2, <1>3
    <3> QED
      BY <3>1, <2>2, <1>1
  <2> QED
    BY <2>1, <2>2, <1>1
<1>7. r \o s = [i \in 1 .. at' - 1 |-> (r \o s)[i]]
  BY <1>5, <1>1
<1> HIDE DEF r, s
<1> QED
  BY <1>4, <1>6, <1>7

\* Every step of the loop keeps the answers in step with the calls.
LEMMA RepliedStep ==
  ASSUME IInv, TypeOK', [Next]_vars
  PROVE  Replied'
<1> USE DEF Looping
<1>t. /\ TypeOK /\ Replied
      /\ at \in Nat \ {0} /\ Len(calls) \in Nat
      /\ at' \in Nat \ {0} /\ Len(calls') \in Nat
  BY DEF IInv, TypeOK
<1>r. ASSUME NEW cs, NEW decisions, Reply(cs, decisions), replies' = <<>>
      PROVE  at' = 1 /\ calls' = cs /\ replies' = [i \in 1 .. at' - 1 |-> i]
  <2>1. at' = 1 /\ calls' = cs
    BY <1>r DEF Reply
  <2>2. [i \in 1 .. 1 - 1 |-> i] = <<>>
    OBVIOUS
  <2> QED
    BY <1>r, <2>1, <2>2
<1>a. ASSUME NEW n \in Nat \ {0}, Answer(n), pc = "turn", at + n - 1 <= Len(calls)
      PROVE  Replied'
  <2>1. pc' = "turn" /\ calls' = calls /\ at' = at + n
    BY <1>a DEF Answer, turn
  <2>2. replies' = [i \in 1 .. at' - 1 |-> i]
    BY <1>a, <1>t, AnswerInOrder DEF Replied
  <2> QED
    BY <1>a, <1>t, <2>1, <2>2 DEF Replied
<1>1. CASE TimePasses
  BY <1>1, <1>t DEF TimePasses, Replied, turn
<1>2. CASE TopOfLoop
  BY <1>2, <1>t DEF TopOfLoop, Replied, turn
<1>3. CASE ReplyText \/ ReplyEmpty
  <2>1. /\ Reply(<<>>, <<>>) /\ replies' = <<>>
        /\ pc' \in {"top", "finish"}
    BY <1>3 DEF ReplyText, ReplyEmpty
  <2> QED
    BY <2>1, <1>r DEF Replied
<1>5. ASSUME NEW cs \in Turns, ReplyForced(cs) \/ ReplyCalls(cs)
      PROVE  Replied'
  <2>1. \E decisions : Reply(cs, decisions)
    BY <1>5 DEF ReplyForced, ReplyCalls
  <2>2. replies' = <<>> /\ pc' \in {"finish", "turn"}
    BY <1>5 DEF ReplyForced, ReplyCalls
  <2>3. at' = 1 /\ replies' = [i \in 1 .. at' - 1 |-> i]
    BY <2>1, <2>2, <1>r
  <2> QED
    BY <2>2, <2>3, <1>t DEF Replied
<1>7. CASE DeferSubmit \/ Submit \/ RejectInvalid \/ Dispatch
  <2>1. Answer(1) /\ InTurn
    BY <1>7 DEF DeferSubmit, Submit, RejectInvalid, Dispatch
  <2> QED
    BY <2>1, <1>a, <1>t DEF InTurn
<1>11. CASE RunBatch
  <2>1. PICK n \in 2 .. Cap : Segment(n) /\ Answer(n)
    BY <1>11, BatchShape
  <2>2. n \in Nat \ {0} /\ pc = "turn"
    BY <1>11, LoopAssumption DEF RunBatch, InTurn
  <2> QED
    BY <2>1, <2>2, <1>a, <1>t, SegmentWithin
<1>12. CASE EndTurn
  BY <1>12, <1>t DEF EndTurn, Replied, turn
<1>13. CASE Finish \/ Raise
  BY <1>13 DEF Finish, Raise, Replied
<1>15. CASE UNCHANGED vars
  BY <1>15, <1>t DEF vars, Replied, turn
<1> QED
  BY <1>1, <1>2, <1>3, <1>5, <1>7, <1>11, <1>12, <1>13, <1>15 DEF Next, Step

-----------------------------------------------------------------------------
(* The budget. *)

\* Every step keeps the turns within the budget; the submission is forced at
\* most once, because a forced reply always leaves the loop.
LEMMA BudgetedStep ==
  ASSUME IInv, TypeOK', [Next]_vars
  PROVE  Budgeted'
<1> USE LoopAssumption DEF Looping
<1>t. /\ TypeOK /\ Budgeted
      /\ turns \in Nat /\ turns' \in Nat
  BY DEF IInv, TypeOK
<1>a. ASSUME pc = "turn", UNCHANGED <<pc, budget, submitted>>
      PROVE  Budgeted'
  BY <1>a, <1>t DEF Budgeted, TurnBudget, budget
<1>1. CASE TimePasses
  BY <1>1, <1>t DEF TimePasses, Budgeted, TurnBudget
<1>2. CASE TopOfLoop
  <2>1. pc = "top" /\ pc' \in {"llm", "finish"} /\ UNCHANGED <<turns, submitted>>
    BY <1>2 DEF TopOfLoop
  <2>2. ~forced /\ submitted = None /\ turns <= MaxTurns
    BY <1>t, <2>1 DEF Budgeted
  <2>3. forced' \/ turns < MaxTurns
    BY <1>2, <1>t, <2>2 DEF TopOfLoop, OverBudget
  <2>4. pc' = "llm"
    BY <1>2, <2>2 DEF TopOfLoop
  <2> QED
    BY <1>t, <2>1, <2>2, <2>3, <2>4 DEF Budgeted, TurnBudget
<1>3. CASE ReplyText \/ ReplyEmpty \/ \E cs \in Turns : ReplyForced(cs) \/ ReplyCalls(cs)
  <2>1. pc = "llm" /\ turns' = turns + 1 /\ forced' = forced
    BY <1>3 DEF ReplyText, ReplyEmpty, ReplyForced, ReplyCalls, Reply
  <2>2. turns <= MaxTurns /\ (~forced => turns < MaxTurns) /\ submitted = None
    BY <1>t, <2>1 DEF Budgeted
  <2>3. pc' \in {"top", "turn", "finish"}
    BY <1>3 DEF ReplyText, ReplyEmpty, ReplyForced, ReplyCalls
  <2>4. pc' \in {"top", "turn"} => ~forced /\ submitted' = submitted
    BY <1>3 DEF ReplyText, ReplyEmpty, ReplyForced, ReplyCalls
  <2> QED
    BY <1>t, <2>1, <2>2, <2>3, <2>4 DEF Budgeted, TurnBudget
<1>7. CASE DeferSubmit \/ Submit \/ RejectInvalid \/ Dispatch
  BY <1>7, <1>a DEF DeferSubmit, Submit, RejectInvalid, Dispatch, InTurn, Answer
<1>11. CASE RunBatch
  <2>1. \E n \in 2 .. Cap : Answer(n)
    BY <1>11, BatchShape
  <2> QED
    BY <1>11, <1>a, <2>1 DEF RunBatch, InTurn, Answer
<1>12. CASE EndTurn
  BY <1>12, <1>t DEF EndTurn, Budgeted, TurnBudget, budget
<1>13. CASE Finish
  <2>1. pc = "finish" /\ pc' = "done" /\ turns' \in {turns, turns + 1}
    BY <1>13 DEF Finish
  <2>2. turns <= MaxTurns + 1
    BY <1>t, <2>1 DEF Budgeted, TurnBudget
  <2> QED
    BY <1>t, <2>1, <2>2 DEF Budgeted, TurnBudget
<1>14. CASE Raise
  BY <1>14, <1>t DEF Raise, Budgeted, TurnBudget, budget
<1>15. CASE UNCHANGED vars
  BY <1>15, <1>t DEF vars, Budgeted, TurnBudget, budget
<1> QED
  BY <1>1, <1>2, <1>3, <1>7, <1>11, <1>12, <1>13, <1>14, <1>15 DEF Next, Step

-----------------------------------------------------------------------------
(* The gate: a draft without a read is refused in one turn only. *)

\* A step that leaves the gate, the refusals and the submissions alone, and
\* does not enter the head of the loop, keeps the invariant.
LEMMA GateUntouched ==
  ASSUME Gated, TypeOK, pc = "turn", pc' = "turn",
         UNCHANGED <<gate, refusedIn, draft, submitted, turns, forced>>,
         read => read'
  PROVE  Gated'
  BY DEF Gated, ReadOrSeenRefusal

\* A refusal is recorded in the gate.
LEMMA GateRefuses ==
  ASSUME TypeOK, Refuse
  PROVE  gate'.pending /\ (gate'.bounced <=> gate.bounced) /\ refusedIn' = turns'
<1>1. gate \in [pending : BOOLEAN, bounced : BOOLEAN]
  BY DEF TypeOK
<1> QED
  BY <1>1 DEF Refuse

\* Every step keeps the account of refused submissions.
LEMMA GatedStep ==
  ASSUME IInv, TypeOK', [Next]_vars
  PROVE  Gated'
<1>t. /\ TypeOK /\ Gated
      /\ turns \in Nat /\ turns' \in Nat /\ refusedIn \in Nat
      /\ pc \in Looping => submitted = None
      /\ pc \in {"top", "turn"} => ~forced
  BY DEF IInv, TypeOK, Budgeted
<1>1. CASE TimePasses
  BY <1>1, <1>t DEF TimePasses, Gated, ReadOrSeenRefusal, evidence
<1>2. CASE TopOfLoop
  <2>1. /\ pc = "top" /\ pc' \in {"llm", "finish"}
        /\ UNCHANGED <<turns, refusedIn, draft, submitted, read>>
    BY <1>2 DEF TopOfLoop, evidence
  <2>2. ~gate'.pending /\ (gate'.bounced <=> gate.bounced \/ gate.pending)
    BY <1>2 DEF TopOfLoop
  <2>3. draft' = None /\ submitted' = None
    BY <1>t, <2>1 DEF Gated, Looping
  <2> QED
    BY <1>t, <2>1, <2>2, <2>3 DEF Gated, ReadOrSeenRefusal
<1>3. CASE ReplyText
  <2>1. /\ pc = "llm" /\ turns' = turns + 1 /\ draft' = None
        /\ forced' = forced /\ read' = read
    BY <1>3 DEF ReplyText, Reply, evidence
  <2>2. ~gate.pending /\ submitted = None
    BY <1>t, <2>1 DEF Gated, Looping
  <2>3. CASE ~forced /\ Blocked
    <3>1. Refuse /\ pc' = "top" /\ submitted' = None
      BY <1>3, <2>2, <2>3 DEF ReplyText
    <3>2. ~gate.bounced
      BY <2>3 DEF Blocked
    <3> QED
      BY <1>t, <2>1, <3>1, <3>2, GateRefuses DEF Gated, ReadOrSeenRefusal
  <2>4. CASE ~(~forced /\ Blocked)
    <3>1. pc' = "finish" /\ UNCHANGED <<gate, refusedIn>>
      BY <1>3, <2>4 DEF ReplyText
    <3>2. forced \/ read \/ gate.bounced
      BY <2>4 DEF Blocked
    <3> QED
      BY <1>t, <2>1, <2>2, <3>1, <3>2 DEF Gated, ReadOrSeenRefusal
  <2> QED
    BY <2>3, <2>4
<1>4. CASE ReplyEmpty \/ \E cs \in Turns : ReplyForced(cs) \/ ReplyCalls(cs)
  <2>1. /\ pc = "llm" /\ turns' = turns + 1 /\ draft' = None
        /\ forced' = forced /\ read' = read /\ UNCHANGED <<gate, refusedIn>>
    BY <1>4 DEF ReplyEmpty, ReplyForced, ReplyCalls, Reply, evidence
  <2>2. ~gate.pending /\ submitted = None
    BY <1>t, <2>1 DEF Gated, Looping
  <2>3. forced \/ submitted' = submitted
    BY <1>4 DEF ReplyEmpty, ReplyForced, ReplyCalls
  <2> QED
    BY <1>t, <2>1, <2>2, <2>3 DEF Gated, ReadOrSeenRefusal
<1>7. CASE DeferSubmit \/ RejectInvalid
  <2>1. /\ pc = "turn" /\ pc' = "turn"
        /\ UNCHANGED <<gate, refusedIn, draft, submitted, turns, forced, read>>
    BY <1>7 DEF DeferSubmit, RejectInvalid, InTurn, Answer, evidence, budget
  <2> QED
    BY <1>t, <2>1, GateUntouched
<1>8. CASE Submit
  <2>1. /\ pc = "turn" /\ pc' = "turn"
        /\ UNCHANGED <<submitted, turns, forced, read>>
    BY <1>8 DEF Submit, InTurn, Answer, evidence, budget
  <2>2. submitted = None
    BY <1>t, <2>1 DEF Looping
  <2>3. CASE Blocked
    <3>1. Refuse /\ draft' = draft /\ ~read /\ ~gate.bounced
      BY <1>8, <2>3 DEF Submit, Blocked
    <3>2. gate'.pending /\ ~gate'.bounced /\ refusedIn' = turns
      BY <1>t, <2>1, <3>1, GateRefuses
    <3>3. draft = None
      <4>1. draft # None => refusedIn \in 1 .. turns - 1
        BY <1>t, <3>1 DEF Gated, ReadOrSeenRefusal
      <4> QED
        BY <1>t, <2>1, <3>1, <4>1 DEF Gated
    <3>4. turns >= 1
      BY <1>t, <2>1 DEF Gated
    <3> QED
      BY <1>t, <2>1, <2>2, <3>1, <3>2, <3>3, <3>4 DEF Gated, ReadOrSeenRefusal
  <2>4. CASE ~Blocked
    <3>1. UNCHANGED <<gate, refusedIn>> /\ (read \/ gate.bounced)
      BY <1>8, <2>4 DEF Submit, Blocked
    <3> QED
      BY <1>t, <2>1, <2>2, <3>1 DEF Gated, ReadOrSeenRefusal
  <2> QED
    BY <2>3, <2>4
<1>10. CASE Dispatch \/ RunBatch
  <2>1. \E n, records : Answer(n) /\ Absorb(records)
    BY <1>10, BatchShape DEF Dispatch
  <2>2. /\ pc = "turn" /\ UNCHANGED <<gate, refusedIn, draft>>
    BY <1>10 DEF Dispatch, RunBatch, InTurn
  <2>3. pc' = pc /\ UNCHANGED <<submitted, turns, forced>> /\ (read => read')
    BY <2>1 DEF Answer, Absorb, budget
  <2> QED
    BY <1>t, <2>2, <2>3, GateUntouched
<1>12. CASE EndTurn
  <2>1. /\ pc = "turn" /\ pc' \in {"top", "finish"}
        /\ UNCHANGED <<gate, refusedIn, draft, turns, forced, read>>
        /\ draft # None => pc' = "finish"
        /\ submitted' # submitted => draft # None
    BY <1>12 DEF EndTurn, evidence, budget
  <2>2. submitted = None
    BY <1>t, <2>1 DEF Looping
  <2>3. ReadOrSeenRefusal'
    BY <1>t, <2>1, <2>2 DEF Gated, ReadOrSeenRefusal
  <2> QED
    BY <1>t, <2>1, <2>3 DEF Gated
<1>13. CASE Finish
  <2>1. /\ pc' = "done" /\ turns' \in {turns, turns + 1}
        /\ UNCHANGED <<gate, refusedIn, draft, submitted, forced, read>>
    BY <1>13 DEF Finish, evidence
  <2>2. /\ 1 .. turns \subseteq 1 .. turns'
        /\ 1 .. turns - 1 \subseteq 1 .. turns' - 1
    <3>1. turns' = turns \/ turns' = turns + 1
      BY <2>1
    <3>2. CASE turns' = turns
      BY <3>2
    <3>3. CASE turns' = turns + 1
      BY <1>t, <3>3
    <3> QED
      BY <3>1, <3>2, <3>3
  <2>3. ReadOrSeenRefusal
    BY <1>t DEF Gated
  <2>4. ReadOrSeenRefusal'
    <3>1. read' = read /\ refusedIn' = refusedIn
      BY <2>1
    <3> QED
      BY <2>1, <2>2, <2>3, <3>1 DEF ReadOrSeenRefusal
  <2>5. gate'.bounced => refusedIn' \in 1 .. turns'
    BY <1>t, <2>1, <2>2 DEF Gated
  <2> QED
    BY <1>t, <2>1, <2>4, <2>5 DEF Gated
<1>14. CASE Raise
  BY <1>14, <1>t DEF Raise, Gated, ReadOrSeenRefusal, evidence, budget
<1>15. CASE UNCHANGED vars
  BY <1>15, <1>t DEF vars, Gated, ReadOrSeenRefusal, evidence, budget
<1> QED
  BY <1>1, <1>2, <1>3, <1>4, <1>7, <1>8, <1>10, <1>12, <1>13, <1>14, <1>15
     DEF Next, Step

-----------------------------------------------------------------------------
(* The status. *)

\* Every step keeps the status in agreement with the way the loop is left.
LEMMA ConcludedStep ==
  ASSUME IInv, TypeOK', [Next]_vars
  PROVE  Concluded'
<1> USE DEF Looping
<1> DEFINE Late == {"max_agent_turns", "max_elapsed_ms"}
<1>t. /\ TypeOK /\ Concluded
      /\ session \in [status : Statuses, reason : Reasons, saved : Statuses,
                      answer : Answers]
      /\ pc \in {"top", "turn"} => ~forced
      /\ pc \in Looping => submitted = None
  BY DEF IInv, TypeOK, Budgeted
<1>c. ASSUME session' = [session EXCEPT !.status = "complete", !.reason = "completed"]
      PROVE  session'.status = "complete" /\ session'.reason = "completed"
  BY <1>c, <1>t
<1>a. ASSUME pc = "turn", UNCHANGED <<pc, budget, submitted, session>>
      PROVE  Concluded'
  BY <1>a, <1>t DEF Concluded, StatusTellsHow, budget
<1>1. CASE TimePasses
  BY <1>1, <1>t DEF TimePasses, Concluded, StatusTellsHow
<1>2. CASE TopOfLoop
  <2>1. pc = "top" /\ ~forced /\ submitted' = submitted
    BY <1>2, <1>t DEF TopOfLoop
  <2>2. pc' = "llm"
    BY <1>2, <2>1 DEF TopOfLoop
  <2>3. CASE OverBudget /\ submitted = None
    <3>1. forced' /\ session' = [session EXCEPT !.status = "budget_exhausted",
                                                !.reason = BudgetReason]
      BY <1>2, <2>3 DEF TopOfLoop
    <3>2. BudgetReason \in Late
      BY DEF BudgetReason
    <3>3. session'.status = "budget_exhausted" /\ session'.reason \in Late
      BY <1>t, <3>1, <3>2
    <3> QED
      BY <2>2, <3>1, <3>3 DEF Concluded, StatusTellsHow
  <2>4. CASE ~(OverBudget /\ submitted = None)
    <3>1. UNCHANGED <<forced, session>>
      BY <1>2, <2>4 DEF TopOfLoop
    <3> QED
      BY <1>t, <2>1, <2>2, <3>1 DEF Concluded, StatusTellsHow
  <2> QED
    BY <2>3, <2>4
<1>3. CASE ReplyText
  <2>1. pc = "llm" /\ forced' = forced
    BY <1>3 DEF ReplyText, Reply
  <2>2. \/ pc' = "top" /\ session' = session
        \/ pc' = "finish" /\ submitted' = "text" /\ forced /\ session' = session
        \/ /\ pc' = "finish" /\ submitted' = "text" /\ ~forced
           /\ session' = [session EXCEPT !.status = "complete", !.reason = "completed"]
    BY <1>3 DEF ReplyText
  <2>3. "text" # None
    BY DEF None
  <2> QED
    BY <1>t, <1>c, <2>1, <2>2, <2>3 DEF Concluded, StatusTellsHow
<1>4. CASE ReplyEmpty \/ \E cs \in Turns : ReplyForced(cs) \/ ReplyCalls(cs)
  <2>1. pc = "llm" /\ forced' = forced /\ session' = session
    BY <1>4 DEF ReplyEmpty, ReplyForced, ReplyCalls, Reply
  <2>2. pc' \in {"top", "turn", "finish"} /\ (pc' = "finish" => forced)
    BY <1>4 DEF ReplyEmpty, ReplyForced, ReplyCalls
  <2> QED
    BY <1>t, <2>1, <2>2 DEF Concluded, StatusTellsHow
<1>7. CASE DeferSubmit \/ Submit \/ RejectInvalid \/ Dispatch
  BY <1>7, <1>a DEF DeferSubmit, Submit, RejectInvalid, Dispatch, InTurn, Answer
<1>11. CASE RunBatch
  <2>1. \E n \in 2 .. Cap : Answer(n)
    BY <1>11, BatchShape
  <2> QED
    BY <1>11, <1>a, <2>1 DEF RunBatch, InTurn, Answer
<1>12. CASE EndTurn
  <2>1. pc = "turn" /\ forced' = forced /\ ~forced
    BY <1>12, <1>t DEF EndTurn, budget
  <2>2. \/ pc' = "top" /\ session' = session
        \/ /\ pc' = "finish" /\ submitted' # None
           /\ session' = [session EXCEPT !.status = "complete", !.reason = "completed"]
    BY <1>12 DEF EndTurn
  <2> QED
    BY <1>t, <1>c, <2>1, <2>2 DEF Concluded, StatusTellsHow
<1>13. CASE Finish
  <2>1. /\ pc = "finish" /\ pc' = "done" /\ UNCHANGED <<forced, submitted>>
    BY <1>13 DEF Finish
  <2>2. PICK answer \in Answers : Conclude(answer)
    <3>1. (IF submitted = None THEN "empty" ELSE submitted) \in Answers
      BY <1>t DEF TypeOK, Answers
    <3> QED
      BY <1>13, <3>1 DEF Finish
  <2>3. /\ session.status = IF forced THEN "budget_exhausted" ELSE "complete"
        /\ session.reason \in Late <=> forced
        /\ ~forced => submitted # None
    BY <1>t, <2>1 DEF Concluded
  <2>4. CASE answer = "empty" /\ session.status = "complete"
    <3>1. session' = [status |-> "insufficient_evidence", reason |-> "no_answer",
                      saved |-> "insufficient_evidence", answer |-> answer]
      BY <2>2, <2>4 DEF Conclude
    <3> QED
      BY <2>1, <2>3, <2>4, <3>1 DEF Concluded, StatusTellsHow
  <2>5. CASE ~(answer = "empty" /\ session.status = "complete")
    <3>1. session' = [status |-> session.status, reason |-> session.reason,
                      saved |-> session.status, answer |-> answer]
      BY <2>2, <2>5 DEF Conclude
    <3> QED
      BY <2>1, <2>2, <2>3, <2>5, <3>1 DEF Concluded, StatusTellsHow, Answers
  <2> QED
    BY <2>4, <2>5
<1>14. CASE Raise
  BY <1>14 DEF Raise, Concluded, StatusTellsHow
<1>15. CASE UNCHANGED vars
  BY <1>15, <1>t DEF vars, Concluded, StatusTellsHow, budget
<1> QED
  BY <1>1, <1>2, <1>3, <1>4, <1>7, <1>11, <1>12, <1>13, <1>14, <1>15 DEF Next, Step

-----------------------------------------------------------------------------
(* The plan of a turn. *)

\* Every step keeps the plan of the turn that of its first ledger.
LEMMA PlannedStep ==
  ASSUME IInv, TypeOK', [Next]_vars
  PROVE  Planned'
<1>t. /\ TypeOK /\ Planned
      /\ draft # None => pc \notin {"top", "llm"}
  BY DEF IInv, Gated
<1>a. ASSUME UNCHANGED <<pc, turn, draft>>
      PROVE  Planned'
  BY <1>a, <1>t DEF Planned, NoStaleDraft, turn
<1>r. ASSUME NEW cs, NEW decisions, Reply(cs, decisions), pc' # "turn"
      PROVE  Planned'
  BY <1>r DEF Planned, NoStaleDraft, Reply
<1>1. CASE TimePasses \/ DeferSubmit \/ RejectInvalid \/ Dispatch
  BY <1>1, <1>a DEF TimePasses, DeferSubmit, RejectInvalid, Dispatch, Answer
<1>2. CASE TopOfLoop
  <2>1. pc' # "turn" /\ UNCHANGED <<calls, draft>>
    BY <1>2 DEF TopOfLoop, turn
  <2> QED
    BY <1>t, <2>1 DEF Planned, NoStaleDraft
<1>3. CASE ReplyText \/ ReplyEmpty
  <2>1. Reply(<<>>, <<>>) /\ pc' # "turn"
    BY <1>3 DEF ReplyText, ReplyEmpty
  <2> QED
    BY <1>r, <2>1
<1>5. ASSUME NEW cs \in Turns, ReplyForced(cs)
      PROVE  Planned'
  BY <1>5, <1>r DEF ReplyForced
<1>6. ASSUME NEW cs \in Turns, ReplyCalls(cs)
      PROVE  Planned'
  <2>1. /\ calls' = cs /\ before' = ledger /\ draft' = None
        /\ plan' = IF Parallel THEN [i \in DOMAIN cs |-> Decide(cs[i], ledger)]
                   ELSE [i \in DOMAIN cs |-> "sequential"]
    BY <1>6 DEF ReplyCalls, Reply
  <2>2. cs \in Seq(ToolCall) /\ DOMAIN cs = 1 .. Len(cs) /\ Len(cs) \in Nat
    BY TurnsAreSequences
  <2>3. Len(plan') = Len(calls')
    <3>1. DOMAIN plan' = 1 .. Len(cs)
      BY <2>1, <2>2
    <3>2. plan' \in Seq(Decisions)
      BY DEF TypeOK
    <3> QED
      BY <2>1, <2>2, <3>1, <3>2
  <2>4. Parallel => \A i \in 1 .. Len(calls') : plan'[i] = Decide(calls'[i], before')
    BY <2>1, <2>2
  <2> QED
    BY <2>1, <2>3, <2>4 DEF Planned, NoStaleDraft, Decide
<1>8. CASE Submit
  <2>1. UNCHANGED <<pc, turn>>
    BY <1>8 DEF Submit, Answer
  <2>2. draft' # draft => ~MustDefer
    BY <1>8 DEF Submit
  <2> QED
    BY <1>t, <2>1, <2>2 DEF Planned, NoStaleDraft, MustDefer, turn
<1>11. CASE RunBatch
  <2>1. \E n \in 2 .. Cap : Answer(n)
    BY <1>11, BatchShape
  <2> QED
    BY <1>11, <1>a, <2>1 DEF RunBatch, Answer
<1>12. CASE EndTurn \/ Finish \/ Raise
  <2>1. pc' # "turn" /\ UNCHANGED <<turn, draft>>
    BY <1>12 DEF EndTurn, Finish, Raise
  <2> QED
    BY <1>t, <2>1 DEF Planned, NoStaleDraft, turn
<1>15. CASE UNCHANGED vars
  BY <1>15, <1>a DEF vars
<1> QED
  BY <1>1, <1>2, <1>3, <1>5, <1>6, <1>8, <1>11, <1>12, <1>15 DEF Next, Step

-----------------------------------------------------------------------------
(* The invariant holds, and with it the properties. *)

\* The inductive invariant holds in every state of the loop.
THEOREM Invariance == Spec => []IInv
<1>1. Init => IInv
  BY InitInv
<1>2. IInv /\ [Next]_vars => IInv'
  <2> SUFFICES ASSUME IInv, [Next]_vars PROVE IInv'
    OBVIOUS
  <2>1. TypeOK'
    BY TypeStep DEF IInv
  <2> QED
    BY <2>1, RepliedStep, GatedStep, BudgetedStep, ConcludedStep, PlannedStep
       DEF IInv
<1> QED
  BY <1>1, <1>2, PTL DEF Spec

\* The chat protocol is kept in both modes and for every cap: when the model
\* is called, its tool calls are all answered, once and in order.
THEOREM EveryCallAnswered == Spec => []AnsweredInOrder
<1>1. IInv => AnsweredInOrder
  <2> SUFFICES ASSUME IInv, pc \in {"top", "llm"}
               PROVE  replies = [i \in 1 .. Len(calls) |-> i]
    BY DEF AnsweredInOrder
  <2>1. at = Len(calls) + 1 /\ replies = [i \in 1 .. at - 1 |-> i]
    BY DEF IInv, Replied, Looping
  <2>2. Len(calls) \in Nat
    BY DEF IInv, TypeOK
  <2>3. at - 1 = Len(calls)
    BY <2>1, <2>2
  <2> QED
    BY <2>1, <2>3
<1> QED
  BY <1>1, Invariance, PTL

\* No answer is accepted unread and unasked.
THEOREM UnreadAnswerWasRefused == Spec => []ReadOrSeenRefusal
<1>1. IInv => ReadOrSeenRefusal
  BY DEF IInv, Gated
<1> QED
  BY <1>1, Invariance, PTL

\* The budget of turns bounds the calls of the model.
THEOREM TurnsWithinBudget == Spec => []TurnBudget
<1>1. IInv => TurnBudget
  BY DEF IInv, Budgeted
<1> QED
  BY <1>1, Invariance, PTL

\* The status of a finished ask says how it ended.
THEOREM StatusIsTruthful == Spec => []StatusTellsHow
<1>1. IInv => StatusTellsHow
  BY DEF IInv, Concluded
<1> QED
  BY <1>1, Invariance, PTL

\* A draft written beside reads never becomes the answer in mode "on".
THEOREM StaleDraftsDeferred == Spec => []NoStaleDraft
<1>1. IInv => NoStaleDraft
  BY DEF IInv, Planned
<1> QED
  BY <1>1, Invariance, PTL

-----------------------------------------------------------------------------
(* Properties of steps. *)

\* Only the calls of a turn add evidence, and no turn is run once forced.
LEMMA EvidenceStep ==
  ASSUME [Next]_vars, evidence' # evidence
  PROVE  pc = "turn" /\ (Dispatch \/ RunBatch)
<1> USE DEF evidence
<1>1. CASE TimePasses \/ TopOfLoop \/ EndTurn \/ Finish \/ Raise
  BY <1>1 DEF TimePasses, TopOfLoop, EndTurn, Finish, Raise
<1>2. CASE ReplyText \/ ReplyEmpty \/ \E cs \in Turns : ReplyForced(cs) \/ ReplyCalls(cs)
  BY <1>2 DEF ReplyText, ReplyEmpty, ReplyForced, ReplyCalls, Reply
<1>3. CASE DeferSubmit \/ Submit \/ RejectInvalid
  BY <1>3 DEF DeferSubmit, Submit, RejectInvalid
<1>4. CASE Dispatch \/ RunBatch
  BY <1>4 DEF Dispatch, RunBatch, InTurn
<1>5. CASE UNCHANGED vars
  BY <1>5 DEF vars
<1> QED
  BY <1>1, <1>2, <1>3, <1>4, <1>5 DEF Next, Step

\* A forced ask runs no tool: no further retrieval wave repairs it.
THEOREM ForcedAsksOnlyConclude == Spec => ForcedReadsNothing
<1>1. IInv /\ [Next]_vars => [forced => UNCHANGED evidence]_vars
  <2> SUFFICES ASSUME IInv, [Next]_vars, forced, evidence' # evidence PROVE FALSE
    OBVIOUS
  <2>1. pc = "turn"
    BY EvidenceStep
  <2> QED
    BY <2>1 DEF IInv, Budgeted
<1> QED
  BY <1>1, Invariance, PTL DEF Spec, ForcedReadsNothing

\* The model is refused in one turn at most.
THEOREM RefusedInOneTurn == Spec => RefusedOnce
<1>1. IInv /\ [Next]_vars => [refusedIn' # refusedIn => refusedIn \in {0, turns'}]_vars
  <2> SUFFICES ASSUME IInv, [Next]_vars, refusedIn' # refusedIn
               PROVE  refusedIn \in {0, turns'}
    OBVIOUS
  <2>1. CASE ReplyText
    <3>1. pc = "llm" /\ ~gate.bounced
      BY <2>1 DEF ReplyText, Reply, Blocked
    <3> QED
      BY <3>1 DEF IInv, Gated
  <2>2. CASE Submit
    <3>1. pc = "turn" /\ ~gate.bounced /\ turns' = turns
      BY <2>2 DEF Submit, InTurn, Blocked, Answer, budget
    <3> QED
      BY <3>1 DEF IInv, Gated
  <2>3. CASE UNCHANGED vars
    BY <2>3 DEF vars
  <2>4. CASE \/ TimePasses \/ TopOfLoop \/ ReplyEmpty
             \/ \E cs \in Turns : ReplyForced(cs) \/ ReplyCalls(cs)
             \/ DeferSubmit \/ RejectInvalid \/ Dispatch \/ RunBatch
             \/ EndTurn \/ Finish \/ Raise
    BY <2>4 DEF TimePasses, TopOfLoop, ReplyEmpty, ReplyForced, ReplyCalls,
                DeferSubmit, RejectInvalid, Dispatch, RunBatch, EndTurn, Finish,
                Raise
  <2> QED
    BY <2>1, <2>2, <2>3, <2>4 DEF Next, Step
<1> QED
  BY <1>1, Invariance, PTL DEF Spec, RefusedOnce

\* The plan decides with the ledger of earlier turns, so an approved read runs
\* only with references that were there when the reply arrived.
THEOREM ReferencesFromEarlierTurns == Spec => SiblingsBindNothing
<1> DEFINE Bound == \A i \in at .. at' - 1 :
                      calls[i].tool \in Approved => calls[i].arg \in before \cup {NoRef}
<1>1. IInv /\ [Next]_vars =>
        [pc = "turn" /\ Parallel /\ evidence' # evidence => Bound]_vars
  <2> SUFFICES ASSUME IInv, [Next]_vars, pc = "turn", Parallel, evidence' # evidence
               PROVE  Bound
    OBVIOUS
  <2>1. \A i \in 1 .. Len(calls) : plan[i] = Decide(calls[i], before)
    BY DEF IInv, Planned
  <2>2. at \in Nat \ {0} /\ Len(calls) \in Nat /\ TypeOK
    BY DEF IInv, TypeOK
  <2>3. ASSUME NEW i \in 1 .. Len(calls), plan[i] # "invalid", 
               calls[i].tool \in Approved
        PROVE  calls[i].arg \in before \cup {NoRef}
    BY <2>1, <2>3 DEF Decide
  <2>4. CASE Dispatch
    <3>1. at' = at + 1 /\ at <= Len(calls)
      BY <2>4 DEF Dispatch, Answer, InTurn
    <3>2. plan[at] = "sequential" \/ at \in Eligible
      <4>1. CASE Segment(1)
        BY <4>1, <2>2 DEF Segment
      <4> QED
        BY <2>4, <4>1 DEF Dispatch, Decision
    <3>3. plan[at] # "invalid"
      BY <3>2 DEF Eligible, Decision
    <3> QED
      BY <2>2, <2>3, <3>1, <3>3
  <2>5. CASE RunBatch
    <3>1. PICK n \in 2 .. Cap : Segment(n) /\ Answer(n)
      BY <2>5, BatchShape
    <3>2. n \in Nat \ {0} /\ at' = at + n
      BY <3>1, LoopAssumption DEF Answer
    <3>3. at .. at' - 1 \subseteq Eligible
      BY <2>2, <3>1, <3>2 DEF Segment
    <3>4. \A i \in Eligible : i \in 1 .. Len(calls) /\ plan[i] = "parallel"
      BY <2>2 DEF Eligible, Decision
    <3> QED
      BY <2>3, <3>3, <3>4
  <2> QED
    BY <2>4, <2>5, EvidenceStep
<1> HIDE DEF Bound
<1>2. SiblingsBindNothing <=>
        [][pc = "turn" /\ Parallel /\ evidence' # evidence => Bound]_vars
  BY DEF SiblingsBindNothing, Bound
<1> QED
  BY <1>1, <1>2, Invariance, PTL DEF Spec
=============================================================================
