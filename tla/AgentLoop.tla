------------------------------ MODULE AgentLoop ------------------------------
(***************************************************************************)
(* One ask of the agent (app/retrieval/agent_loop.py, tool_policy.py and   *)
(* the planning half of tool_scheduler.py): the model is called in turns,  *)
(* its tool calls are executed and answered, until it submits an answer or *)
(* its budget of turns and time forces it to.                              *)
(*                                                                         *)
(* The model may reply anything; a tool may find anything, find nothing or *)
(* fail.  A reference stands for a node id or a namespace; an argument is  *)
(* the reference a read names, or the answer a submission carries.         *)
(***************************************************************************)
EXTENDS Integers, Sequences, FiniteSets

CONSTANTS
  Ref,         \* node ids and namespaces a tool can return
  NoRef,       \* a call that names none
  Approved,    \* tools whose registered handler has an approved policy
  Parallel,    \* BOOLEAN: mode = "on"; FALSE stands for "off" and "shadow"
  Cap,         \* parallel_tools_cap
  MaxTurns,    \* max_agent_turns
  MaxCalls,    \* bound: tool calls in one reply (the code has none)
  Synthesis    \* BOOLEAN: another model writes the final answer

Reads   == {"search", "retrieve"}
Answers == {"empty", "text"}

ASSUME LoopAssumption ==
  /\ NoRef \notin Ref /\ Ref \cap Answers = {} /\ NoRef \notin Answers
  /\ Approved \subseteq Reads
  /\ Parallel \in BOOLEAN /\ Synthesis \in BOOLEAN
  /\ Cap \in Nat \ {0} /\ MaxTurns \in Nat /\ MaxCalls \in Nat

\* "search" is search_information, "retrieve" stands for retrieve_evidence and
\* query_documents, "find" for the reads that have no policy (find, count) and
\* "other" for every tool that reads no document, known or not.
ToolCall == [tool : {"submit"}, arg : Answers]
            \cup [tool : Reads, arg : Ref \cup {NoRef}]
            \cup [tool : {"find", "other"}, arg : {NoRef}]

Turns == UNION {[1 .. n -> ToolCall] : n \in 1 .. MaxCalls}

\* What a tool result holds for the loop; an error holds nothing.
Found   == [refs : SUBSET Ref, docs : BOOLEAN]
Nothing == [refs |-> {}, docs |-> FALSE]

Decisions == {"parallel", "sequential", "invalid"}
None == "none"

VARIABLES
  pc,
  turns,       \* session.agent_turns
  late,        \* elapsed_ms >= max_elapsed_ms
  forced,      \* the FORCE_SUBMIT message was sent
  read,        \* reads[0] > 0
  gate,        \* pending and bounced
  ledger,      \* references a finished tool returned
  gathered,    \* some document was gathered
  calls,       \* tool calls of the last reply
  plan,        \* plan_calls: a decision for each
  at,          \* the next call to execute
  replies,     \* positions of the calls answered, in message order
  draft,       \* turn_submit
  submitted,
  session,     \* status and stop_reason, and the status last persisted
  refusedIn,   \* history: the turn a submission was last refused in, or 0
  before       \* history: the ledger when the last reply arrived

budget   == <<turns, late, forced>>
evidence == <<read, ledger, gathered>>
turn     == <<calls, plan, before>>
vars     == <<pc, budget, evidence, gate, turn, at, replies, draft, submitted,
              session, refusedIn>>

Statuses == {"running", "complete", "insufficient_evidence", "budget_exhausted"}
Reasons  == {"completed", "max_agent_turns", "max_elapsed_ms", "no_answer"}

TypeOK ==
  /\ pc \in {"top", "llm", "turn", "finish", "done", "raised"}
  /\ turns \in Nat /\ late \in BOOLEAN /\ forced \in BOOLEAN
  /\ read \in BOOLEAN /\ gathered \in BOOLEAN
  /\ gate \in [pending : BOOLEAN, bounced : BOOLEAN]
  /\ ledger \in SUBSET Ref /\ before \in SUBSET Ref
  /\ calls \in Seq(ToolCall) /\ plan \in Seq(Decisions)
  /\ at \in Nat \ {0}
  /\ replies \in Seq(Nat)
  /\ draft \in Answers \cup {None} /\ submitted \in Answers \cup {None}
  /\ session \in [status : Statuses, reason : Reasons, saved : Statuses,
                  answer : Answers]
  /\ refusedIn \in Nat

Init ==
  /\ pc = "top"
  /\ turns = 0 /\ late = FALSE /\ forced = FALSE
  /\ read = FALSE /\ gathered = FALSE
  /\ gate = [pending |-> FALSE, bounced |-> FALSE]
  /\ ledger = {} /\ before = {}
  /\ calls = <<>> /\ plan = <<>> /\ at = 1 /\ replies = <<>>
  /\ draft = None /\ submitted = None
  /\ session = [status |-> "complete", reason |-> "completed",
                saved |-> "running", answer |-> "empty"]
  /\ refusedIn = 0

TimePasses ==
  /\ pc \notin {"done", "raised"}
  /\ ~late
  /\ late' = TRUE
  /\ UNCHANGED <<pc, turns, forced, evidence, gate, turn, at, replies, draft,
                 submitted, session, refusedIn>>

-----------------------------------------------------------------------------
(* The head of the loop and the call of the model. *)

\* Mutant of OverBudget: one turn too many.
OverBudgetLater == turns > MaxTurns \/ late

OverBudget == turns >= MaxTurns \/ late

\* Mutant of BudgetReason: the status is given for a reason.
BudgetReasonIsStatus == "budget_exhausted"

BudgetReason == IF turns >= MaxTurns THEN "max_agent_turns" ELSE "max_elapsed_ms"

\* A submission refused in the last turn has been seen by the model: the gate
\* is bounced.  Out of budget, the model is asked for its answer.
TopOfLoop ==
  /\ pc = "top"
  /\ gate' = [pending |-> FALSE, bounced |-> gate.bounced \/ gate.pending]
  /\ IF OverBudget /\ submitted = None
     THEN /\ forced' = TRUE
          /\ session' = [session EXCEPT !.status = "budget_exhausted",
                                        !.reason = BudgetReason]
          /\ pc' = IF forced THEN "finish" ELSE "llm"
     ELSE /\ pc' = "llm"
          /\ UNCHANGED <<forced, session>>
  /\ UNCHANGED <<turns, late, evidence, turn, at, replies, draft, submitted,
                 refusedIn>>

\* _submit_block: no document has been read and the model was not told so
\* in an earlier turn.
Blocked == ~read /\ ~gate.bounced

Refuse ==
  /\ gate' = [gate EXCEPT !.pending = TRUE]
  /\ refusedIn' = turns'

\* The reply arrives; calls, plan and replies are those of the new turn.
Reply(cs, decisions) ==
  /\ pc = "llm"
  /\ turns' = turns + 1
  /\ calls' = cs
  /\ plan' = decisions
  /\ before' = ledger
  /\ at' = 1
  /\ draft' = None
  /\ UNCHANGED <<late, forced, evidence>>

\* Text without a tool call is an answer, gated like a submission.
ReplyText ==
  /\ Reply(<<>>, <<>>)
  /\ replies' = <<>>
  /\ IF ~forced /\ Blocked
     THEN /\ Refuse
          /\ pc' = "top"
          /\ UNCHANGED <<submitted, session>>
     ELSE /\ submitted' = "text"
          /\ session' = IF forced THEN session
                        ELSE [session EXCEPT !.status = "complete",
                                             !.reason = "completed"]
          /\ pc' = "finish"
          /\ UNCHANGED <<gate, refusedIn>>

\* Mutant of ReplyEmpty: a nudge does not count as a turn.
ReplyEmptyUncounted ==
  /\ pc = "llm"
  /\ pc' = IF forced THEN "finish" ELSE "top"
  /\ calls' = <<>> /\ plan' = <<>> /\ replies' = <<>>
  /\ before' = ledger /\ at' = 1 /\ draft' = None
  /\ UNCHANGED <<turns, late, forced, evidence, gate, submitted, session,
                 refusedIn>>

\* An empty reply is answered with a nudge.
ReplyEmpty ==
  /\ Reply(<<>>, <<>>)
  /\ replies' = <<>>
  /\ pc' = IF forced THEN "finish" ELSE "top"
  /\ UNCHANGED <<gate, submitted, session, refusedIn>>

\* The draft a forced reply carries: the argument of its first submission.
Carries(cs, arg) ==
  \E i \in DOMAIN cs :
    /\ cs[i].tool = "submit" /\ cs[i].arg = arg
    /\ \A j \in 1 .. i - 1 : cs[j].tool # "submit"

NoSubmission(cs) == \A i \in DOMAIN cs : cs[i].tool # "submit"

\* Mutant of ReplyForced: the forced submission counts as the model's own.
ReplyForcedComplete(cs) ==
  /\ forced
  /\ Reply(cs, <<>>)
  /\ replies' = <<>>
  /\ session' = [session EXCEPT !.status = "complete", !.reason = "completed"]
  /\ \/ NoSubmission(cs) /\ UNCHANGED submitted
     \/ \E arg \in Answers : Carries(cs, arg) /\ submitted' = arg
  /\ pc' = "finish"
  /\ UNCHANGED <<gate, refusedIn>>

\* Forced: the first submission is taken and the other calls of its reply get
\* an error.  No model call follows, so these answers are not kept here.
ReplyForced(cs) ==
  /\ forced
  /\ Reply(cs, <<>>)
  /\ replies' = <<>>
  /\ \/ NoSubmission(cs) /\ UNCHANGED submitted
     \/ \E arg \in Answers : Carries(cs, arg) /\ submitted' = arg
  /\ pc' = "finish"
  /\ UNCHANGED <<gate, session, refusedIn>>

\* _decide: only an approved handler may run beside others, and only with
\* references an earlier tool returned.
Decide(c, known) ==
  IF c.tool \notin Approved THEN "sequential"
  ELSE IF c.arg \in known \/ (c.tool = "search" /\ c.arg = NoRef) THEN "parallel"
  ELSE "invalid"

\* Mutant of ReplyCalls: tools are still run when the submission is forced.
ReplyCallsAlways(cs) ==
  /\ Reply(cs, [i \in DOMAIN cs |-> Decide(cs[i], ledger)])
  /\ replies' = <<>>
  /\ pc' = "turn"
  /\ UNCHANGED <<gate, submitted, session, refusedIn>>

\* The calls are planned once, against the ledger of the turns before; modes
\* "off" and "shadow" run them one by one.
ReplyCalls(cs) ==
  /\ ~forced
  /\ Reply(cs, IF Parallel THEN [i \in DOMAIN cs |-> Decide(cs[i], ledger)]
               ELSE [i \in DOMAIN cs |-> "sequential"])
  /\ replies' = <<>>
  /\ pc' = "turn"
  /\ UNCHANGED <<gate, submitted, session, refusedIn>>

-----------------------------------------------------------------------------
(* Executing the calls of a turn. *)

InTurn == pc = "turn" /\ at <= Len(calls)

Answer(n) ==
  /\ at' = at + n
  /\ replies' = replies \o [i \in 1 .. n |-> at + i - 1]
  /\ UNCHANGED <<pc, budget, turn, submitted, session>>

\* Mutant of MustDefer: a call with an invalid argument does not count.
DeferBesideEligible ==
  Parallel /\ \E i \in DOMAIN calls : plan[i] = "parallel"

\* Mode "on": a draft beside other calls cannot use their results.
MustDefer == Parallel /\ \E i \in DOMAIN calls : calls[i].tool # "submit"

DeferSubmit ==
  /\ InTurn
  /\ calls[at].tool = "submit"
  /\ MustDefer
  /\ Answer(1)
  /\ UNCHANGED <<evidence, gate, draft, refusedIn>>

\* Mutant of Submit: the refusal counts at once, before the model has seen it.
SubmitBouncingAtOnce ==
  /\ InTurn
  /\ calls[at].tool = "submit"
  /\ ~MustDefer
  /\ Answer(1)
  /\ UNCHANGED evidence
  /\ IF Blocked
     THEN /\ gate' = [pending |-> FALSE, bounced |-> TRUE]
          /\ refusedIn' = turns
          /\ UNCHANGED draft
     ELSE /\ draft' = calls[at].arg
          /\ UNCHANGED <<gate, refusedIn>>

Submit ==
  /\ InTurn
  /\ calls[at].tool = "submit"
  /\ ~MustDefer
  /\ Answer(1)
  /\ UNCHANGED evidence
  /\ IF Blocked
     THEN /\ Refuse
          /\ UNCHANGED draft
     ELSE /\ draft' = calls[at].arg
          /\ UNCHANGED <<gate, refusedIn>>

\* _execute_and_record: a read counts whatever it found; a search counts when
\* it returned documents.  The references found enter the ledger.
Record(i, found) ==
  [read |-> \/ calls[i].tool \in {"retrieve", "find"}
            \/ calls[i].tool = "search" /\ found.docs,
   refs |-> found.refs,
   docs |-> found.docs]

Absorb(records) ==
  /\ read' = (read \/ \E r \in records : r.read)
  /\ ledger' = ledger \cup UNION {r.refs : r \in records}
  /\ gathered' = (gathered \/ \E r \in records : r.docs)

\* Mutant of Decision: the call is planned when its turn comes.
DecisionNow(i) == IF Parallel THEN Decide(calls[i], ledger) ELSE "sequential"

Decision(i) == plan[i]

Eligible == {i \in at .. Len(calls) : Decision(i) = "parallel"}

\* The error is recorded as the call's result and not counted as a read.
RejectInvalid ==
  /\ InTurn
  /\ Decision(at) = "invalid"
  /\ Answer(1)
  /\ UNCHANGED <<evidence, gate, draft, refusedIn>>

\* segments: the longest run of eligible calls, up to the cap.
Segment(n) ==
  /\ n \in 1 .. Cap
  /\ at .. at + n - 1 \subseteq Eligible
  /\ n < Cap => at + n \notin Eligible

\* A call of its own, in any mode: dispatched here and now.
Dispatch ==
  /\ InTurn
  /\ calls[at].tool # "submit"
  /\ Decision(at) = "sequential" \/ Segment(1)
  /\ \E found \in Found : Absorb({Record(at, found)})
  /\ Answer(1)
  /\ UNCHANGED <<gate, draft, refusedIn>>

\* Mutant of RunBatch: the results are recorded as they complete.
RunBatchByCompletion ==
  /\ InTurn
  /\ \E n \in 2 .. Cap :
       /\ Segment(n)
       /\ \E found \in [1 .. n -> Found] :
            Absorb({Record(at + i - 1, found[i]) : i \in 1 .. n})
       /\ at' = at + n
       /\ replies' = replies \o [i \in 1 .. n |-> at + n - i]
  /\ UNCHANGED <<pc, budget, turn, submitted, session, gate, draft, refusedIn>>

\* run_bounded, then the results in request order.  Past the deadline every
\* call is answered with an error instead of being made.
RunBatch ==
  /\ InTurn
  /\ \E n \in 2 .. Cap :
       /\ Segment(n)
       /\ \E found \in [1 .. n -> IF late THEN {Nothing} ELSE Found] :
            Absorb({Record(at + i - 1, found[i]) : i \in 1 .. n})
       /\ Answer(n)
  /\ UNCHANGED <<gate, draft, refusedIn>>

\* Every call is answered.  The last submission taken, if any, ends the loop.
EndTurn ==
  /\ pc = "turn"
  /\ at > Len(calls)
  /\ IF draft # None
     THEN /\ submitted' = draft
          /\ session' = [session EXCEPT !.status = "complete", !.reason = "completed"]
          /\ pc' = "finish"
     ELSE /\ pc' = "top"
          /\ UNCHANGED <<submitted, session>>
  /\ UNCHANGED <<budget, evidence, gate, turn, at, replies, draft, refusedIn>>

-----------------------------------------------------------------------------
(* After the loop. *)

\* An empty answer is replaced by a notice and is no completion.
Conclude(answer) ==
  LET status == IF answer = "empty" /\ session.status = "complete"
                THEN "insufficient_evidence" ELSE session.status
      reason == IF answer = "empty" /\ session.status = "complete"
                THEN "no_answer" ELSE session.reason
  IN  session' = [status |-> status, reason |-> reason, saved |-> status,
                  answer |-> answer]

Finish ==
  /\ pc = "finish"
  /\ IF Synthesis /\ gathered
     THEN /\ \E answer \in Answers : Conclude(answer)
          /\ turns' = turns + 1
     ELSE /\ Conclude(IF submitted = None THEN "empty" ELSE submitted)
          /\ UNCHANGED turns
  /\ pc' = "done"
  /\ UNCHANGED <<late, forced, evidence, gate, turn, at, replies, draft, submitted,
                 refusedIn>>

\* The model client, the sidecar or the database raises: the ask ends here
\* and the session stays as it was persisted at the start.
Raise ==
  /\ pc \in {"llm", "turn", "finish"}
  /\ pc' = "raised"
  /\ UNCHANGED <<budget, evidence, gate, turn, at, replies, draft, submitted,
                 session, refusedIn>>

-----------------------------------------------------------------------------
Step ==
  \/ TopOfLoop
  \/ ReplyText \/ ReplyEmpty
  \/ \E cs \in Turns : ReplyForced(cs) \/ ReplyCalls(cs)
  \/ DeferSubmit \/ Submit \/ RejectInvalid \/ Dispatch \/ RunBatch \/ EndTurn
  \/ Finish \/ Raise

Next == TimePasses \/ Step

Spec == Init /\ [][Next]_vars

\* One thread runs the loop; the model and the tools answer or raise.  The
\* clock need not reach the deadline.
FairSpec == Spec /\ WF_vars(Step)

-----------------------------------------------------------------------------
(* Properties. *)

\* When the model is called, each tool call of its last reply has been
\* answered exactly once and in the order of the request - through deferred,
\* refused, invalid and batched calls.  The chat protocol rejects a
\* conversation in which one is missing.
AnsweredInOrder ==
  pc \in {"top", "llm"} => replies = [i \in 1 .. Len(calls) |-> i]

\* The agent is called at most once after the budget is spent, and the
\* synthesis adds one call.
TurnBudget ==
  /\ pc # "done" => turns <= MaxTurns + 1
  /\ pc = "done" => turns <= MaxTurns + 2

\* An answer accepted before the budget is spent rests on a read, unless the
\* model submitted again after it had seen the refusal of an earlier turn.
ReadOrSeenRefusal ==
  draft # None \/ (submitted # None /\ ~forced) =>
    read \/ refusedIn \in 1 .. turns - 1

\* Submissions are refused for want of a read in one turn at most.
RefusedOnce ==
  [][refusedIn' # refusedIn => refusedIn \in {0, turns'}]_vars

\* Mode "on": a draft written beside reads of the same reply is never taken.
NoStaleDraft ==
  Parallel /\ draft # None => \A i \in DOMAIN calls : calls[i].tool = "submit"

\* Mode "on": an approved read runs only with references that were known when
\* the reply arrived; what a sibling of the same reply finds binds nothing.
SiblingsBindNothing ==
  [][pc = "turn" /\ Parallel /\ evidence' # evidence =>
       \A i \in at .. at' - 1 :
         calls[i].tool \in Approved => calls[i].arg \in before \cup {NoRef}]_vars

\* A forced ask reads nothing more: it is concluded from what was gathered.
ForcedReadsNothing == [][forced => UNCHANGED evidence]_vars

\* The status of a finished ask says how it ended: out of budget exactly when
\* the submission was forced, complete exactly when the model answered by
\* itself; and it is the status that was persisted.
StatusTellsHow ==
  pc = "done" =>
    /\ session.saved = session.status
    /\ session.status = "budget_exhausted" <=> forced
    /\ session.status = "complete" => session.answer = "text" /\ submitted # None
    /\ session.status = "insufficient_evidence" => session.answer = "empty"
    /\ session.reason \in {"max_agent_turns", "max_elapsed_ms"} <=> forced

\* Every ask ends, whatever the model replies: refusals, deferrals and nudges
\* spend the budget of turns.
Ends == <>(pc \in {"done", "raised"})
=============================================================================
