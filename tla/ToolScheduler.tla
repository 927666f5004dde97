--------------------------- MODULE ToolScheduler ---------------------------
(***************************************************************************)
(* run_bounded (app/retrieval/tool_scheduler.py): the batches of several   *)
(* asks share one process-wide thread pool and one semaphore.              *)
(*                                                                         *)
(* Three kinds of processes interleave: coordinators, which submit the     *)
(* calls of a batch and then collect the futures in request order; pool    *)
(* threads, which run the handlers; and the clock.  A handler may run      *)
(* for ever: a call whose future timed out is not cancelled, it keeps its  *)
(* thread and its permit while its coordinator goes on without it.         *)
(***************************************************************************)
EXTENDS Integers, FiniteSets, Sequences

CONSTANTS
  Batch,       \* calls of run_bounded
  Size,        \* tool calls in each
  Thread,      \* threads of _POOL
  Permits,     \* initial value of the semaphore
  MaxTime      \* the clock stops there; every deadline is within it

ASSUME SchedulerAssumption ==
  /\ Size \in Nat \ {0}
  /\ IsFiniteSet(Thread)
  /\ Permits \in Nat \ {0}
  /\ MaxTime \in Nat

Slot == 1 .. Size
Call == Batch \X Slot

\* What a future resolves to, and when: the handler's value, an error made of
\* its exception, or the deadline error.
Outcomes == {"value", "error", "deadline"}
Result   == [from : Call, as : Outcomes, at : 0 .. MaxTime]
NoResult == [from |-> <<>>, as |-> "none", at |-> 0]

VARIABLES
  now,         \* time.perf_counter()
  deadline,    \* of each batch
  pc,          \* of each coordinator
  cursor,      \* the slot being submitted or collected
  results,     \* the list run_bounded fills
  queue,       \* submitted calls no thread has taken
  stage,       \* of each thread: where it is in guarded()
  task,        \* the call each thread works on
  permits,     \* the semaphore
  future       \* what each call's future resolved to

coordinator == <<deadline, pc, cursor, results>>
pool        == <<queue, stage, task, permits, future>>
vars        == <<now, coordinator, pool>>

NoCall == <<>>

TypeOK ==
  /\ now \in 0 .. MaxTime
  /\ deadline \in [Batch -> 0 .. MaxTime]
  /\ pc \in [Batch -> {"idle", "submit", "check", "wait", "returned"}]
  /\ cursor \in [Batch -> Slot]
  /\ results \in [Batch -> [Slot -> Result \cup {NoResult}]]
  /\ queue \in Seq(Call)
  /\ stage \in [Thread -> {"free", "acquire", "check", "run"}]
  /\ task \in [Thread -> Call \cup {NoCall}]
  /\ permits \in 0 .. Permits
  /\ future \in [Call -> Result \cup {NoResult}]

Init ==
  /\ now = 0
  /\ deadline = [b \in Batch |-> 0]
  /\ pc = [b \in Batch |-> "idle"]
  /\ cursor = [b \in Batch |-> 1]
  /\ results = [b \in Batch |-> [i \in Slot |-> NoResult]]
  /\ queue = <<>>
  /\ stage = [t \in Thread |-> "free"]
  /\ task = [t \in Thread |-> NoCall]
  /\ permits = Permits
  /\ future = [c \in Call |-> NoResult]

Tick ==
  /\ now < MaxTime
  /\ now' = now + 1
  /\ UNCHANGED <<coordinator, pool>>

-----------------------------------------------------------------------------
(* Coordinators. *)

\* Mutant of Advance: the slots are counted from 0 to Size.
AdvanceTooFar(b, loop, after) ==
  IF cursor[b] <= Size
  THEN /\ cursor' = [cursor EXCEPT ![b] = @ + 1]
       /\ pc' = [pc EXCEPT ![b] = loop]
  ELSE /\ cursor' = [cursor EXCEPT ![b] = 1]
       /\ pc' = [pc EXCEPT ![b] = after]

\* The next slot, or the return to the caller.
Advance(b, loop, after) ==
  IF cursor[b] < Size
  THEN /\ cursor' = [cursor EXCEPT ![b] = @ + 1]
       /\ pc' = [pc EXCEPT ![b] = loop]
  ELSE /\ cursor' = [cursor EXCEPT ![b] = 1]
       /\ pc' = [pc EXCEPT ![b] = after]

RunBounded(b, d) ==
  /\ pc[b] = "idle"
  /\ pc' = [pc EXCEPT ![b] = "submit"]
  /\ deadline' = [deadline EXCEPT ![b] = d]
  /\ UNCHANGED <<now, cursor, results, pool>>

\* pool.submit: threads may take the first calls while the rest is submitted.
Submit(b) ==
  /\ pc[b] = "submit"
  /\ queue' = Append(queue, <<b, cursor[b]>>)
  /\ Advance(b, "submit", "check")
  /\ UNCHANGED <<now, deadline, results, stage, task, permits, future>>

Late(b) == now >= deadline[b]

Expired(b) == [from |-> <<b, cursor[b]>>, as |-> "deadline", at |-> now]

Collect(b, result) ==
  /\ results' = [results EXCEPT ![b][cursor[b]] = result]
  /\ Advance(b, "check", "returned")
  /\ UNCHANGED <<now, deadline, pool>>

\* remaining <= 0: the future is not even looked at.
SkipLate(b) ==
  /\ pc[b] = "check"
  /\ Late(b)
  /\ Collect(b, Expired(b))

Wait(b) ==
  /\ pc[b] = "check"
  /\ ~Late(b)
  /\ pc' = [pc EXCEPT ![b] = "wait"]
  /\ UNCHANGED <<now, deadline, cursor, results, pool>>

\* Mutant of TakeResult: futures are collected as they complete.
TakeAnyResult(b) ==
  /\ pc[b] = "wait"
  /\ \E i \in Slot : /\ future[<<b, i>>] # NoResult
                     /\ Collect(b, future[<<b, i>>])

\* future.result(timeout=remaining) returns.
TakeResult(b) ==
  /\ pc[b] = "wait"
  /\ future[<<b, cursor[b]>>] # NoResult
  /\ Collect(b, future[<<b, cursor[b]>>])

\* Mutant of TimeOut: the wait gives up before the deadline.
TimeOutEarly(b) ==
  /\ pc[b] = "wait"
  /\ future[<<b, cursor[b]>>] = NoResult
  /\ Collect(b, Expired(b))

\* Mutant of TimeOut: future.result() is called without a timeout.
NoTimeOut(b) ==
  /\ pc[b] = "wait"
  /\ FALSE
  /\ UNCHANGED vars

\* future.result raises TimeoutError.
TimeOut(b) ==
  /\ pc[b] = "wait"
  /\ Late(b)
  /\ future[<<b, cursor[b]>>] = NoResult
  /\ Collect(b, Expired(b))

-----------------------------------------------------------------------------
(* Pool threads: guarded(call). *)

Take(t) ==
  /\ stage[t] = "free"
  /\ queue # <<>>
  /\ task' = [task EXCEPT ![t] = Head(queue)]
  /\ queue' = Tail(queue)
  /\ stage' = [stage EXCEPT ![t] = "acquire"]
  /\ UNCHANGED <<now, coordinator, permits, future>>

Acquire(t) ==
  /\ stage[t] = "acquire"
  /\ permits > 0
  /\ permits' = permits - 1
  /\ stage' = [stage EXCEPT ![t] = "check"]
  /\ UNCHANGED <<now, coordinator, queue, task, future>>

\* The permit is released, the future set and the thread is free again.
Resolve(t, outcome) ==
  /\ future' = [future EXCEPT ![task[t]] = [from |-> task[t], as |-> outcome,
                                            at |-> now]]
  /\ permits' = permits + 1
  /\ stage' = [stage EXCEPT ![t] = "free"]
  /\ task' = [task EXCEPT ![t] = NoCall]
  /\ UNCHANGED <<now, coordinator, queue>>

\* Mutant of Expire: the early return comes before the try block.
ExpireKeepingPermit(t) ==
  /\ stage[t] = "check"
  /\ Late(task[t][1])
  /\ future' = [future EXCEPT ![task[t]] = [from |-> task[t], as |-> "deadline",
                                            at |-> now]]
  /\ stage' = [stage EXCEPT ![t] = "free"]
  /\ task' = [task EXCEPT ![t] = NoCall]
  /\ UNCHANGED <<now, coordinator, queue, permits>>

\* The call waited past its deadline, in the queue or for a permit: the
\* handler is not called.
Expire(t) ==
  /\ stage[t] = "check"
  /\ Late(task[t][1])
  /\ Resolve(t, "deadline")

\* Mutant of StartHandler: the deadline is not checked under the permit.
StartHandlerAnyTime(t) ==
  /\ stage[t] = "check"
  /\ stage' = [stage EXCEPT ![t] = "run"]
  /\ UNCHANGED <<now, coordinator, queue, task, permits, future>>

StartHandler(t) ==
  /\ stage[t] = "check"
  /\ ~Late(task[t][1])
  /\ stage' = [stage EXCEPT ![t] = "run"]
  /\ UNCHANGED <<now, coordinator, queue, task, permits, future>>

\* The handler returns or raises - perhaps long after its batch has returned.
HandlerEnds(t) ==
  /\ stage[t] = "run"
  /\ \E outcome \in {"value", "error"} : Resolve(t, outcome)

-----------------------------------------------------------------------------
Coordinate(b) ==
  \/ \E d \in 0 .. MaxTime : RunBounded(b, d)
  \/ Submit(b) \/ SkipLate(b) \/ Wait(b) \/ TakeResult(b) \/ TimeOut(b)

Guarded(t) == Take(t) \/ Acquire(t) \/ Expire(t) \/ StartHandler(t)

Next ==
  \/ Tick
  \/ \E b \in Batch : Coordinate(b)
  \/ \E t \in Thread : Guarded(t) \/ HandlerEnds(t)

Spec == Init /\ [][Next]_vars

\* Time passes and threads are scheduled; nothing is assumed of the handlers.
Fairness ==
  /\ WF_vars(Tick)
  /\ \A b \in Batch : WF_vars(Submit(b) \/ SkipLate(b) \/ Wait(b)
                              \/ TakeResult(b) \/ TimeOut(b))
  /\ \A t \in Thread : WF_vars(Guarded(t))

FairSpec == Spec /\ Fairness

\* The handlers' own calls time out, so each ends some day.
HandlersEnd == \A t \in Thread : WF_vars(HandlerEnds(t))

-----------------------------------------------------------------------------
(* Properties. *)

\* Whatever order the handlers finish in, slot i of a batch holds the outcome
\* of its own i-th call or the deadline error, never a sibling's result.
ResultsInRequestOrder ==
  \A b \in Batch, i \in Slot :
    results[b][i] # NoResult =>
      /\ results[b][i].from = <<b, i>>
      /\ results[b][i].as # "deadline" => future[<<b, i>>] = results[b][i]

\* A deadline error is reported only when the time is up: neither a full
\* pool nor the threads other asks occupy make a batch give up early.
DeadlineMeansLate ==
  \A b \in Batch, i \in Slot : results[b][i].as = "deadline" => Late(b)

\* A call that was answered "deadline" while it waited in the queue or for a
\* permit never starts: no read is made for a batch that has given it up.
AbandonedCallsNeverStart ==
  [][\A t \in Thread : stage[t] # "run" /\ stage'[t] = "run" =>
       results[task[t][1]][task[t][2]] = NoResult]_vars

\* The calls between acquire and release, and the permits left, are always
\* the initial permits: a BoundedSemaphore raises when released too often,
\* and every later batch starves when one permit is lost.
Holding == {t \in Thread : stage[t] \in {"check", "run"}}

PermitsConserved == permits + Cardinality(Holding) = Permits

\* run_bounded returns to the ask by its deadline even if no handler ever
\* does.
BatchesReturn == \A b \in Batch : pc[b] = "submit" ~> pc[b] = "returned"

\* When handlers end, every call that was submitted is resolved and its
\* thread set free - also the ones nobody waits for any more.
ThreadsComeBack ==
  HandlersEnd =>
    \A t \in Thread : stage[t] # "free" ~> stage[t] = "free" /\ permits > 0

\* MARE_Latency_Optimization_PRD.md:192, "A sibling failure or timeout leaves
\* successful results available": a call whose handler returned in time is not
\* reported as "deadline".
TimeoutKeepsSiblings ==
  [][\A b \in Batch, i \in Slot :
       results[b][i] = NoResult /\ results'[b][i].as = "deadline" =>
         ~(future[<<b, i>>].as = "value" /\ future[<<b, i>>].at < deadline[b])]_vars
=============================================================================
