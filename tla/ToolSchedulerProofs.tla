------------------------ MODULE ToolSchedulerProofs ------------------------
(***************************************************************************)
(* Proofs about ToolScheduler, for any number of batches, calls, threads   *)
(* and permits.  The inductive invariant says where each call is: not yet  *)
(* submitted, in the queue, with one thread or resolved - in one place     *)
(* only.                                                                   *)
(***************************************************************************)
EXTENDS ToolScheduler, FiniteSetTheorems, TLAPS

Submitted ==
  {c \in Call : /\ pc[c[1]] # "idle"
                /\ pc[c[1]] = "submit" => c[2] < cursor[c[1]]}

Busy == {t \in Thread : stage[t] # "free"}

\* The queue holds submitted calls, each once, none of them resolved.
Queued ==
  /\ \A j \in 1 .. Len(queue) : queue[j] \in Submitted /\ future[queue[j]] = NoResult
  /\ \A j, k \in 1 .. Len(queue) : queue[j] = queue[k] => j = k

\* A call a thread works on has left the queue, is not resolved yet and is
\* worked on by no other thread.
Worked ==
  \A t \in Busy :
    /\ task[t] \in Submitted /\ future[task[t]] = NoResult
    /\ \A j \in 1 .. Len(queue) : queue[j] # task[t]
    /\ \A u \in Busy : task[u] = task[t] => u = t

\* A future is that of its own call, and a deadline error is due.
Resolved ==
  \A c \in Call : future[c] # NoResult =>
    /\ c \in Submitted
    /\ future[c].from = c
    /\ future[c].as = "deadline" => Late(c[1])

Collected ==
  /\ \A b \in Batch : pc[b] \in {"idle", "submit"} =>
       \A i \in Slot : results[b][i] = NoResult
  /\ ResultsInRequestOrder
  /\ DeadlineMeansLate

IInv == TypeOK /\ PermitsConserved /\ Queued /\ Worked /\ Resolved /\ Collected

-----------------------------------------------------------------------------
(* Calls, results and the queue. *)

\* A result is set, and is that of a call.
LEMMA ResultIsSet ==
  ASSUME NEW r \in Result
  PROVE  r # NoResult /\ r.as # "none" /\ r.from \in Call
  BY DEF Result, NoResult, Outcomes

\* The slot a coordinator is at is a call.
LEMMA CursorIsCall ==
  ASSUME TypeOK, NEW b \in Batch
  PROVE  /\ cursor[b] \in Slot /\ <<b, cursor[b]>> \in Call
         /\ <<b, cursor[b]>>[1] = b /\ <<b, cursor[b]>>[2] = cursor[b]
  BY DEF TypeOK, Call

\* The queue as a function on positions.
LEMMA QueueType ==
  ASSUME TypeOK
  PROVE  /\ Len(queue) \in Nat
         /\ \A j \in 1 .. Len(queue) : queue[j] \in Call
  BY DEF TypeOK

\* pool.submit puts a call behind those that wait.
LEMMA SubmitQueue ==
  ASSUME TypeOK, NEW b \in Batch, Submit(b)
  PROVE  /\ queue' \in Seq(Call) /\ Len(queue') = Len(queue) + 1
         /\ \A j \in 1 .. Len(queue) : queue'[j] = queue[j]
         /\ queue'[Len(queue) + 1] = <<b, cursor[b]>>
  BY CursorIsCall DEF TypeOK, Submit

\* A thread takes the call that waited longest.
LEMMA TakeQueue ==
  ASSUME TypeOK, NEW t \in Thread, Take(t)
  PROVE  /\ queue' \in Seq(Call) /\ Len(queue') = Len(queue) - 1
         /\ Len(queue) >= 1 /\ Head(queue) = queue[1] /\ queue[1] \in Call
         /\ \A j \in 1 .. Len(queue') : queue'[j] = queue[j + 1]
<1>1. queue \in Seq(Call) /\ queue # <<>> /\ queue' = Tail(queue)
  BY DEF TypeOK, Take
<1>2. Len(queue) \in Nat /\ Len(queue) >= 1
  BY <1>1
<1>3. queue' \in Seq(Call) /\ Len(queue') = Len(queue) - 1
  BY <1>1
<1>4. Head(queue) = queue[1] /\ queue[1] \in Call
  BY <1>1, <1>2
<1>5. \A j \in 1 .. Len(queue') : queue'[j] = queue[j + 1]
  BY <1>1, <1>3
<1> QED
  BY <1>2, <1>3, <1>4, <1>5

\* The actions that give up or end a call, and those of a coordinator that
\* fill a slot, by what they have in common.
LEMMA StepKinds ==
  ASSUME Next
  PROVE  \/ Tick
         \/ \E b \in Batch, d \in 0 .. MaxTime : RunBounded(b, d)
         \/ \E b \in Batch : Submit(b)
         \/ \E b \in Batch : SkipLate(b) \/ TakeResult(b) \/ TimeOut(b)
         \/ \E b \in Batch : Wait(b)
         \/ \E t \in Thread : Take(t)
         \/ \E t \in Thread : Acquire(t)
         \/ \E t \in Thread : StartHandler(t)
         \/ \E t \in Thread : Expire(t) \/ HandlerEnds(t)
  BY DEF Next, Coordinate, Guarded

-----------------------------------------------------------------------------
(* What a step that fills a slot and one that ends a call do. *)

\* The coordinator fills the slot it is at, with the outcome of the call of
\* that slot or, when the time is up, with a deadline error.
LEMMA Collecting ==
  ASSUME IInv, NEW b \in Batch, SkipLate(b) \/ TakeResult(b) \/ TimeOut(b)
  PROVE  \E r \in Result :
           /\ Collect(b, r)
           /\ r.from = <<b, cursor[b]>>
           /\ r.as # "deadline" => future[<<b, cursor[b]>>] = r
           /\ r.as = "deadline" => Late(b)
           /\ pc[b] \in {"check", "wait"}
<1>1. Expired(b) \in Result /\ Expired(b).from = <<b, cursor[b]>>
      /\ Expired(b).as = "deadline"
  BY CursorIsCall DEF IInv, TypeOK, Expired, Result, Outcomes
<1>2. CASE SkipLate(b)
  BY <1>1, <1>2 DEF SkipLate
<1>3. CASE TimeOut(b)
  BY <1>1, <1>3 DEF TimeOut
<1>4. CASE TakeResult(b)
  <2> DEFINE c == <<b, cursor[b]>>
  <2>1. c \in Call /\ c[1] = b
    BY CursorIsCall DEF IInv
  <2>2. future[c] \in Result
    BY <1>4, <2>1 DEF IInv, TypeOK, TakeResult
  <2>3. future[c].from = c /\ (future[c].as = "deadline" => Late(b))
    BY <1>4, <2>1 DEF IInv, Resolved, TakeResult
  <2> QED
    BY <1>4, <2>2, <2>3 DEF TakeResult
<1> QED
  BY <1>2, <1>3, <1>4

\* A thread resolves the future of its call; with a deadline error only when
\* the time is up.
LEMMA Ending ==
  ASSUME IInv, NEW t \in Thread, Expire(t) \/ HandlerEnds(t)
  PROVE  /\ t \in Holding /\ t \in Busy /\ task[t] \in Call
         /\ \E outcome \in Outcomes :
              /\ Resolve(t, outcome)
              /\ outcome = "deadline" => Late(task[t][1])
<1>1. stage[t] \in {"check", "run"}
  BY DEF Expire, HandlerEnds
<1>2. t \in Holding /\ t \in Busy
  BY <1>1 DEF Holding, Busy
<1>3. task[t] \in Call
  BY <1>2 DEF IInv, Worked, Submitted
<1> QED
  BY <1>2, <1>3 DEF Expire, HandlerEnds, Outcomes

-----------------------------------------------------------------------------
(* The semaphore. *)

\* The threads that hold a permit can be counted.
LEMMA HoldingFinite ==
  IsFiniteSet(Holding) /\ Cardinality(Holding) \in Nat
<1>1. Holding \in SUBSET Thread
  BY DEF Holding
<1> QED
  BY <1>1, FS_Subset, FS_CardinalityType, SchedulerAssumption

\* Every acquire is paid with a permit and every end of a call gives it back.
LEMMA PermitsStep ==
  ASSUME IInv, Next
  PROVE  PermitsConserved' /\ permits' \in Nat
<1> USE DEF IInv
<1>1. /\ permits \in Nat /\ Permits \in Nat
      /\ permits + Cardinality(Holding) = Permits
  BY SchedulerAssumption DEF TypeOK, PermitsConserved
<1>2. ASSUME UNCHANGED permits, Holding' = Holding
      PROVE  PermitsConserved' /\ permits' \in Nat
  BY <1>1, <1>2 DEF PermitsConserved
<1>3. CASE UNCHANGED <<permits, stage>>
  <2>1. Holding' = Holding
    BY <1>3 DEF Holding
  <2> QED
    BY <1>2, <1>3, <2>1
<1>4. CASE \E t \in Thread : Take(t) \/ StartHandler(t)
  <2>1. PICK t \in Thread : Take(t) \/ StartHandler(t)
    BY <1>4
  <2>2. Holding' = Holding
    BY <2>1 DEF Holding, Take, StartHandler, TypeOK
  <2> QED
    BY <1>2, <2>1, <2>2 DEF Take, StartHandler
<1>5. CASE \E t \in Thread : Acquire(t)
  <2>1. PICK t \in Thread : Acquire(t)
    BY <1>5
  <2>2. Holding' = Holding \cup {t} /\ t \notin Holding
    BY <2>1 DEF Holding, Acquire, TypeOK
  <2>3. Cardinality(Holding') = Cardinality(Holding) + 1
    BY <2>2, HoldingFinite, FS_AddElement
  <2>4. permits' = permits - 1 /\ permits > 0
    BY <2>1 DEF Acquire
  <2> QED
    BY <1>1, <2>3, <2>4, HoldingFinite DEF PermitsConserved
<1>6. CASE \E t \in Thread : Expire(t) \/ HandlerEnds(t)
  <2>1. PICK t \in Thread : Expire(t) \/ HandlerEnds(t)
    BY <1>6
  <2>2. PICK outcome \in Outcomes : Resolve(t, outcome)
    BY <2>1, Ending
  <2>3. t \in Holding
    BY <2>1, Ending
  <2>4. Holding' = Holding \ {t}
    BY <2>2 DEF Holding, Resolve, TypeOK
  <2>5. Cardinality(Holding') = Cardinality(Holding) - 1
    BY <2>3, <2>4, HoldingFinite, FS_RemoveElement
  <2>6. permits' = permits + 1
    BY <2>2 DEF Resolve
  <2> QED
    BY <1>1, <2>5, <2>6, HoldingFinite DEF PermitsConserved
<1> QED
  BY <1>3, <1>4, <1>5, <1>6, StepKinds
  DEF Tick, RunBounded, Submit, SkipLate, TakeResult, TimeOut, Wait, Collect,
      coordinator, pool

-----------------------------------------------------------------------------
(* Types. *)

\* Advance stays within the batch.
LEMMA AdvanceType ==
  ASSUME TypeOK, NEW b \in Batch, NEW loop, NEW after, Advance(b, loop, after),
         {loop, after} \subseteq {"submit", "check", "returned"}
  PROVE  /\ pc' \in [Batch -> {"idle", "submit", "check", "wait", "returned"}]
         /\ cursor' \in [Batch -> Slot]
<1>1. cursor[b] \in 1 .. Size /\ Size \in Nat \ {0}
  BY SchedulerAssumption DEF TypeOK, Slot
<1>2. CASE cursor[b] < Size
  <2>1. cursor[b] + 1 \in Slot
    BY <1>1, <1>2 DEF Slot
  <2> QED
    BY <1>2, <2>1 DEF TypeOK, Advance
<1>3. CASE ~(cursor[b] < Size)
  <2>1. 1 \in Slot
    BY <1>1 DEF Slot
  <2> QED
    BY <1>3, <2>1 DEF TypeOK, Advance
<1> QED
  BY <1>2, <1>3

\* Filling a slot moves the coordinator on within the batch.
LEMMA CollectType ==
  ASSUME TypeOK, NEW b \in Batch, NEW r \in Result, Collect(b, r)
  PROVE  /\ pc' \in [Batch -> {"idle", "submit", "check", "wait", "returned"}]
         /\ cursor' \in [Batch -> Slot]
         /\ results' \in [Batch -> [Slot -> Result \cup {NoResult}]]
<1>1. results' \in [Batch -> [Slot -> Result \cup {NoResult}]]
  BY DEF TypeOK, Collect
<1>2. Advance(b, "check", "returned")
  BY DEF Collect
<1> QED
  BY <1>1, <1>2, AdvanceType

\* What the threads change keeps its type.
LEMMA PoolType ==
  ASSUME TypeOK, Worked, NEW t \in Thread, Guarded(t) \/ HandlerEnds(t)
  PROVE  /\ queue' \in Seq(Call)
         /\ stage' \in [Thread -> {"free", "acquire", "check", "run"}]
         /\ task' \in [Thread -> Call \cup {NoCall}]
         /\ future' \in [Call -> Result \cup {NoResult}]
<1>1. CASE Take(t)
  BY <1>1, TakeQueue DEF TypeOK, Take
<1>2. CASE Acquire(t) \/ StartHandler(t)
  BY <1>2 DEF TypeOK, Acquire, StartHandler
<1>3. CASE Expire(t) \/ HandlerEnds(t)
  <2>1. PICK outcome \in Outcomes : Resolve(t, outcome)
    BY <1>3 DEF Expire, HandlerEnds, Outcomes
  <2>2. task[t] \in Call
    BY <1>3 DEF Expire, HandlerEnds, Worked, Busy, Submitted
  <2>3. [from |-> task[t], as |-> outcome, at |-> now] \in Result
    BY <2>2 DEF TypeOK, Result
  <2> QED
    BY <2>1, <2>2, <2>3 DEF TypeOK, Resolve
<1> QED
  BY <1>1, <1>2, <1>3 DEF Guarded

\* Every step keeps the types; that of the permits because they are conserved.
LEMMA TypeStep ==
  ASSUME IInv, Next
  PROVE  TypeOK'
<1> USE DEF IInv
<1>1. permits' \in 0 .. Permits
  <2>1. permits' + Cardinality(Holding') = Permits /\ permits' \in Nat
    BY PermitsStep DEF PermitsConserved
  <2>2. Cardinality(Holding') \in Nat
    <3>1. Holding' \in SUBSET Thread
      BY DEF Holding
    <3> QED
      BY <3>1, FS_Subset, FS_CardinalityType, SchedulerAssumption
  <2> QED
    BY <2>1, <2>2, SchedulerAssumption
<1>2. CASE Tick
  BY <1>1, <1>2, SchedulerAssumption DEF TypeOK, Tick, coordinator, pool
<1>3. CASE \E b \in Batch, d \in 0 .. MaxTime : RunBounded(b, d)
  BY <1>1, <1>3 DEF TypeOK, RunBounded, pool
<1>4. CASE \E b \in Batch : Submit(b)
  <2>1. PICK b \in Batch : Submit(b)
    BY <1>4
  <2>2. Advance(b, "submit", "check")
    BY <2>1 DEF Submit
  <2> QED
    BY <1>1, <2>1, <2>2, SubmitQueue, AdvanceType DEF TypeOK, Submit
<1>5. CASE \E b \in Batch : SkipLate(b) \/ TakeResult(b) \/ TimeOut(b)
  <2>1. PICK b \in Batch, r \in Result : Collect(b, r)
    BY <1>5, Collecting
  <2> QED
    BY <1>1, <2>1, CollectType DEF TypeOK, Collect, pool
<1>6. CASE \E b \in Batch : Wait(b)
  BY <1>1, <1>6 DEF TypeOK, Wait, pool
<1>7. CASE \E t \in Thread : Guarded(t) \/ HandlerEnds(t)
  <2>1. PICK t \in Thread : Guarded(t) \/ HandlerEnds(t)
    BY <1>7
  <2>2. UNCHANGED <<now, coordinator>>
    BY <2>1 DEF Guarded, Take, Acquire, Expire, StartHandler, HandlerEnds, Resolve
  <2> QED
    BY <1>1, <2>1, <2>2, PoolType DEF TypeOK, coordinator
<1> QED
  BY <1>2, <1>3, <1>4, <1>5, <1>6, <1>7 DEF Next, Coordinate

-----------------------------------------------------------------------------
(* Where a call is. *)

\* A submitted call stays submitted.
LEMMA SubmittedStays ==
  ASSUME IInv, Next, NEW c \in Submitted
  PROVE  c \in Submitted'
<1> USE DEF IInv
<1>1. c \in Call /\ c[1] \in Batch /\ c[2] \in Nat
  BY SchedulerAssumption DEF Submitted, Call, Slot
<1>2. CASE UNCHANGED <<pc, cursor>>
  BY <1>2 DEF Submitted
<1>3. ASSUME NEW b \in Batch, NEW d, RunBounded(b, d)
      PROVE  c \in Submitted'
  BY <1>1, <1>3 DEF Submitted, RunBounded, TypeOK
<1>4. ASSUME NEW b \in Batch, Submit(b)
      PROVE  c \in Submitted'
  <2>1. cursor[b] \in Nat
    BY DEF TypeOK, Slot
  <2> QED
    BY <1>1, <1>4, <2>1 DEF Submitted, Submit, Advance, TypeOK
<1>5. ASSUME NEW b \in Batch, NEW r, Collect(b, r), pc[b] # "idle"
      PROVE  c \in Submitted'
  BY <1>1, <1>5 DEF Submitted, Collect, Advance, TypeOK
<1>6. ASSUME NEW b \in Batch, Wait(b)
      PROVE  c \in Submitted'
  BY <1>1, <1>6 DEF Submitted, Wait, TypeOK
<1>7. CASE \E b \in Batch : SkipLate(b) \/ TakeResult(b) \/ TimeOut(b)
  BY <1>5, <1>7 DEF SkipLate, TakeResult, TimeOut
<1> QED
  BY <1>2, <1>3, <1>4, <1>6, <1>7, StepKinds
  DEF Tick, Take, Acquire, StartHandler, Expire, HandlerEnds, Resolve, coordinator

\* The call that is being submitted was not submitted before: it is nowhere
\* yet.
LEMMA SubmitsNew ==
  ASSUME IInv, NEW b \in Batch, Submit(b)
  PROVE  /\ <<b, cursor[b]>> \notin Submitted
         /\ <<b, cursor[b]>> \in Submitted'
         /\ future[<<b, cursor[b]>>] = NoResult
<1> DEFINE c == <<b, cursor[b]>>
<1> USE DEF IInv
<1>1. c \in Call /\ c[1] = b /\ c[2] = cursor[b] /\ cursor[b] \in Nat
  BY CursorIsCall DEF Slot
<1>2. c \notin Submitted
  BY <1>1 DEF Submitted, Submit
<1>3. future[c] = NoResult
  BY <1>1, <1>2 DEF Resolved
<1>4. c \in Submitted'
  BY <1>1 DEF Submitted, Submit, Advance, TypeOK
<1> QED
  BY <1>2, <1>3, <1>4

\* The queue: a call enters it when it is submitted, and leaves it for good.
LEMMA QueuedStep ==
  ASSUME IInv, Next
  PROVE  Queued'
<1> USE DEF IInv
<1>1. \A j \in 1 .. Len(queue) : queue[j] \in Call /\ queue[j] \in Submitted'
  BY QueueType, SubmittedStays DEF Queued
<1>2. CASE UNCHANGED <<queue, future>>
  BY <1>1, <1>2 DEF Queued
<1>3. CASE \E b \in Batch : Submit(b)
  <2>1. PICK b \in Batch : Submit(b)
    BY <1>3
  <2>2. future' = future
    BY <2>1 DEF Submit
  <2>3. \A j \in 1 .. Len(queue) : queue[j] # <<b, cursor[b]>>
    BY <2>1, SubmitsNew DEF Queued
  <2>4. \A j \in 1 .. Len(queue') : j \in 1 .. Len(queue) \/ j = Len(queue) + 1
    BY <2>1, SubmitQueue, QueueType
  <2>5. \A j \in 1 .. Len(queue') :
          queue'[j] \in Submitted' /\ future'[queue'[j]] = NoResult
    <3>1. <<b, cursor[b]>> \in Submitted' /\ future[<<b, cursor[b]>>] = NoResult
      BY <2>1, SubmitsNew
    <3>2. \A j \in 1 .. Len(queue) : queue'[j] = queue[j]
      BY <2>1, SubmitQueue
    <3>3. queue'[Len(queue) + 1] = <<b, cursor[b]>>
      BY <2>1, SubmitQueue
    <3> QED
      BY <1>1, <2>2, <2>4, <3>1, <3>2, <3>3 DEF Queued
  <2>6. \A j, k \in 1 .. Len(queue') : queue'[j] = queue'[k] => j = k
    BY <2>1, <2>3, <2>4, SubmitQueue DEF Queued
  <2> QED
    BY <2>5, <2>6 DEF Queued
<1>4. CASE \E t \in Thread : Take(t)
  <2>1. PICK t \in Thread : Take(t)
    BY <1>4
  <2>2. future' = future
    BY <2>1 DEF Take
  <2>3. \A j \in 1 .. Len(queue') :
          /\ j \in 1 .. Len(queue) /\ j + 1 \in 1 .. Len(queue)
          /\ queue'[j] = queue[j + 1]
    BY <2>1, TakeQueue, QueueType
  <2>4. \A j \in 1 .. Len(queue') :
          queue'[j] \in Submitted' /\ future'[queue'[j]] = NoResult
    BY <1>1, <2>2, <2>3 DEF Queued
  <2>5. \A j, k \in 1 .. Len(queue') : queue'[j] = queue'[k] => j = k
    <3> SUFFICES ASSUME NEW j \in 1 .. Len(queue'), NEW k \in 1 .. Len(queue'),
                        queue'[j] = queue'[k]
                 PROVE  j = k
      OBVIOUS
    <3>1. j + 1 = k + 1
      BY <2>3 DEF Queued
    <3> QED
      BY <3>1
  <2> QED
    BY <2>4, <2>5 DEF Queued
<1>5. CASE \E t \in Thread : Expire(t) \/ HandlerEnds(t)
  <2>1. PICK t \in Thread : Expire(t) \/ HandlerEnds(t)
    BY <1>5
  <2>2. PICK outcome \in Outcomes : Resolve(t, outcome)
    BY <2>1, Ending
  <2>3. \A j \in 1 .. Len(queue) : queue[j] # task[t]
    BY <2>1, Ending DEF Worked
  <2>4. \A j \in 1 .. Len(queue) : future'[queue[j]] = future[queue[j]]
    BY <1>1, <2>2, <2>3 DEF Resolve, TypeOK
  <2>5. queue' = queue
    BY <2>2 DEF Resolve
  <2> QED
    BY <1>1, <2>4, <2>5 DEF Queued
<1> QED
  BY <1>2, <1>3, <1>4, <1>5, StepKinds
  DEF Tick, RunBounded, SkipLate, TakeResult, TimeOut, Wait, Collect,
      Acquire, StartHandler, pool

\* A thread at work: its call has left the queue and is nowhere else.
LEMMA WorkedStep ==
  ASSUME IInv, Next
  PROVE  Worked'
<1> USE DEF IInv
<1>1. \A t \in Busy : task[t] \in Submitted'
  BY SubmittedStays DEF Worked
<1>2. CASE UNCHANGED <<queue, task, future>> /\ Busy' = Busy
  BY <1>1, <1>2 DEF Worked
<1>3. CASE \E b \in Batch : Submit(b)
  <2>1. PICK b \in Batch : Submit(b)
    BY <1>3
  <2>2. UNCHANGED <<stage, task, future>> /\ Busy' = Busy
    BY <2>1 DEF Submit, Busy
  <2>3. \A t \in Busy : task[t] # <<b, cursor[b]>>
    BY <2>1, SubmitsNew DEF Worked
  <2>4. \A j \in 1 .. Len(queue') : j \in 1 .. Len(queue) \/ j = Len(queue) + 1
    BY <2>1, SubmitQueue, QueueType
  <2>5. \A t \in Busy : \A j \in 1 .. Len(queue') : queue'[j] # task[t]
    BY <2>1, <2>3, <2>4, SubmitQueue DEF Worked
  <2> QED
    BY <1>1, <2>2, <2>5 DEF Worked
<1>4. CASE \E t \in Thread : Take(t)
  <2>1. PICK t \in Thread : Take(t)
    BY <1>4
  <2>2. t \notin Busy /\ Busy' = Busy \cup {t}
    BY <2>1 DEF Busy, Take, TypeOK
  <2>3. future' = future /\ task'[t] = queue[1]
        /\ \A u \in Busy : task'[u] = task[u]
    BY <2>1, <2>2, TakeQueue DEF Take, Busy, TypeOK
  <2>4. \A j \in 1 .. Len(queue') :
          /\ j + 1 \in 1 .. Len(queue) /\ j + 1 # 1
          /\ queue'[j] = queue[j + 1]
    BY <2>1, TakeQueue, QueueType
  <2>5. 1 \in 1 .. Len(queue)
    BY <2>1, TakeQueue, QueueType
  <2>6. queue[1] \in Submitted' /\ future[queue[1]] = NoResult
    BY <2>5, SubmittedStays DEF Queued
  <2>7. \A j \in 1 .. Len(queue') : queue'[j] # queue[1]
    BY <2>4, <2>5 DEF Queued
  <2>8. \A u \in Busy : task[u] # queue[1]
    BY <2>5 DEF Worked
  <2>9. \A u \in Busy : \A j \in 1 .. Len(queue') : queue'[j] # task[u]
    BY <2>4 DEF Worked
  <2> QED
    BY <1>1, <2>2, <2>3, <2>6, <2>7, <2>8, <2>9 DEF Worked
<1>5. CASE \E t \in Thread : Acquire(t) \/ StartHandler(t)
  <2>1. PICK t \in Thread : Acquire(t) \/ StartHandler(t)
    BY <1>5
  <2>2. UNCHANGED <<queue, task, future>>
    BY <2>1 DEF Acquire, StartHandler
  <2>3. Busy' = Busy
    BY <2>1 DEF Acquire, StartHandler, Busy, TypeOK
  <2> QED
    BY <1>2, <2>2, <2>3
<1>6. CASE \E t \in Thread : Expire(t) \/ HandlerEnds(t)
  <2>1. PICK t \in Thread : Expire(t) \/ HandlerEnds(t)
    BY <1>6
  <2>2. PICK outcome \in Outcomes : Resolve(t, outcome)
    BY <2>1, Ending
  <2>3. Busy' = Busy \ {t} /\ t \in Busy /\ queue' = queue
    BY <2>1, <2>2, Ending DEF Resolve, Busy, TypeOK
  <2>4. \A u \in Busy : task[u] \in Call
    BY DEF Worked, Submitted
  <2>5. \A u \in Busy \ {t} : task[u] # task[t]
    BY <2>3 DEF Worked
  <2>6. \A u \in Busy \ {t} : task'[u] = task[u]
    BY <2>2, <2>3 DEF Resolve, TypeOK, Busy
  <2>7. \A u \in Busy \ {t} : future'[task[u]] = future[task[u]]
    BY <2>2, <2>4, <2>5 DEF Resolve, TypeOK
  <2> QED
    BY <1>1, <2>3, <2>6, <2>7 DEF Worked
<1> QED
  BY <1>2, <1>3, <1>4, <1>5, <1>6, StepKinds
  DEF Tick, RunBounded, SkipLate, TakeResult, TimeOut, Wait, Collect, pool, Busy

\* A deadline that has passed stays passed, unless its batch only starts now.
LEMMA LateStays ==
  ASSUME IInv, Next, NEW b \in Batch, pc[b] # "idle", Late(b)
  PROVE  Late(b)'
<1>1. now \in Nat /\ deadline[b] \in Nat
  BY SchedulerAssumption DEF IInv, TypeOK
<1>2. deadline'[b] = deadline[b]
  BY StepKinds DEF IInv, TypeOK, Tick, RunBounded, Submit, SkipLate, TakeResult,
     TimeOut, Wait, Collect, Take, Acquire, StartHandler, Expire, HandlerEnds,
     Resolve, coordinator
<1>3. now' = now \/ now' = now + 1
  BY StepKinds DEF Tick, RunBounded, Submit, SkipLate, TakeResult,
     TimeOut, Wait, Collect, Take, Acquire, StartHandler, Expire, HandlerEnds,
     Resolve
<1> QED
  BY <1>1, <1>2, <1>3 DEF Late

\* Only a submitted call is resolved, and with a deadline error only when its
\* time is up.
LEMMA ResolvedStep ==
  ASSUME IInv, Next
  PROVE  Resolved'
<1> USE DEF IInv
<1>1. ASSUME NEW c \in Call, future[c] # NoResult
      PROVE  /\ c \in Submitted' /\ future[c].from = c
             /\ future[c].as = "deadline" => Late(c[1])'
  <2>1. c \in Submitted /\ c[1] \in Batch /\ pc[c[1]] # "idle"
    BY <1>1 DEF Resolved, Submitted, Call
  <2>2. future[c].from = c /\ (future[c].as = "deadline" => Late(c[1]))
    BY <1>1 DEF Resolved
  <2> QED
    BY <2>1, <2>2, SubmittedStays, LateStays
<1>2. CASE UNCHANGED future
  BY <1>1, <1>2 DEF Resolved
<1>3. CASE \E t \in Thread : Expire(t) \/ HandlerEnds(t)
  <2>1. PICK t \in Thread : Expire(t) \/ HandlerEnds(t)
    BY <1>3
  <2>2. PICK outcome \in Outcomes :
          /\ Resolve(t, outcome)
          /\ outcome = "deadline" => Late(task[t][1])
    BY <2>1, Ending
  <2>3. PICK c0 \in Call : task[t] = c0
    BY <2>1, Ending
  <2>4. c0 \in Submitted' /\ (outcome = "deadline" => Late(c0[1])')
    <3>1. c0 \in Submitted
      BY <2>1, <2>3, Ending DEF Worked
    <3>2. c0[1] \in Batch /\ pc[c0[1]] # "idle"
      BY <3>1 DEF Submitted, Call
    <3> QED
      BY <2>2, <2>3, <3>1, <3>2, SubmittedStays, LateStays
  <2>5. future' = [future EXCEPT ![c0] = [from |-> c0, as |-> outcome, at |-> now]]
    BY <2>2, <2>3 DEF Resolve
  <2>6. future'[c0].from = c0 /\ future'[c0].as = outcome
    BY <2>3, <2>5 DEF TypeOK
  <2>7. \A c \in Call : c # c0 => future'[c] = future[c]
    BY <2>5 DEF TypeOK
  <2> QED
    BY <1>1, <2>4, <2>6, <2>7 DEF Resolved
<1> QED
  BY <1>2, <1>3, StepKinds
  DEF Tick, RunBounded, Submit, SkipLate, TakeResult, TimeOut, Wait, Collect,
      Take, Acquire, StartHandler, pool

\* A set slot keeps its outcome: that call's future does not change any more.
LEMMA CollectedStays ==
  ASSUME IInv, Next, NEW b \in Batch, NEW i \in Slot, results[b][i] # NoResult
  PROVE  /\ results[b][i].from = <<b, i>>
         /\ results[b][i].as # "deadline" => future'[<<b, i>>] = results[b][i]
         /\ results[b][i].as = "deadline" => Late(b)'
<1> USE DEF IInv
<1>1. results[b][i] \in Result /\ <<b, i>> \in Call
  BY DEF TypeOK, Call
<1>2. results[b][i].from = <<b, i>>
      /\ (results[b][i].as # "deadline" => future[<<b, i>>] = results[b][i])
  BY DEF Collected, ResultsInRequestOrder
<1>3. pc[b] # "idle"
  BY DEF Collected
<1>4. results[b][i].as = "deadline" => Late(b)'
  BY <1>3, LateStays DEF Collected, DeadlineMeansLate
<1>5. results[b][i].as # "deadline" => future'[<<b, i>>] = results[b][i]
  <2>1. CASE UNCHANGED future
    BY <1>2, <2>1
  <2>2. CASE \E t \in Thread : Expire(t) \/ HandlerEnds(t)
    <3>1. PICK t \in Thread : Expire(t) \/ HandlerEnds(t)
      BY <2>2
    <3>2. PICK outcome \in Outcomes : Resolve(t, outcome)
      BY <3>1, Ending
    <3>3. future[task[t]] = NoResult
      BY <3>1, Ending DEF Worked
    <3> QED
      BY <1>1, <1>2, <3>2, <3>3 DEF Resolve, TypeOK
  <2> QED
    BY <2>1, <2>2, StepKinds
    DEF Tick, RunBounded, Submit, SkipLate, TakeResult, TimeOut, Wait, Collect,
        Take, Acquire, StartHandler, pool
<1> QED
  BY <1>2, <1>4, <1>5

\* What a batch has collected.
LEMMA CollectedStep ==
  ASSUME IInv, Next
  PROVE  Collected'
<1> USE DEF IInv
<1>1. CASE UNCHANGED results
  <2>1. \A b \in Batch : pc'[b] \in {"idle", "submit"} => pc[b] \in {"idle", "submit"}
    BY <1>1, StepKinds DEF TypeOK, Tick, RunBounded, Submit, Advance, SkipLate,
       TakeResult, TimeOut, Wait, Collect, Take, Acquire, StartHandler, Expire,
       HandlerEnds, Resolve, coordinator
  <2>2. \A b \in Batch : pc'[b] \in {"idle", "submit"} =>
          \A i \in Slot : results'[b][i] = NoResult
    BY <1>1, <2>1 DEF Collected
  <2>3. ResultsInRequestOrder'
    BY <1>1, CollectedStays DEF ResultsInRequestOrder
  <2>4. DeadlineMeansLate'
    <3> SUFFICES ASSUME NEW b \in Batch, NEW i \in Slot, results[b][i].as = "deadline"
                 PROVE  Late(b)'
      BY <1>1 DEF DeadlineMeansLate
    <3>1. results[b][i] # NoResult
      BY DEF NoResult
    <3> QED
      BY <3>1, CollectedStays
  <2> QED
    BY <2>2, <2>3, <2>4 DEF Collected
<1>2. CASE \E b \in Batch : SkipLate(b) \/ TakeResult(b) \/ TimeOut(b)
  <2>1. PICK b \in Batch : SkipLate(b) \/ TakeResult(b) \/ TimeOut(b)
    BY <1>2
  <2>2. PICK r \in Result :
          /\ Collect(b, r)
          /\ r.from = <<b, cursor[b]>>
          /\ r.as # "deadline" => future[<<b, cursor[b]>>] = r
          /\ r.as = "deadline" => Late(b)
          /\ pc[b] \in {"check", "wait"}
    BY <2>1, Collecting
  <2> DEFINE i0 == cursor[b]
  <2>3. i0 \in Slot
    BY CursorIsCall
  <2>4. results'[b][i0] = r /\ UNCHANGED <<future, now, deadline>>
    BY <2>2, <2>3 DEF Collect, TypeOK, pool
  <2>5. \A a \in Batch, i \in Slot :
          ~(a = b /\ i = i0) => results'[a][i] = results[a][i]
    BY <2>2, <2>3 DEF Collect, TypeOK
  <2>6. /\ pc'[b] \in {"check", "returned"}
        /\ \A a \in Batch : a # b => pc'[a] = pc[a]
    BY <2>2 DEF Collect, Advance, TypeOK
  <2>7. \A a \in Batch : pc'[a] \in {"idle", "submit"} =>
          \A i \in Slot : results'[a][i] = NoResult
    BY <2>5, <2>6 DEF Collected
  <2>8. ResultsInRequestOrder'
    <3> SUFFICES ASSUME NEW a \in Batch, NEW i \in Slot, results'[a][i] # NoResult
                 PROVE  /\ results'[a][i].from = <<a, i>>
                        /\ results'[a][i].as # "deadline" =>
                             future'[<<a, i>>] = results'[a][i]
      BY DEF ResultsInRequestOrder
    <3>1. CASE a = b /\ i = i0
      BY <2>2, <2>4, <3>1
    <3>2. CASE ~(a = b /\ i = i0)
      BY <2>5, <3>2, CollectedStays
    <3> QED
      BY <3>1, <3>2
  <2>9. DeadlineMeansLate'
    <3> SUFFICES ASSUME NEW a \in Batch, NEW i \in Slot,
                        results'[a][i].as = "deadline"
                 PROVE  Late(a)'
      BY DEF DeadlineMeansLate
    <3>1. CASE a = b /\ i = i0
      BY <2>2, <2>4, <3>1 DEF Late
    <3>2. CASE ~(a = b /\ i = i0)
      BY <2>4, <2>5, <3>2 DEF Collected, DeadlineMeansLate, Late
    <3> QED
      BY <3>1, <3>2
  <2> QED
    BY <2>7, <2>8, <2>9 DEF Collected
<1> QED
  BY <1>1, <1>2, StepKinds
  DEF Tick, RunBounded, Submit, Wait, Take, Acquire, StartHandler, Expire,
      HandlerEnds, Resolve, coordinator

-----------------------------------------------------------------------------
(* The theorems. *)

\* The inductive invariant holds before the first batch.
LEMMA InitInv == Init => IInv
<1> SUFFICES ASSUME Init PROVE IInv
  OBVIOUS
<1> USE SchedulerAssumption DEF Init
<1>1. TypeOK
  BY DEF TypeOK, Slot
<1>2. PermitsConserved
  <2>1. Holding = {}
    BY DEF Holding
  <2> QED
    BY <2>1, FS_EmptySet DEF PermitsConserved
<1>3. Queued /\ Worked /\ Resolved
  BY DEF Queued, Worked, Resolved, Busy
<1>4. Collected
  BY DEF Collected, ResultsInRequestOrder, DeadlineMeansLate, NoResult
<1> QED
  BY <1>1, <1>2, <1>3, <1>4 DEF IInv

\* It is kept by every step, and by steps of other parts of the program.
LEMMA StepInv == IInv /\ [Next]_vars => IInv'
<1> SUFFICES ASSUME IInv, [Next]_vars PROVE IInv'
  OBVIOUS
<1>1. CASE Next
  BY <1>1, TypeStep, PermitsStep, QueuedStep, WorkedStep, ResolvedStep, CollectedStep
  DEF IInv
<1>2. CASE UNCHANGED vars
  BY <1>2 DEF IInv, TypeOK, PermitsConserved, Holding, Queued, Worked, Busy, Resolved,
     Collected, ResultsInRequestOrder, DeadlineMeansLate, Late, Submitted, vars,
     coordinator, pool
<1> QED
  BY <1>1, <1>2

\* IInv is an invariant of run_bounded.
LEMMA Invariance == Spec => []IInv
  BY InitInv, StepInv, PTL DEF Spec

\* Every variable keeps its type; in particular the permits stay between none
\* and the initial number.
THEOREM TypeCorrect == Spec => []TypeOK
  BY Invariance, PTL DEF IInv

\* However the threads of several asks interleave, the permits that are out
\* are those of the calls between acquire and release (guarded, 128-140).
THEOREM PermitsAlwaysConserved == Spec => []PermitsConserved
  BY Invariance, PTL DEF IInv

\* The caller finds in slot i the outcome of its own i-th call or the deadline
\* error (146-157), whatever order the handlers end in.
THEOREM ResultsAlwaysInOrder == Spec => []ResultsInRequestOrder
  BY Invariance, PTL DEF IInv, Collected

\* No call is answered "deadline" before the deadline of its batch, neither by
\* the thread that dequeued it (131-132) nor by the coordinator (147-154).
THEOREM NoEarlyDeadline == Spec => []DeadlineMeansLate
  BY Invariance, PTL DEF IInv, Collected

\* A handler is not started for a call that was already answered.
LEMMA AbandonedStep ==
  ASSUME IInv, Next, NEW t \in Thread, stage[t] # "run", stage'[t] = "run"
  PROVE  results[task[t][1]][task[t][2]] = NoResult
<1> USE DEF IInv
<1>1. StartHandler(t)
  BY StepKinds DEF TypeOK, Tick, RunBounded, Submit, SkipLate, TakeResult, TimeOut,
     Wait, Collect, Take, Acquire, StartHandler, Expire, HandlerEnds, Resolve, pool
<1>2. t \in Busy /\ ~Late(task[t][1])
  BY <1>1 DEF StartHandler, Busy
<1>3. task[t] \in Call /\ future[task[t]] = NoResult
  BY <1>2 DEF Worked, Submitted
<1>4. PICK b \in Batch, i \in Slot : task[t] = <<b, i>>
  BY <1>3 DEF Call
<1>5. results[b][i].as # "deadline"
  BY <1>2, <1>4 DEF Collected, DeadlineMeansLate
<1>6. results[b][i] = NoResult
  BY <1>3, <1>4, <1>5 DEF Collected, ResultsInRequestOrder
<1> QED
  BY <1>4, <1>6

\* A call that waited in the queue or for a permit until its batch gave it up
\* never reaches its handler (131-132).
THEOREM AbandonedNeverStart == Spec => AbandonedCallsNeverStart
<1>1. IInv /\ [Next]_vars =>
        [\A t \in Thread : stage[t] # "run" /\ stage'[t] = "run" =>
           results[task[t][1]][task[t][2]] = NoResult]_vars
  BY AbandonedStep
<1> QED
  BY <1>1, Invariance, PTL DEF Spec, AbandonedCallsNeverStart

=============================================================================
