------------------------ MODULE NavMaintenanceProofs ------------------------
(***************************************************************************)
(* Proofs about NavMaintenance, for every set of workers, jobs, documents  *)
(* and edits.                                                              *)
(***************************************************************************)
EXTENDS NavMaintenance, ListFacts

Fields == {"count", "batch", "dirty", "ids", "fresh", "at"}
Places == {"idle", "erase", "discover", "groups", "customers", "insert", "find", "read", "delete", "chunk", "over"}
Kinds  == {"build", "dirty", "chunks", "rag"}

-----------------------------------------------------------------------------
(* Who is where: the control state of the workers.                         *)

\* Where the jobs of a kind may be, once started.
PlacesOf(kind) ==
  CASE kind = "build" -> {"erase", "discover", "groups", "customers", "insert"}
    [] kind = "dirty" -> {"find", "read", "delete"}
    [] OTHER          -> {"erase", "chunk", "insert"}

Fits(w) ==
  \/ /\ pc[w] \in {"idle", "over"}
     /\ job[w] = Idle /\ have[w] = Nothing /\ ~ alone[w]
  \/ /\ job[w] \in Job /\ pc[w] \in PlacesOf(job[w].kind)

Control ==
  /\ pc \in [Worker -> Places]
  /\ job \in [Worker -> Job \cup {Idle}]
  /\ alone \in [Worker -> BOOLEAN]
  /\ have = [w \in Worker |-> have[w]]
  /\ \A w \in Worker : DOMAIN have[w] = Fields
  /\ \A w \in Worker : Fits(w)
  /\ \A w \in Worker : alone[w] => Running \subseteq {w}

\* A step of a running worker: it goes on within its kind, or is over.
Moves(w) ==
  /\ w \in Running
  /\ \E where, had : /\ Goto(w, where, had) /\ DOMAIN had = Fields
                     /\ where \in Over \cup PlacesOf(job[w].kind)

LEMMA KindsAre == \A j \in Job : j.kind \in Kinds
BY JobAssumption DEF Kinds

LEMMA IdleIs == Idle.kind = "none" /\ DOMAIN Nothing = Fields
BY DEF Idle, Nothing, Fields

\* Where a worker is says what its job is.
LEMMA WhereItIs ==
  ASSUME Control, NEW w \in Worker
  PROVE  /\ pc[w] \in {"discover", "groups", "customers"} => job[w] \in Job /\ job[w].kind = "build"
         /\ pc[w] \in {"find", "read", "delete"} => job[w] \in Job /\ job[w].kind = "dirty"
         /\ pc[w] = "chunk" => job[w] \in Job /\ job[w].kind \in {"chunks", "rag"}
         /\ pc[w] \in {"erase", "insert"} => job[w] \in Job /\ job[w].kind \in {"build", "chunks", "rag"}
         /\ pc[w] \notin {"idle", "over"} => w \in Running
BY KindsAre DEF Control, Fits, PlacesOf, Kinds, Running

\* Every step of a worker but its start is a move.
LEMMA StepMoves ==
  ASSUME Control, NEW w \in Worker, Step(w)
  PROVE  Start(w) \/ Moves(w)
<1>1. /\ DOMAIN have[w] = Fields /\ DOMAIN Nothing = Fields
  BY IdleIs DEF Control
<1> DEFINE Far(where, had) == /\ Goto(w, where, had) /\ DOMAIN had = Fields
                              /\ where \in Over \cup PlacesOf(job[w].kind)
<1>2. ASSUME NEW where, NEW had, Far(where, had), w \in Running PROVE Moves(w)
  BY <1>2 DEF Moves
<1>3. /\ pc[w] \in {"discover", "groups", "customers"} => job[w].kind = "build"
      /\ pc[w] \in {"find", "read", "delete"} => job[w].kind = "dirty"
      /\ pc[w] = "chunk" => job[w].kind \in {"chunks", "rag"}
      /\ pc[w] \in {"erase", "insert"} => job[w].kind \in {"build", "chunks", "rag"}
      /\ pc[w] \notin {"idle", "over"} => w \in Running
  BY WhereItIs
<1>4. CASE Crash(w)
  <2>1. Goto(w, "crashed", Nothing) /\ w \in Running /\ "crashed" \in Over
    BY <1>4 DEF Crash, Over
  <2>2. Far("crashed", Nothing)
    BY <1>1, <2>1
  <2> QED
    BY <1>2, <2>1, <2>2
<1>5. CASE EraseTree(w)
  <2>1. Goto(w, "discover", have[w]) /\ w \in Running /\ job[w].kind = "build"
    BY <1>3, <1>5 DEF EraseTree, Build
  <2>2. Far("discover", have[w])
    BY <1>1, <2>1 DEF PlacesOf
  <2> QED
    BY <1>2, <2>1, <2>2
<1>6. CASE Discover(w)
  <2>0. PICK last, count, where, had :
          /\ last = (have[w].at = Len(job[w].collections))
          /\ count = Append(have[w].count, Len(source[Column(w)]))
          /\ where = (IF last THEN "groups" ELSE "discover")
          /\ had = [have[w] EXCEPT !.count = count, !.at = IF last THEN 1 ELSE @ + 1,
                                  !.batch = IF last THEN <<DbNode(job[w], count)>> ELSE @]
    OBVIOUS
  <2>1. /\ Goto(w, where, had) /\ where \in {"groups", "discover"} /\ DOMAIN had = DOMAIN have[w]
    <3>1. Goto(w, where, had)
      BY <1>6, <2>0 DEF Discover
    <3> QED
      BY <2>0, <3>1
  <2>2. w \in Running /\ job[w].kind = "build"
    BY <1>3, <1>6 DEF Discover
  <2>3. Far(where, had)
    BY <1>1, <2>1, <2>2 DEF PlacesOf
  <2> QED
    BY <1>2, <2>2, <2>3
<1>7. ASSUME NEW batch, NextColumn(w, batch), w \in Running, job[w].kind = "build" PROVE Moves(w)
  <2>0. PICK last, where, had :
          /\ last = (have[w].at = Len(job[w].collections))
          /\ where = (IF last THEN "insert" ELSE "groups")
          /\ had = [have[w] EXCEPT !.batch = batch, !.at = IF last THEN 1 ELSE @ + 1]
    OBVIOUS
  <2>1. /\ Goto(w, where, had) /\ where \in {"groups", "insert"} /\ DOMAIN had = DOMAIN have[w]
    <3>1. Goto(w, where, had)
      BY <1>7, <2>0 DEF NextColumn
    <3> QED
      BY <2>0, <3>1
  <2>2. Far(where, had)
    BY <1>1, <1>7, <2>1 DEF PlacesOf
  <2> QED
    BY <1>2, <1>7, <2>2
<1>8. CASE Collect(w)
  <2>1. w \in Running /\ job[w].kind = "build"
    BY <1>3, <1>8 DEF Collect
  <2>2. PICK batch : \/ Goto(w, "customers", [have[w] EXCEPT !.batch = batch])
                     \/ NextColumn(w, batch)
    BY <1>8 DEF Collect
  <2>3. ASSUME Goto(w, "customers", [have[w] EXCEPT !.batch = batch]) PROVE Moves(w)
    <3>1. Far("customers", [have[w] EXCEPT !.batch = batch])
      BY <1>1, <2>1, <2>3 DEF PlacesOf
    <3> QED
      BY <1>2, <2>1, <3>1
  <2> QED
    BY <1>7, <2>1, <2>2, <2>3
<1>9. CASE Customers(w)
  <2>1. w \in Running /\ job[w].kind = "build"
    BY <1>3, <1>9 DEF Customers
  <2>2. PICK batch : NextColumn(w, batch)
    BY <1>9 DEF Customers
  <2> QED
    BY <1>7, <2>1, <2>2
<1>10. CASE InsertNode(w)
  <2>1. PICK where, had : /\ Goto(w, where, had) /\ where \in {"raised", "done", "insert"} /\ DOMAIN had = DOMAIN have[w]
    BY <1>10 DEF InsertNode
  <2>2. w \in Running /\ job[w].kind = "build"
    BY <1>3, <1>10 DEF InsertNode, Build
  <2>3. Far(where, had)
    BY <1>1, <2>1, <2>2 DEF PlacesOf, Over
  <2> QED
    BY <1>2, <2>2, <2>3
<1>11. CASE FindDirty(w)
  <2>0. PICK dirty, had :
          /\ dirty = Touching(job[w].tenant, job[w].changed)
          /\ had = [have[w] EXCEPT !.dirty = dirty, !.ids = Members(dirty, job[w].changed)]
    OBVIOUS
  <2>1. Goto(w, "read", had) /\ DOMAIN had = DOMAIN have[w]
    <3>1. Goto(w, "read", had)
      BY <1>11, <2>0 DEF FindDirty
    <3> QED
      BY <2>0, <3>1
  <2>2. w \in Running /\ job[w].kind = "dirty"
    BY <1>3, <1>11 DEF FindDirty
  <2>3. Far("read", had)
    BY <1>1, <2>1, <2>2 DEF PlacesOf
  <2> QED
    BY <1>2, <2>2, <2>3
<1>12. CASE ReadMembers(w)
  <2>1. PICK where, had : Goto(w, where, had) /\ where \in {"done", "delete"} /\ DOMAIN had = DOMAIN have[w]
    BY <1>12 DEF ReadMembers
  <2>2. w \in Running /\ job[w].kind = "dirty"
    BY <1>3, <1>12 DEF ReadMembers
  <2>3. Far(where, had)
    BY <1>1, <2>1, <2>2 DEF PlacesOf, Over
  <2> QED
    BY <1>2, <2>2, <2>3
<1>13. CASE DeleteDirty(w)
  <2>1. PICK where, had : Goto(w, where, had) /\ where \in {"done", "delete"} /\ DOMAIN had = DOMAIN have[w]
    BY <1>13 DEF DeleteDirty
  <2>2. w \in Running /\ job[w].kind = "dirty"
    BY <1>3, <1>13 DEF DeleteDirty
  <2>3. Far(where, had)
    BY <1>1, <2>1, <2>2 DEF PlacesOf, Over
  <2> QED
    BY <1>2, <2>2, <2>3
<1>14. CASE EraseChunks(w)
  <2>1. Goto(w, "chunk", have[w]) /\ w \in Running /\ job[w].kind \in {"chunks", "rag"}
    BY <1>3, <1>14 DEF EraseChunks, Build
  <2>2. Far("chunk", have[w])
    BY <1>1, <2>1 DEF PlacesOf
  <2> QED
    BY <1>2, <2>1, <2>2
<1>15. CASE Chunk(w)
  <2>1. PICK where, had : Goto(w, where, had) /\ where \in {"done", "insert"} /\ DOMAIN had = DOMAIN have[w]
    BY <1>15 DEF Chunk
  <2>2. w \in Running /\ job[w].kind \in {"chunks", "rag"}
    BY <1>3, <1>15 DEF Chunk
  <2>3. Far(where, had)
    BY <1>1, <2>1, <2>2 DEF PlacesOf, Over
  <2> QED
    BY <1>2, <2>2, <2>3
<1>16. CASE InsertChunk(w)
  <2>1. PICK where, had : Goto(w, where, had) /\ where \in {"done", "insert"} /\ DOMAIN had = DOMAIN have[w]
    BY <1>16 DEF InsertChunk
  <2>2. w \in Running /\ job[w].kind \in {"chunks", "rag"}
    BY <1>3, <1>16 DEF InsertChunk, Build
  <2>3. Far(where, had)
    BY <1>1, <2>1, <2>2 DEF PlacesOf, Over
  <2> QED
    BY <1>2, <2>2, <2>3
<1> QED
  BY <1>4, <1>5, <1>6, <1>8, <1>9, <1>10, <1>11, <1>12, <1>13, <1>14, <1>15, <1>16 DEF Step

LEMMA ControlInit ==
  ASSUME Init
  PROVE  Control
BY IdleIs DEF Init, Control, Fits, Places, Running, Over

\* What starting does to the control state.
LEMMA StartControl ==
  ASSUME Control, NEW w \in Worker, Start(w)
  PROVE  Control'
<1>1. PICK j \in Job : /\ job' = [job EXCEPT ![w] = j]
                       /\ pc' = [pc EXCEPT ![w] = IF j.kind = "dirty" THEN "find" ELSE "erase"]
  BY DEF Start
<1>2. alone' = [v \in Worker |-> v = w /\ Running = {}] /\ have' = have
  BY DEF Start
<1>3. pc'[w] \in PlacesOf(j.kind) /\ pc'[w] \in Places /\ pc'[w] \notin {"idle", "over"}
  BY <1>1, KindsAre DEF PlacesOf, Places, Kinds, Control
<1>4. /\ pc' \in [Worker -> Places] /\ job' \in [Worker -> Job \cup {Idle}]
      /\ alone' \in [Worker -> BOOLEAN]
      /\ have' = [v \in Worker |-> have'[v]] /\ \A v \in Worker : DOMAIN have'[v] = Fields
  BY <1>1, <1>2, <1>3 DEF Control
<1>5. ASSUME NEW v \in Worker PROVE Fits(v)'
  <2>1. CASE v = w
    BY <1>1, <1>3, <2>1 DEF Fits, Control
  <2>2. CASE v # w
    <3>1. pc'[v] = pc[v] /\ job'[v] = job[v] /\ have'[v] = have[v] /\ ~ alone'[v]
      BY <1>1, <1>2, <2>2 DEF Control
    <3> QED
      BY <3>1 DEF Fits, Control
  <2> QED
    BY <2>1, <2>2
<1>6. ASSUME NEW v \in Worker, alone'[v] PROVE Running' \subseteq {v}
  <2>1. v = w /\ Running = {}
    BY <1>2, <1>6
  <2>2. \A u \in Worker : u # w => pc'[u] = pc[u]
    BY <1>1 DEF Control
  <2> QED
    BY <2>1, <2>2 DEF Running
<1> QED
  BY <1>4, <1>5, <1>6 DEF Control

\* What a move does to it.
LEMMA MoveControl ==
  ASSUME Control, NEW w \in Worker, Moves(w)
  PROVE  Control'
<1>1. PICK where, had : /\ Goto(w, where, had) /\ DOMAIN had = Fields
                        /\ where \in Over \cup PlacesOf(job[w].kind)
  BY DEF Moves
<1>2. w \in Running /\ job[w] \in Job
  BY DEF Moves, Control, Fits, Running
<1>3. /\ pc' = [pc EXCEPT ![w] = IF where \in Over THEN "over" ELSE where]
      /\ job' = [job EXCEPT ![w] = IF where \in Over THEN Idle ELSE @]
      /\ have' = [have EXCEPT ![w] = IF where \in Over THEN Nothing ELSE had]
      /\ alone' = [alone EXCEPT ![w] = @ /\ where \notin Over]
  BY <1>1 DEF Goto
<1>4. where \in Over \/ (where \notin Over /\ where \in PlacesOf(job[w].kind) /\ where \in Places)
  BY <1>1, <1>2, KindsAre DEF PlacesOf, Places, Kinds
<1>5. /\ pc'[w] = (IF where \in Over THEN "over" ELSE where)
      /\ job'[w] = (IF where \in Over THEN Idle ELSE job[w])
      /\ have'[w] = (IF where \in Over THEN Nothing ELSE had)
      /\ alone'[w] = (alone[w] /\ where \notin Over)
  BY <1>3 DEF Control
<1>6. \A v \in Worker : v # w => pc'[v] = pc[v] /\ job'[v] = job[v] /\ have'[v] = have[v] /\ alone'[v] = alone[v]
  BY <1>3 DEF Control
<1>7. /\ pc' \in [Worker -> Places] /\ job' \in [Worker -> Job \cup {Idle}]
      /\ alone' \in [Worker -> BOOLEAN]
      /\ have' = [v \in Worker |-> have'[v]] /\ \A v \in Worker : DOMAIN have'[v] = Fields
  BY <1>1, <1>2, <1>3, <1>4, <1>5, <1>6, IdleIs DEF Control, Places
<1>8. ASSUME NEW v \in Worker PROVE Fits(v)'
  <2>1. CASE v = w
    BY <1>2, <1>4, <1>5, <2>1 DEF Fits
  <2>2. CASE v # w
    BY <1>6, <2>2 DEF Fits, Control
  <2> QED
    BY <2>1, <2>2
<1>9. Running' \subseteq Running
  BY <1>2, <1>6 DEF Running
<1>10. ASSUME NEW v \in Worker, alone'[v] PROVE Running' \subseteq {v}
  BY <1>5, <1>6, <1>9, <1>10 DEF Control
<1> QED
  BY <1>7, <1>8, <1>10 DEF Control

LEMMA ControlNext ==
  ASSUME Control, [Next]_vars
  PROVE  Control'
<1>1. CASE EditSource
  BY <1>1 DEF EditSource, Control, Fits, Running
<1>2. ASSUME NEW w \in Worker, Step(w) PROVE Control'
  BY <1>2, StepMoves, StartControl, MoveControl
<1>3. CASE UNCHANGED vars
  BY <1>3 DEF vars, worker, Control, Fits, Running
<1> QED
  BY <1>1, <1>2, <1>3 DEF Next

\* Only the steps of a worker that is alone matter to what it does alone.
LEMMA AloneSteps ==
  ASSUME Control, Next, NEW v \in Worker, alone'[v]
  PROVE  Step(v) /\ (Start(v) \/ alone[v])
<1>1. ~ EditSource
  <2>1. SUFFICES ASSUME EditSource PROVE FALSE
    OBVIOUS
  <2>2. alone' = [w \in Worker |-> FALSE]
    BY <2>1 DEF EditSource
  <2> QED
    BY <2>2
<1>2. PICK w \in Worker : Step(w)
  BY <1>1 DEF Next
<1>3. CASE Start(w)
  <2>1. alone' = [u \in Worker |-> u = w /\ Running = {}]
    BY <1>3 DEF Start
  <2>2. v = w
    BY <2>1
  <2> QED
    BY <1>2, <1>3, <2>2
<1>4. CASE Moves(w)
  <2>1. PICK where, had : Goto(w, where, had)
    BY <1>4 DEF Moves
  <2>2. alone[v]
    BY <2>1 DEF Goto, Control
  <2>3. w = v
    BY <1>4, <2>2 DEF Moves, Control
  <2> QED
    BY <1>2, <2>2, <2>3
<1> QED
  BY <1>2, <1>3, <1>4, StepMoves

-----------------------------------------------------------------------------
(* The documents: a list with unique ids in every collection.              *)

Listing(s) ==
  /\ IsList(s) /\ ToSet(s) \subseteq Document
  /\ \A i, k \in DOMAIN s : s[i]._id = s[k]._id => i = k

Documents ==
  /\ edits \in 0 .. MaxEdits
  /\ source = [c \in DOMAIN Source |-> source[c]]
  /\ \A c \in DOMAIN Source : Listing(source[c]) /\ Len(source[c]) <= Len(Source[c]) + edits

\* A list of some documents of a collection.
LEMMA ListingPicked ==
  ASSUME NEW s, Listing(s), NEW I \in SUBSET (DOMAIN s)
  PROVE  /\ Listing(Picked(s, I)) /\ ToSet(Picked(s, I)) = {s[i] : i \in I}
         /\ Len(Picked(s, I)) <= Len(s)
<1>1. IsList(s)
  BY DEF Listing
<1>2. PICK n \in Nat : n = Len(s) /\ DOMAIN s = 1 .. n
  BY <1>1, ListIs
<1>3. PICK t : t = Picked(s, I)
  OBVIOUS
<1>4. PICK m \in Nat : m = Len(t) /\ DOMAIN t = 1 .. m /\ m = Cardinality(I) /\ IsList(t)
  BY <1>1, <1>3, PickedIs, ListIs
<1>5. PICK p \in [1 .. m -> I] : /\ \A k \in 1 .. m : t[k] = s[p[k]]
                                 /\ \A k, l \in 1 .. m : k < l => p[k] < p[l]
  BY <1>1, <1>3, <1>4, PickedIs
<1>6. ToSet(t) = {s[i] : i \in I}
  BY <1>1, <1>3, PickedSet
<1>7. ToSet(t) \subseteq Document
  BY <1>6 DEF Listing, ToSet
<1>8. ASSUME NEW k \in 1 .. m, NEW l \in 1 .. m, t[k]._id = t[l]._id PROVE k = l
  <2>1. p[k] \in DOMAIN s /\ p[l] \in DOMAIN s /\ p[k] \in Nat
    BY <1>2, <1>5
  <2>2. s[p[k]]._id = s[p[l]]._id
    BY <1>5, <1>8
  <2>3. p[k] = p[l]
    BY <2>1, <2>2 DEF Listing
  <2>4. ~ (k < l) /\ ~ (l < k)
    BY <1>5, <2>1, <2>3
  <2> QED
    BY <1>4, <2>4
<1>9. m <= n
  <2>0. n \in Nat
    BY <1>2
  <2>1. IsFiniteSet(1 .. n) /\ Cardinality(1 .. n) = n
    BY <2>0, FS_Interval
  <2>2. I \in SUBSET (1 .. n)
    BY <1>2
  <2>3. Cardinality(I) <= Cardinality(1 .. n)
    BY <2>1, <2>2, FS_Subset
  <2> QED
    BY <1>4, <2>1, <2>3
<1> QED
  BY <1>2, <1>3, <1>4, <1>6, <1>7, <1>8, <1>9 DEF Listing

LEMMA ListingAppended ==
  ASSUME NEW s, Listing(s), NEW d \in Document, \A i \in DOMAIN s : s[i]._id # d._id
  PROVE  Listing(Append(s, d)) /\ Len(Append(s, d)) = Len(s) + 1
<1>1. IsList(s)
  BY DEF Listing
<1>2. PICK n \in Nat : n = Len(s) /\ DOMAIN s = 1 .. n
  BY <1>1, ListIs
<1>3. PICK t : t = Append(s, d)
  OBVIOUS
<1>4. IsList(t) /\ Len(t) = n + 1 /\ t[n + 1] = d /\ \A i \in 1 .. n : t[i] = s[i]
  BY <1>1, <1>2, <1>3, Appended
<1>5. DOMAIN t = 1 .. n + 1
  BY <1>4, ListIs
<1>6. \A i \in 1 .. n + 1 : i \in 1 .. n \/ i = n + 1
  BY <1>2
<1>7. ToSet(t) \subseteq Document
  BY <1>2, <1>4, <1>5, <1>6 DEF Listing, ToSet
<1>8. \A i, k \in DOMAIN t : t[i]._id = t[k]._id => i = k
  BY <1>2, <1>4, <1>5, <1>6 DEF Listing
<1> QED
  BY <1>2, <1>3, <1>4, <1>7, <1>8 DEF Listing

LEMMA ListingReplaced ==
  ASSUME NEW s, Listing(s), NEW d \in Document, NEW at \in DOMAIN s, s[at]._id = d._id
  PROVE  Listing(ReplaceAt(s, at, d)) /\ Len(ReplaceAt(s, at, d)) = Len(s)
<1>1. IsList(s)
  BY DEF Listing
<1>2. PICK n \in Nat : n = Len(s) /\ DOMAIN s = 1 .. n /\ s = [i \in 1 .. n |-> s[i]]
  BY <1>1, ListIs
<1>3. PICK t : t = ReplaceAt(s, at, d)
  OBVIOUS
<1>4. t = [s EXCEPT ![at] = d]
  BY <1>3 DEF ReplaceAt
<1>5. t = [i \in 1 .. n |-> t[i]]
  BY <1>2, <1>4
<1>6. IsList(t) /\ Len(t) = n /\ DOMAIN t = 1 .. n
  BY <1>2, <1>5, ListOf
<1>7. \A i \in 1 .. n : t[i] = IF i = at THEN d ELSE s[i]
  BY <1>2, <1>4
<1>8. \A i \in 1 .. n : t[i]._id = s[i]._id /\ t[i] \in Document
  <2>1. \A i \in 1 .. n : s[i] \in Document
    BY <1>2 DEF Listing, ToSet
  <2> QED
    BY <1>7, <2>1
<1>9. ToSet(t) \subseteq Document
  BY <1>6, <1>8 DEF ToSet
<1>10. \A i, k \in DOMAIN t : t[i]._id = t[k]._id => i = k
  BY <1>2, <1>6, <1>8 DEF Listing
<1> QED
  BY <1>2, <1>3, <1>6, <1>9, <1>10 DEF Listing

LEMMA DocumentsInit ==
  ASSUME Init
  PROVE  Documents
<1>1. ASSUME NEW c \in DOMAIN Source PROVE Listing(Source[c]) /\ Len(Source[c]) <= Len(Source[c]) + 0
  <2>1. ToSet(Source[c]) \subseteq Document
    BY DEF Document, Given
  <2>2. Len(Source[c]) \in Nat
    BY DocumentAssumption, ListIs
  <2> QED
    BY <2>1, <2>2, DocumentAssumption DEF Listing
<1>2. edits = 0 /\ source = Source /\ source = [c \in DOMAIN Source |-> source[c]]
  <2>1. edits = 0 /\ source = Source
    BY DEF Init
  <2>2. Source = [c \in DOMAIN Source |-> Source[c]]
    BY DocumentAssumption
  <2> QED
    BY <2>1, <2>2
<1> QED
  BY <1>1, <1>2, MaintenanceAssumption DEF Documents

LEMMA DocumentsNext ==
  ASSUME Documents, Control, [Next]_vars
  PROVE  Documents'
<1>1. CASE EditSource
  <2>1. PICK e \in Edit :
          source' = [source EXCEPT ![e.coll] = Edited(@, e)]
    BY <1>1 DEF EditSource
  <2>2. PICK s, id, I : s = source[e.coll] /\ id = e.doc._id /\ I = {i \in 1 .. Len(s) : s[i]._id = id}
    OBVIOUS
  <2>3. e.coll \in DOMAIN Source /\ e.doc \in Document
    <3>1. e.doc \in {x.doc : x \in Edit}
      OBVIOUS
    <3>2. e.doc \in Document
      BY <3>1 DEF Document
    <3> QED
      BY <3>2, DocumentAssumption
  <2>4. Listing(s) /\ Len(s) <= Len(Source[e.coll]) + edits /\ Len(Source[e.coll]) \in Nat
    BY <2>2, <2>3, DocumentAssumption, ListIs DEF Documents
  <2>5. Len(s) \in Nat /\ DOMAIN s = 1 .. Len(s)
    BY <2>4, ListIs DEF Listing
  <2>6. edits \in 0 .. MaxEdits /\ edits < MaxEdits /\ edits' = edits + 1
    BY <1>1 DEF EditSource, Documents
  <2>7. PICK t : t = source'[e.coll]
    OBVIOUS
  <2>8. t = Edited(s, e)
    BY <2>1, <2>2, <2>3, <2>7 DEF Documents
  <2>9. \/ t = Without(s, id)
        \/ I = {} /\ t = Append(s, e.doc)
        \/ I # {} /\ t = ReplaceAt(s, Min(I), e.doc)
    <3>1. PICK at : at = SelectInSeq(s, LAMBDA d : d._id = e.doc._id)
      OBVIOUS
    <3>2. at = IF I # {} THEN Min(I) ELSE 0
      BY <2>2, <3>1 DEF SelectInSeq
    <3>4. t = IF e.drop THEN Without(s, e.doc._id)
              ELSE IF at = 0 THEN Append(s, e.doc) ELSE ReplaceAt(s, at, e.doc)
      BY <2>8, <3>1 DEF Edited
    <3>3. I # {} => at # 0
      <4>1. I \subseteq Nat /\ 0 \notin I
        BY <2>2, <2>5
      <4> QED
        BY <3>2, <4>1, MinIs
    <3> QED
      BY <2>2, <3>2, <3>3, <3>4
  <2>10. Listing(t) /\ Len(t) <= Len(s) + 1
    <3>1. CASE t = Without(s, id)
      <4>1. PICK J \in SUBSET (DOMAIN s) : t = Picked(s, J)
        BY <3>1 DEF Without, Filter
      <4>2. Listing(t) /\ Len(t) <= Len(s)
        BY <2>4, <4>1, ListingPicked
      <4>3. Len(t) \in Nat
        BY <4>2, ListIs DEF Listing
      <4> QED
        BY <2>5, <4>2, <4>3
    <3>2. CASE I = {} /\ t = Append(s, e.doc)
      <4>1. \A i \in DOMAIN s : s[i]._id # e.doc._id
        BY <2>2, <2>5, <3>2
      <4> QED
        BY <2>3, <2>4, <2>5, <3>2, <4>1, ListingAppended
    <3>3. CASE I # {} /\ t = ReplaceAt(s, Min(I), e.doc)
      <4>0. I \in SUBSET Nat
        BY <2>2, <2>5
      <4>1. Min(I) \in I
        BY <3>3, <4>0, MinIs
      <4>2. Min(I) \in DOMAIN s /\ s[Min(I)]._id = e.doc._id
        BY <2>2, <2>5, <4>1
      <4> QED
        BY <2>3, <2>4, <2>5, <3>3, <4>2, ListingReplaced
    <3> QED
      BY <2>9, <3>1, <3>2, <3>3
  <2>11. \A c \in DOMAIN Source : c # e.coll => source'[c] = source[c]
    BY <2>1, <2>3 DEF Documents
  <2>12. source' = [c \in DOMAIN Source |-> source'[c]]
    BY <2>1, <2>3 DEF Documents
  <2>13. ASSUME NEW c \in DOMAIN Source
         PROVE  Listing(source'[c]) /\ Len(source'[c]) <= Len(Source[c]) + edits'
    <3>1. CASE c = e.coll
      <4>1. Len(t) \in Nat
        BY <2>10, ListIs DEF Listing
      <4>2. Len(t) <= Len(Source[e.coll]) + (edits + 1)
        <5>1. edits \in Nat
          BY <2>6, MaintenanceAssumption
        <5> QED
          <6>1. PICK a, b, c1 : a = Len(t) /\ b = Len(s) /\ c1 = Len(Source[e.coll])
            OBVIOUS
          <6>2. a \in Nat /\ b \in Nat /\ c1 \in Nat /\ a <= b + 1 /\ b <= c1 + edits
            BY <2>4, <2>5, <2>10, <4>1, <6>1
          <6>3. a <= c1 + (edits + 1)
            BY <5>1, <6>2
          <6> QED
            BY <6>1, <6>3
      <4> QED
        BY <2>6, <2>7, <2>10, <3>1, <4>2
    <3>2. CASE c # e.coll
      <4>1. Listing(source[c]) /\ Len(source[c]) <= Len(Source[c]) + edits
        BY DEF Documents
      <4>2. Len(source[c]) \in Nat /\ Len(Source[c]) \in Nat
        BY <4>1, DocumentAssumption, ListIs DEF Listing
      <4> QED
        BY <2>6, <2>11, <3>2, <4>1, <4>2
    <3> QED
      BY <3>1, <3>2
  <2>14. edits' \in 0 .. MaxEdits
    BY <2>6, MaintenanceAssumption
  <2> QED
    BY <2>12, <2>13, <2>14 DEF Documents
<1>2. CASE UNCHANGED <<source, edits>>
  BY <1>2 DEF Documents
<1>3. ASSUME NEW w \in Worker, Step(w) PROVE UNCHANGED <<source, edits>>
  <2>1. CASE Start(w)
    BY <2>1 DEF Start
  <2>2. CASE Moves(w)
    <3>1. PICK where, had : Goto(w, where, had)
      BY <2>2 DEF Moves
    <3> QED
      BY <3>1 DEF Goto
  <2> QED
    BY <1>3, <2>1, <2>2, StepMoves
<1>4. CASE UNCHANGED vars
  BY <1>4 DEF vars, Documents
<1> QED
  BY <1>1, <1>2, <1>3, <1>4 DEF Next

-----------------------------------------------------------------------------
(* The pieces of a text.                                                   *)

\* From start on: the first piece, and those that g has from where the next begins.
End(n, start) == Smaller(n, start + ChunkSize)
Resumes(n, start) == Larger(End(n, start) - ChunkOverlap, start + 1)
FirstPiece(n, g, start) ==
  IF start = n THEN <<>>
  ELSE <<<<start, End(n, start)>>>> \o (IF End(n, start) = n THEN <<>> ELSE g[Resumes(n, start)])
Chopping(n, low, g) == g = [start \in low .. n |-> FirstPiece(n, g, start)]

\* A list of different pieces that cover a text from low to its end at n.
Chopped(u, low, n) ==
  /\ IsList(u) /\ Distinct(u)
  /\ \A x \in ToSet(u) : x[1] \in low .. n - 1
  /\ \A p \in low .. n - 1 : \E x \in ToSet(u) : x[1] <= p /\ p < x[2]

LEMMA Resuming ==
  ASSUME NEW n \in Nat, NEW start \in 0 .. n, start # n
  PROVE  /\ End(n, start) \in start + 1 .. n
         /\ End(n, start) # n => Resumes(n, start) \in start + 1 .. End(n, start) /\ Resumes(n, start) \in 0 .. n
BY MaintenanceAssumption DEF End, Resumes, Smaller, Larger

LEMMA ChoppingExists ==
  ASSUME NEW n \in Nat
  PROVE  \E g : Chopping(n, 0, g)
<1>1. PICK P : P = {m \in Nat : m <= n => \E g : Chopping(n, n - m, g)}
  OBVIOUS
<1>2. 0 \in P
  <2>1. PICK g : g = [start \in n .. n |-> <<>>]
    OBVIOUS
  <2>2. \A start \in n .. n : g[start] = FirstPiece(n, g, start)
    BY <2>1 DEF FirstPiece
  <2>3. g = [start \in n .. n |-> FirstPiece(n, g, start)]
    BY <2>1, <2>2
  <2>4. n - 0 = n
    OBVIOUS
  <2> QED
    BY <1>1, <2>3, <2>4 DEF Chopping
<1>3. ASSUME NEW m \in P PROVE m + 1 \in P
  <2>0. m \in Nat
    BY <1>1
  <2>1. SUFFICES ASSUME m + 1 <= n PROVE \E h : Chopping(n, n - (m + 1), h)
    BY <1>1, <2>0
  <2>2. PICK low : low = n - (m + 1)
    OBVIOUS
  <2>3. low \in 0 .. n /\ n - m = low + 1 /\ m <= n /\ low # n
    BY <2>0, <2>1, <2>2
  <2>4. PICK g : Chopping(n, low + 1, g)
    BY <1>1, <2>3
  <2>5. g = [start \in low + 1 .. n |-> FirstPiece(n, g, start)]
    BY <2>4 DEF Chopping
  <2>6. PICK h : h = [start \in low .. n |-> IF start = low THEN FirstPiece(n, g, start) ELSE g[start]]
    OBVIOUS
  <2>7. \A start \in low + 1 .. n : h[start] = g[start]
    BY <2>3, <2>6
  <2>8. ASSUME NEW start \in low .. n PROVE FirstPiece(n, h, start) = FirstPiece(n, g, start)
    <3>1. CASE start = n
      BY <3>1 DEF FirstPiece
    <3>2. CASE start # n
      <4>1. start \in 0 .. n
        BY <2>3
      <4>2. End(n, start) # n => Resumes(n, start) \in low + 1 .. n
        <5>1. SUFFICES ASSUME End(n, start) # n PROVE Resumes(n, start) \in low + 1 .. n
          OBVIOUS
        <5>2. Resumes(n, start) \in start + 1 .. End(n, start) /\ Resumes(n, start) \in 0 .. n
          BY <3>2, <4>1, <5>1, Resuming
        <5>3. Resumes(n, start) >= start + 1
          BY <5>2
        <5> QED
          BY <2>3, <5>2, <5>3
      <4> QED
        BY <2>7, <4>2 DEF FirstPiece
    <3> QED
      BY <3>1, <3>2
  <2>9. ASSUME NEW start \in low .. n PROVE h[start] = FirstPiece(n, h, start)
    <3>1. CASE start = low
      BY <2>6, <2>8, <3>1
    <3>2. CASE start # low
      <4>1. start \in low + 1 .. n
        BY <2>3, <3>2
      <4>2. g[start] = FirstPiece(n, g, start)
        BY <2>5, <4>1
      <4> QED
        BY <2>7, <2>8, <4>1, <4>2
    <3> QED
      BY <3>1, <3>2
  <2>10. h = [start \in low .. n |-> FirstPiece(n, h, start)]
    BY <2>6, <2>9
  <2> QED
    BY <2>2, <2>10 DEF Chopping
<1>4. n \in P
  BY <1>1, <1>2, <1>3, Induction
<1>5. n - n = 0
  OBVIOUS
<1> QED
  BY <1>1, <1>4, <1>5

\* chunk_text gives different pieces that cover the whole text.
LEMMA IntervalsCover ==
  ASSUME NEW n \in Nat
  PROVE  Chopped(Intervals(n), 0, n)
<1>1. PICK f : f = CHOOSE from : from = [start \in 0 .. n |->
          LET end == Smaller(n, start + ChunkSize)
          IN  IF start = n THEN <<>>
              ELSE <<<<start, end>>>> \o (IF end = n THEN <<>> ELSE from[Larger(end - ChunkOverlap, start + 1)])]
  OBVIOUS
<1>2. Intervals(n) = f[0]
  BY <1>1 DEF Intervals
<1>3. f = CHOOSE g : g = [start \in 0 .. n |-> FirstPiece(n, g, start)]
  BY <1>1 DEF FirstPiece, End, Resumes
<1>4. f = [start \in 0 .. n |-> FirstPiece(n, f, start)]
  <2>1. \E g : g = [start \in 0 .. n |-> FirstPiece(n, g, start)]
    BY ChoppingExists DEF Chopping
  <2> QED
    BY <1>3, <2>1
<1>5. PICK P : P = {m \in Nat : \A start \in 0 .. n : n - start <= m => Chopped(f[start], start, n)}
  OBVIOUS
<1>6. Chopped(f[n], n, n)
  <2>1. f[n] = <<>>
    BY <1>4 DEF FirstPiece
  <2>2. ToSet(<<>>) = {} /\ Distinct(<<>>) /\ IsList(<<>>)
    BY EmptyIsList DEF ToSet, Distinct
  <2>3. n .. n - 1 = {}
    OBVIOUS
  <2> QED
    BY <2>1, <2>2, <2>3 DEF Chopped
<1>7. 0 \in P
  <2>1. \A start \in 0 .. n : n - start <= 0 => start = n
    OBVIOUS
  <2> QED
    BY <1>5, <1>6, <2>1
<1>8. ASSUME NEW m \in P PROVE m + 1 \in P
  <2>0. m \in Nat
    BY <1>5
  <2>1. SUFFICES ASSUME NEW start \in 0 .. n, n - start <= m + 1, start # n PROVE Chopped(f[start], start, n)
    BY <1>5, <1>6, <2>0
  <2>2. PICK end, next, first : end = End(n, start) /\ next = Resumes(n, start) /\ first = <<start, end>>
    OBVIOUS
  <2>3. /\ end \in start + 1 .. n
        /\ end # n => next \in start + 1 .. end /\ next \in 0 .. n
    BY <2>1, <2>2, Resuming
  <2>4. PICK rest : rest = IF end = n THEN <<>> ELSE f[next]
    OBVIOUS
  <2>5. f[start] = <<first>> \o rest
    BY <1>4, <2>1, <2>2, <2>4 DEF FirstPiece
  <2>6. /\ IsList(rest) /\ Distinct(rest)
        /\ \A x \in ToSet(rest) : x[1] \in start + 1 .. n - 1
        /\ \A p \in end .. n - 1 : \E x \in ToSet(rest) : x[1] <= p /\ p < x[2]
    <3>1. CASE end = n
      <4>1. rest = <<>> /\ ToSet(<<>>) = {} /\ Distinct(<<>>) /\ IsList(<<>>)
        BY <2>4, <3>1, EmptyIsList DEF ToSet, Distinct
      <4>2. end .. n - 1 = {}
        BY <3>1
      <4> QED
        BY <4>1, <4>2
    <3>2. CASE end # n
      <4>1. next \in 0 .. n /\ n - next <= m /\ rest = f[next]
        BY <2>0, <2>1, <2>3, <2>4, <3>2
      <4>2. Chopped(rest, next, n)
        BY <1>5, <4>1
      <4>3. next .. n - 1 \subseteq start + 1 .. n - 1 /\ end .. n - 1 \subseteq next .. n - 1
        BY <2>1, <2>3, <3>2
      <4> QED
        BY <4>2, <4>3 DEF Chopped
    <3> QED
      BY <3>1, <3>2
  <2>7. IsList(<<first>>) /\ ToSet(<<first>>) = {first} /\ Distinct(<<first>>)
    BY Single
  <2>8. IsList(f[start]) /\ ToSet(f[start]) = {first} \cup ToSet(rest)
    <3>1. PICK one : one = <<first>>
      OBVIOUS
    <3>2. IsList(one) /\ ToSet(one) = {first}
      BY <2>7, <3>1
    <3>3. IsList(one \o rest) /\ ToSet(one \o rest) = ToSet(one) \cup ToSet(rest)
      BY <2>6, <3>2, Concatenated, ConcatenatedSet
    <3> QED
      BY <2>5, <3>1, <3>2, <3>3
  <2>9. first[1] = start /\ first[2] = end /\ start \notin start + 1 .. n - 1
    BY <2>2
  <2>10. Distinct(f[start])
    <3>1. ToSet(<<first>>) \cap ToSet(rest) = {}
      BY <2>6, <2>7, <2>9
    <3> QED
      BY <2>5, <2>6, <2>7, <3>1, ConcatenatedDistinct
  <2>11. \A x \in ToSet(f[start]) : x[1] \in start .. n - 1
    <3>1. start \in start .. n - 1 /\ start + 1 .. n - 1 \subseteq start .. n - 1
      BY <2>1
    <3> QED
      BY <2>6, <2>8, <2>9, <3>1
  <2>12. ASSUME NEW p \in start .. n - 1 PROVE \E x \in ToSet(f[start]) : x[1] <= p /\ p < x[2]
    <3>1. p < end \/ p \in end .. n - 1
      BY <2>1, <2>3
    <3>2. p < end => first[1] <= p /\ p < first[2]
      BY <2>9
    <3> QED
      BY <2>6, <2>8, <3>1, <3>2
  <2> QED
    BY <2>8, <2>10, <2>11, <2>12 DEF Chopped
<1>9. n \in P
  BY <1>5, <1>7, <1>8, Induction
<1> QED
  BY <1>2, <1>5, <1>9

-----------------------------------------------------------------------------
(* Chunk passes.                                                           *)

\* What a pass of job j promises of a list of chunks.
About(j, list) ==
  IF j.kind = "chunks" THEN j.changed ELSE {ch.id : ch \in ToSet(list)} \cup {d._id : d \in ToSet(source[j.coll])}
ChunksOf(j, list, id) == Filter(list, LAMBDA ch : ch.id = id /\ ch.tenant = j.tenant)
DocsOf(j, id) == {d \in ToSet(source[j.coll]) : d._id = id /\ d.tenant = j.tenant}
Follows(j, list, id) ==
  /\ DocsOf(j, id) = {} => ChunksOf(j, list, id) = <<>>
  /\ \A d \in DocsOf(j, id) :
       /\ ToSet(ChunksOf(j, list, id)) = ToSet(DocumentToChunks(j.coll, d))
       /\ Len(ChunksOf(j, list, id)) = Cardinality(ToSet(ChunksOf(j, list, id)))
       /\ \A p \in 0 .. d.length - 1 : \E ch \in ToSet(ChunksOf(j, list, id)) : ch.piece[1] <= p /\ p < ch.piece[2]
Followed(j, list) == \A id \in About(j, list) : Follows(j, list, id)

\* The chunks of a document: different ones, all its own, covering its text.
LEMMA ChunksOfDocument ==
  ASSUME NEW c, NEW d \in Document
  PROVE  /\ IsList(DocumentToChunks(c, d)) /\ Distinct(DocumentToChunks(c, d))
         /\ \A ch \in ToSet(DocumentToChunks(c, d)) : ch.id = d._id /\ ch.tenant = d.tenant
         /\ \A p \in 0 .. d.length - 1 : \E ch \in ToSet(DocumentToChunks(c, d)) : ch.piece[1] <= p /\ p < ch.piece[2]
<1>1. PICK parts : parts = Intervals(d.length)
  OBVIOUS
<1>2. Chopped(parts, 0, d.length)
  BY <1>1, IntervalsCover, DocumentAssumption
<1>3. PICK n \in Nat : n = Len(parts) /\ DOMAIN parts = 1 .. n
  BY <1>2, ListIs DEF Chopped
<1>4. PICK u : u = [i \in 1 .. n |-> [coll |-> c, id |-> d._id, tenant |-> d.tenant, piece |-> parts[i], words |-> d.words]]
  OBVIOUS
<1>5. u = DocumentToChunks(c, d)
  BY <1>1, <1>3, <1>4 DEF DocumentToChunks
<1>6. u = [i \in 1 .. n |-> u[i]]
  BY <1>4
<1>7. IsList(u) /\ DOMAIN u = 1 .. n
  BY <1>6, ListOf
<1>8. \A i \in 1 .. n : u[i].id = d._id /\ u[i].tenant = d.tenant /\ u[i].piece = parts[i]
  BY <1>4
<1>9. Distinct(u)
  BY <1>2, <1>3, <1>7, <1>8 DEF Distinct, Chopped
<1>10. \A ch \in ToSet(u) : ch.id = d._id /\ ch.tenant = d.tenant
  BY <1>7, <1>8 DEF ToSet
<1>11. ASSUME NEW p \in 0 .. d.length - 1 PROVE \E ch \in ToSet(u) : ch.piece[1] <= p /\ p < ch.piece[2]
  <2>1. PICK x \in ToSet(parts) : x[1] <= p /\ p < x[2]
    BY <1>2 DEF Chopped
  <2>2. PICK i \in 1 .. n : parts[i] = x
    BY <1>3, <2>1 DEF ToSet
  <2>3. u[i] \in ToSet(u) /\ u[i].piece = x
    BY <1>7, <1>8, <2>2 DEF ToSet
  <2> QED
    BY <2>1, <2>3
<1> QED
  BY <1>5, <1>7, <1>9, <1>10, <1>11

\* A chunk list without stale ones, and the chunks made of the documents, follow them.
LEMMA ChunkedFollows ==
  ASSUME Documents, NEW j \in Job, j.kind \in {"chunks", "rag"},
         IsList(chunks), NEW batch, batch = FlattenSeq([i \in DOMAIN ToChunk(j) |-> DocumentToChunks(j.coll, ToChunk(j)[i])])
  PROVE  /\ IsList(batch)
         /\ (\A ch \in ToSet(chunks) : ~ Stale(j, ch)) => Followed(j, chunks \o batch)
<1>1. j.coll \in DOMAIN Source
  BY JobAssumption
<1>2. PICK s : s = source[j.coll]
  OBVIOUS
<1>3. Listing(s) /\ IsList(s)
  BY <1>1, <1>2 DEF Documents, Listing
<1>4. PICK n \in Nat : n = Len(s) /\ DOMAIN s = 1 .. n
  BY <1>3, ListIs
<1>5. PICK I : I = {i \in DOMAIN s : IF j.kind = "rag" THEN s[i].tenant = j.tenant ELSE s[i]._id \in j.changed}
  OBVIOUS
<1>6. PICK docs : docs = ToChunk(j)
  OBVIOUS
<1>7. docs = Picked(s, I)
  BY <1>2, <1>5, <1>6 DEF ToChunk, Filter
<1>8. Listing(docs) /\ IsList(docs) /\ ToSet(docs) = {s[i] : i \in I}
  <2>1. I \in SUBSET (DOMAIN s)
    BY <1>5
  <2> QED
    BY <1>3, <1>7, <2>1, ListingPicked DEF Listing
<1>9. \A d : d \in ToSet(docs) <=> d \in ToSet(s) /\ IF j.kind = "rag" THEN d.tenant = j.tenant ELSE d._id \in j.changed
  BY <1>5, <1>8 DEF ToSet
<1>10. PICK m \in Nat : m = Len(docs) /\ DOMAIN docs = 1 .. m
  BY <1>8, ListIs
<1>11. PICK parts : parts = [i \in 1 .. m |-> DocumentToChunks(j.coll, docs[i])]
  OBVIOUS
<1>12. batch = FlattenSeq(parts)
  BY <1>6, <1>10, <1>11
<1>13. \A i \in 1 .. m : docs[i] \in Document
  BY <1>8, <1>10 DEF Listing, ToSet
<1>14. IsList(parts) /\ DOMAIN parts = 1 .. m
  <2>1. parts = [i \in 1 .. m |-> parts[i]]
    BY <1>11
  <2> QED
    BY <2>1, ListOf
<1>15. \A i \in 1 .. m : /\ IsList(parts[i]) /\ Distinct(parts[i])
                         /\ \A ch \in ToSet(parts[i]) : ch.id = docs[i]._id /\ ch.tenant = docs[i].tenant
  BY <1>11, <1>13, ChunksOfDocument
<1>16. Apart(parts)
  <2>1. ASSUME NEW i \in 1 .. m, NEW k \in 1 .. m, i # k PROVE ToSet(parts[i]) \cap ToSet(parts[k]) = {}
    <3>1. docs[i]._id # docs[k]._id
      BY <1>8, <1>10, <2>1 DEF Listing
    <3> QED
      BY <1>15, <3>1
  <2> QED
    BY <1>14, <1>15, <2>1 DEF Apart
<1>17. IsList(batch) /\ ToSet(batch) = Elements(parts, DOMAIN parts) /\ Distinct(batch)
  <2>1. \A i \in DOMAIN parts : IsList(parts[i])
    BY <1>14, <1>15
  <2> QED
    BY <1>12, <1>14, <1>16, <2>1, FlattenedIs
<1>18. PICK whole : whole = chunks \o batch
  OBVIOUS
<1>19. PICK b, c1 : b = Len(batch) /\ c1 = Len(chunks)
  OBVIOUS
<1>20. /\ IsList(whole) /\ b \in Nat /\ c1 \in Nat /\ DOMAIN whole = 1 .. c1 + b
       /\ \A i \in 1 .. c1 : whole[i] = chunks[i] /\ chunks[i] \in ToSet(chunks)
       /\ \A i \in 1 .. b : whole[c1 + i] = batch[i]
       /\ ToSet(whole) = ToSet(chunks) \cup ToSet(batch)
  <2>1. b \in Nat /\ c1 \in Nat /\ DOMAIN chunks = 1 .. c1
    BY <1>17, <1>19, ListIs
  <2>2. IsList(whole) /\ Len(whole) = c1 + b
    BY <1>17, <1>18, <1>19, Concatenated
  <2>3. DOMAIN whole = 1 .. c1 + b
    BY <2>2, ListIs
  <2>4. \A i \in 1 .. c1 : whole[i] = chunks[i] /\ chunks[i] \in ToSet(chunks)
    BY <1>17, <1>18, <1>19, <2>1, Concatenated DEF ToSet
  <2>5. \A i \in 1 .. b : whole[c1 + i] = batch[i]
    BY <1>17, <1>18, <1>19, Concatenated
  <2>6. ToSet(whole) = ToSet(chunks) \cup ToSet(batch)
    BY <1>17, <1>18, ConcatenatedSet
  <2> QED
    BY <2>1, <2>2, <2>3, <2>4, <2>5, <2>6
<1>21. ASSUME \A ch \in ToSet(chunks) : ~ Stale(j, ch), NEW id \in About(j, whole)
       PROVE  Follows(j, whole, id)
  <2>1. PICK K : K = {i \in DOMAIN whole : whole[i].id = id /\ whole[i].tenant = j.tenant}
    OBVIOUS
  <2>2. PICK of : of = ChunksOf(j, whole, id)
    OBVIOUS
  <2>3. of = Picked(whole, K)
    BY <2>1, <2>2 DEF ChunksOf, Filter
  <2>4. IsList(of) /\ ToSet(of) = {whole[i] : i \in K} /\ Len(of) = Cardinality(K)
    <3>1. K \in SUBSET (DOMAIN whole) /\ IsList(whole)
      BY <1>20, <2>1
    <3> QED
      BY <2>3, <3>1, PickedIs, PickedSet
  <2>5. j.kind = "rag" \/ id \in j.changed
    BY <1>21 DEF About
  <2>6. \A ch \in ToSet(chunks) : ~ (ch.id = id /\ ch.tenant = j.tenant)
    BY <1>21, <2>5 DEF Stale
  <2>7. \A i \in K : i \notin 1 .. c1 /\ i \in 1 .. c1 + b
    BY <1>20, <2>1, <2>6
  <2>8. \A i \in K : i - c1 \in 1 .. b /\ whole[i] = batch[i - c1]
    <3>1. SUFFICES ASSUME NEW i \in K PROVE i - c1 \in 1 .. b /\ whole[i] = batch[i - c1]
      OBVIOUS
    <3>2. PICK k \in Nat : k = i - c1 /\ k \in 1 .. b
      BY <1>20, <2>7
    <3>3. i = c1 + k
      BY <1>20, <2>7, <3>2
    <3> QED
      BY <1>20, <3>2, <3>3
  <2>9. ToSet(of) = {ch \in ToSet(batch) : ch.id = id /\ ch.tenant = j.tenant}
    <3>1. DOMAIN batch = 1 .. b
      BY <1>17, <1>19, ListIs
    <3>2. ASSUME NEW ch \in ToSet(of) PROVE ch \in ToSet(batch) /\ ch.id = id /\ ch.tenant = j.tenant
      <4>1. PICK i \in K : ch = whole[i]
        BY <2>4, <3>2
      <4>2. ch = batch[i - c1] /\ i - c1 \in DOMAIN batch
        BY <2>8, <3>1, <4>1
      <4> QED
        BY <2>1, <4>1, <4>2 DEF ToSet
    <3>3. ASSUME NEW ch \in ToSet(batch), ch.id = id, ch.tenant = j.tenant PROVE ch \in ToSet(of)
      <4>0. ch \in ToSet(whole)
        BY <1>20, <3>3
      <4>1. PICK i \in DOMAIN whole : ch = whole[i]
        BY <4>0 DEF ToSet
      <4> QED
        BY <2>1, <2>4, <3>3, <4>1
    <3> QED
      BY <3>2, <3>3
  <2>10. Distinct(of)
    <3>1. DOMAIN batch = 1 .. b
      BY <1>17, <1>19, ListIs
    <3>2. ASSUME NEW i \in K, NEW k \in K, whole[i] = whole[k] PROVE i = k
      <4>0. i - c1 \in DOMAIN batch /\ k - c1 \in DOMAIN batch /\ batch[i - c1] = batch[k - c1]
        BY <2>8, <3>1, <3>2
      <4>1. i - c1 = k - c1
        BY <1>17, <4>0 DEF Distinct
      <4> QED
        BY <1>20, <2>7, <4>1
    <3>3. K \in SUBSET (DOMAIN whole)
      BY <2>1
    <3> QED
      BY <1>20, <2>3, <3>2, <3>3, PickedDistinct
  <2>11. Len(of) = Cardinality(ToSet(of))
    BY <2>4, <2>10, DistinctCount
  <2>12. \A ch \in ToSet(batch) : \E i \in 1 .. m : ch \in ToSet(parts[i])
    BY <1>14, <1>17 DEF Elements
  <2>13. ASSUME DocsOf(j, id) = {} PROVE of = <<>>
    <3>1. ToSet(of) = {}
      <4>1. SUFFICES ASSUME NEW ch \in ToSet(batch), ch.id = id, ch.tenant = j.tenant PROVE FALSE
        BY <2>9
      <4>2. PICK i \in 1 .. m : ch.id = docs[i]._id /\ ch.tenant = docs[i].tenant
        BY <1>15, <2>12, <4>1
      <4>3. docs[i] \in ToSet(s)
        BY <1>9, <1>10 DEF ToSet
      <4> QED
        BY <1>2, <2>13, <4>1, <4>2, <4>3 DEF DocsOf
    <3>2. Len(of) = 0
      BY <2>11, <3>1, FS_EmptySet
    <3> QED
      BY <2>4, <3>2
  <2>14. ASSUME NEW d \in DocsOf(j, id)
         PROVE  /\ ToSet(of) = ToSet(DocumentToChunks(j.coll, d))
                /\ \A p \in 0 .. d.length - 1 : \E ch \in ToSet(of) : ch.piece[1] <= p /\ p < ch.piece[2]
    <3>1. d \in ToSet(s) /\ d._id = id /\ d.tenant = j.tenant
      BY <1>2, <2>14 DEF DocsOf
    <3>2. d \in ToSet(docs)
      BY <1>9, <2>5, <3>1
    <3>3. PICK i \in 1 .. m : docs[i] = d
      BY <1>10, <3>2 DEF ToSet
    <3>4. parts[i] = DocumentToChunks(j.coll, d)
      BY <1>11, <3>3
    <3>5. ASSUME NEW k \in 1 .. m, NEW ch \in ToSet(parts[k]), ch.id = id PROVE k = i
      <4>1. docs[k]._id = docs[i]._id
        BY <1>15, <3>1, <3>3, <3>5
      <4> QED
        BY <1>8, <1>10, <4>1 DEF Listing
    <3>6. ToSet(parts[i]) \subseteq ToSet(batch)
      BY <1>14, <1>17 DEF Elements
    <3>7. ToSet(of) = ToSet(parts[i])
      <4>1. ASSUME NEW ch \in ToSet(of) PROVE ch \in ToSet(parts[i])
        <5>1. ch \in ToSet(batch) /\ ch.id = id
          BY <2>9, <4>1
        <5>2. PICK k \in 1 .. m : ch \in ToSet(parts[k])
          BY <2>12, <5>1
        <5> QED
          BY <3>5, <5>1, <5>2
      <4>2. ASSUME NEW ch \in ToSet(parts[i]) PROVE ch \in ToSet(of)
        BY <1>15, <2>9, <3>1, <3>3, <3>6, <4>2
      <4> QED
        BY <4>1, <4>2
    <3>8. d \in Document
      BY <1>13, <3>3
    <3> QED
      BY <3>4, <3>7, <3>8, ChunksOfDocument
  <2> QED
    BY <2>2, <2>11, <2>13, <2>14 DEF Follows
<1> QED
  BY <1>17, <1>18, <1>21 DEF Followed

LEMMA FollowedStays ==
  ASSUME source' = source, NEW j, NEW list
  PROVE  Followed(j, list)' <=> Followed(j, list)
<1>1. About(j, list)' = About(j, list)
  BY DEF About
<1>2. ASSUME NEW id PROVE Follows(j, list, id)' <=> Follows(j, list, id)
  <2>1. DocsOf(j, id)' = DocsOf(j, id)
    BY DEF DocsOf
  <2>2. PICK of : of = ChunksOf(j, list, id)
    OBVIOUS
  <2>3. ChunksOf(j, list, id)' = of
    BY <2>2 DEF ChunksOf, Filter
  <2> QED
    BY <2>1, <2>2, <2>3 DEF Follows
<1> QED
  BY <1>1, <1>2 DEF Followed

ChunkPass(w) == job[w].kind \in {"chunks", "rag"}

\* While a pass is alone, what it erased stays erased, and what is in the database and
\* what it is about to insert make up what it promises.
ChunksInv ==
  /\ IsList(chunks)
  /\ \A w \in Worker : ChunkPass(w) => /\ IsList(have[w].batch)
                                       /\ pc[w] = "insert" => have[w].batch # <<>>
  /\ \A w \in Worker : alone[w] /\ ChunkPass(w) =>
       /\ pc[w] = "chunk" => \A ch \in ToSet(chunks) : ~ Stale(job[w], ch)
       /\ pc[w] = "insert" => Followed(job[w], chunks \o have[w].batch)
  /\ ended.job.kind \in {"chunks", "rag"} => Followed(ended.job, chunks)

LEMMA ChunksInvInit ==
  ASSUME Init
  PROVE  ChunksInv
<1>1. chunks = <<>> /\ job = [w \in Worker |-> Idle] /\ ended = NoneEnded
  BY DEF Init
<1>2. \A w \in Worker : ~ ChunkPass(w)
  BY <1>1, IdleIs DEF ChunkPass
<1>3. ended.job.kind = "none"
  BY <1>1, IdleIs DEF NoneEnded, Ended
<1> QED
  BY <1>1, <1>2, <1>3, EmptyIsList DEF ChunksInv

\* What a step of the worker w leaves alone of the others.
LEMMA OthersStay ==
  ASSUME Control, NEW w \in Worker, NEW where, NEW had, Goto(w, where, had)
  PROVE  /\ \A v \in Worker : v # w => /\ pc'[v] = pc[v] /\ job'[v] = job[v]
                                       /\ have'[v] = have[v] /\ alone'[v] = alone[v]
         /\ where \in Over => pc'[w] = "over" /\ job'[w] = Idle /\ have'[w] = Nothing /\ ~ alone'[w]
         /\ where \notin Over => pc'[w] = where /\ job'[w] = job[w] /\ have'[w] = had /\ alone'[w] = alone[w]
         /\ UNCHANGED <<source, edits>>
<1>1. /\ pc' = [pc EXCEPT ![w] = IF where \in Over THEN "over" ELSE where]
      /\ job' = [job EXCEPT ![w] = IF where \in Over THEN Idle ELSE @]
      /\ have' = [have EXCEPT ![w] = IF where \in Over THEN Nothing ELSE had]
      /\ alone' = [alone EXCEPT ![w] = @ /\ where \notin Over]
      /\ UNCHANGED <<source, edits>>
  BY DEF Goto
<1>2. where \notin Over => alone'[w] = alone[w]
  BY <1>1 DEF Control
<1> QED
  BY <1>1, <1>2 DEF Control

\* What a step may say has ended: nothing, or the job of a worker that was alone.
LEMMA EndsAlone ==
  ASSUME NEW w \in Worker, NEW where, NEW had, Goto(w, where, had)
  PROVE  \/ ended'.job = Idle
         \/ where = "done" /\ alone[w] /\ ended' = Ended(job[w], had) /\ ended'.job = job[w]
BY DEF Goto, NoneEnded, Ended

\* Steps that leave the chunks alone and are no step of a chunk pass.
LEMMA OtherStepsKeepChunks ==
  ASSUME ChunksInv, Control, Control', UNCHANGED <<source, chunks>>,
         \A w \in Worker : \/ ~ ChunkPass(w)'
                           \/ /\ have'[w].batch = have[w].batch /\ job'[w] = job[w] /\ pc'[w] = pc[w]
                              /\ alone'[w] => alone[w]
                           \/ pc'[w] = "erase" /\ have'[w].batch = <<>>,
         ended'.job.kind \notin {"chunks", "rag"}
  PROVE  ChunksInv'
<1>1. ASSUME NEW w \in Worker, ChunkPass(w)'
      PROVE  /\ IsList(have'[w].batch)
             /\ pc'[w] = "insert" => have'[w].batch # <<>>
             /\ alone'[w] => /\ pc'[w] = "chunk" => \A ch \in ToSet(chunks) : ~ Stale(job'[w], ch)
                             /\ pc'[w] = "insert" => Followed(job'[w], chunks \o have'[w].batch)
  BY <1>1, EmptyIsList DEF ChunksInv, ChunkPass
<1>2. ASSUME NEW w \in Worker, ChunkPass(w)', alone'[w], pc'[w] = "insert"
      PROVE  Followed(job[w], chunks \o have[w].batch)'
  <2>1. PICK j, list : j = job'[w] /\ list = chunks \o have'[w].batch
    OBVIOUS
  <2>2. Followed(j, list)'
    BY <1>1, <1>2, <2>1, FollowedStays
  <2> QED
    BY <2>1, <2>2
<1> QED
  BY <1>1, <1>2 DEF ChunksInv, Stale

LEMMA ChunksInvNext ==
  ASSUME ChunksInv, Control, Control', Documents, [Next]_vars
  PROVE  ChunksInv'
<1>1. CASE UNCHANGED vars
  <2>1. UNCHANGED <<source, chunks, pc, job, have, alone, ended>>
    BY <1>1 DEF vars, worker
  <2>2. ASSUME NEW w \in Worker, Followed(job[w], chunks \o have[w].batch)
        PROVE  Followed(job[w], chunks \o have[w].batch)'
    <3>1. PICK j, list : j = job[w] /\ list = chunks \o have[w].batch
      OBVIOUS
    <3>2. Followed(j, list)'
      BY <2>1, <2>2, <3>1, FollowedStays
    <3> QED
      BY <2>1, <3>1, <3>2
  <2>3. ASSUME Followed(ended.job, chunks) PROVE Followed(ended.job, chunks)'
    <3>1. PICK j, list : j = ended.job /\ list = chunks
      OBVIOUS
    <3>2. Followed(j, list)'
      BY <2>1, <2>3, <3>1, FollowedStays
    <3> QED
      BY <2>1, <3>1, <3>2
  <2> QED
    BY <2>1, <2>2, <2>3 DEF ChunksInv, ChunkPass, Stale
<1>2. CASE EditSource
  <2>1. /\ UNCHANGED <<chunks, pc, job, have>>
        /\ alone' = [w \in Worker |-> FALSE] /\ ended' = NoneEnded
    BY <1>2 DEF EditSource
  <2>2. ended'.job.kind = "none" /\ \A w \in Worker : ~ alone'[w]
    BY <2>1, IdleIs DEF NoneEnded, Ended
  <2> QED
    BY <2>1, <2>2 DEF ChunksInv, ChunkPass
<1>3. ASSUME NEW w \in Worker, Start(w) PROVE ChunksInv'
  <2>1. UNCHANGED <<source, chunks, have>> /\ ended' = NoneEnded
    BY <1>3 DEF Start
  <2>2. PICK j \in Job : /\ job' = [job EXCEPT ![w] = j]
                         /\ pc' = [pc EXCEPT ![w] = IF j.kind = "dirty" THEN "find" ELSE "erase"]
    BY <1>3 DEF Start
  <2>3. alone' = [v \in Worker |-> v = w /\ Running = {}]
    BY <1>3 DEF Start
  <2>4. ended'.job.kind = "none"
    BY <2>1, IdleIs DEF NoneEnded, Ended
  <2>5. ASSUME NEW v \in Worker, ChunkPass(v)'
        PROVE  \/ /\ have'[v].batch = have[v].batch /\ job'[v] = job[v] /\ pc'[v] = pc[v]
                  /\ alone'[v] => alone[v]
               \/ pc'[v] = "erase" /\ have'[v].batch = <<>>
    <3>1. CASE v = w
      <4>1. have[w] = Nothing
        BY <1>3, KindsAre DEF Start, Control, Fits, PlacesOf, Kinds
      <4>2. job'[w] = j /\ pc'[w] = IF j.kind = "dirty" THEN "find" ELSE "erase"
        BY <2>2 DEF Control
      <4> QED
        BY <2>1, <2>5, <3>1, <4>1, <4>2 DEF ChunkPass, Nothing
    <3>2. CASE v # w
      BY <2>1, <2>2, <2>3, <3>2 DEF Control
    <3> QED
      BY <3>1, <3>2
  <2> QED
    BY <2>1, <2>4, <2>5, OtherStepsKeepChunks
<1>4. ASSUME NEW w \in Worker, Step(w), ~ ChunkPass(w), Moves(w) PROVE ChunksInv'
  <2>1. PICK where, had : Goto(w, where, had)
    BY <1>4 DEF Moves
  <2>2. chunks' = chunks
    <3>1. job[w].kind = "build" \/ pc[w] \notin {"erase", "insert"}
      BY <1>4, WhereItIs DEF ChunkPass
    <3>2. ~ Start(w) \/ chunks' = chunks
      BY DEF Start
    <3> QED
      BY <1>4, <3>1, <3>2 DEF Step, Crash, EraseTree, Discover, Collect, NextColumn, Customers, InsertNode,
           FindDirty, ReadMembers, DeleteDirty, EraseChunks, Chunk, InsertChunk, Build
  <2>3. ended'.job.kind \notin {"chunks", "rag"}
    BY <1>4, <2>1, EndsAlone, IdleIs DEF ChunkPass
  <2>4. ~ ChunkPass(w)'
    BY <1>4, <2>1, OthersStay, IdleIs DEF ChunkPass
  <2>5. \A v \in Worker : v # w => /\ have'[v].batch = have[v].batch /\ job'[v] = job[v] /\ pc'[v] = pc[v]
                                   /\ alone'[v] => alone[v]
    BY <2>1, OthersStay
  <2>6. source' = source
    BY <2>1, OthersStay
  <2> QED
    BY <2>2, <2>3, <2>4, <2>5, <2>6, OtherStepsKeepChunks
<1>5. ASSUME NEW w \in Worker, Step(w), ChunkPass(w), Moves(w) PROVE ChunksInv'
  <2>1. PICK j : j = job[w]
    OBVIOUS
  <2>2. j.kind \in {"chunks", "rag"} /\ j \in Job /\ w \in Running
    BY <1>5, <2>1, IdleIs DEF ChunkPass, Moves, Control, Fits
  <2>3. pc[w] \in {"erase", "chunk", "insert"}
    <3>1. pc[w] \in PlacesOf(j.kind)
      BY <2>1, <2>2 DEF Control, Fits, Running
    <3> QED
      BY <2>2, <3>1 DEF PlacesOf
  <2>4. Crash(w) \/ EraseChunks(w) \/ Chunk(w) \/ InsertChunk(w)
    BY <1>5, <2>1, <2>2, <2>3 DEF Step, Start, EraseTree, Discover, Collect, Customers, InsertNode,
         FindDirty, ReadMembers, DeleteDirty, Build
  <2>5. ASSUME NEW where, NEW had, Goto(w, where, had)
        PROVE  /\ source' = source
               /\ \A v \in Worker : v # w =>
                    /\ have'[v] = have[v] /\ job'[v] = job[v] /\ pc'[v] = pc[v] /\ alone'[v] = alone[v]
                    /\ alone'[v] => ~ alone[w] /\ w \notin Running
               /\ ~ alone[w] \/ \A v \in Worker : v # w => ~ alone'[v]
    <3>1. \A v \in Worker : v # w => /\ pc'[v] = pc[v] /\ job'[v] = job[v]
                                     /\ have'[v] = have[v] /\ alone'[v] = alone[v]
      BY <2>5, OthersStay
    <3>2. \A v \in Worker : v # w /\ alone'[v] => w \notin Running
      BY <3>1 DEF Control
    <3> QED
      BY <2>2, <2>5, <3>1, <3>2, OthersStay
  <2>6. ASSUME NEW where, NEW had, Goto(w, where, had), IsList(chunks'),
               where \notin Over => IsList(had.batch) /\ (where = "insert" => had.batch # <<>>),
               alone[w] /\ where = "chunk" => \A ch \in ToSet(chunks') : ~ Stale(j, ch),
               alone[w] /\ where = "insert" => Followed(j, chunks' \o had.batch),
               alone[w] /\ where = "done" => Followed(j, chunks')
        PROVE  ChunksInv'
    <3>1. ASSUME NEW v \in Worker, ChunkPass(v)'
          PROVE  /\ IsList(have'[v].batch)
                 /\ pc'[v] = "insert" => have'[v].batch # <<>>
      <4>1. CASE v = w
        BY <2>6, <3>1, <4>1, OthersStay, IdleIs DEF ChunkPass
      <4>2. CASE v # w
        BY <2>5, <2>6, <3>1, <4>2 DEF ChunkPass, ChunksInv
      <4> QED
        BY <4>1, <4>2
    <3>2. ASSUME NEW v \in Worker, ChunkPass(v)', alone'[v]
          PROVE  v = w /\ where \notin Over /\ alone[w] /\ job'[v] = j /\ pc'[v] = where /\ have'[v] = had
      <4>1. v = w
        BY <2>2, <2>5, <2>6, <3>2
      <4> QED
        BY <2>1, <2>6, <3>2, <4>1, OthersStay
    <3>3. ASSUME NEW v \in Worker, ChunkPass(v)', alone'[v], pc'[v] = "insert"
          PROVE  Followed(job[v], chunks \o have[v].batch)'
      <4>1. PICK list : list = chunks' \o had.batch
        OBVIOUS
      <4>2. Followed(j, list)
        BY <2>6, <3>2, <3>3, <4>1
      <4>3. Followed(j, list)'
        BY <2>5, <2>6, <4>2, FollowedStays
      <4> QED
        BY <3>2, <3>3, <4>1, <4>3
    <3>4. ASSUME ended'.job.kind \in {"chunks", "rag"} PROVE Followed(ended.job, chunks)'
      <4>1. where = "done" /\ alone[w] /\ ended'.job = j
        BY <2>1, <2>6, <3>4, EndsAlone, IdleIs
      <4>2. PICK list : list = chunks'
        OBVIOUS
      <4>3. Followed(j, list)'
        BY <2>5, <2>6, <4>1, <4>2, FollowedStays
      <4> QED
        BY <4>1, <4>2, <4>3
    <3>5. ASSUME NEW v \in Worker, ChunkPass(v)', alone'[v], pc'[v] = "chunk"
          PROVE  \A ch \in ToSet(chunks') : ~ Stale(job'[v], ch)
      BY <2>6, <3>2, <3>5
    <3> QED
      BY <2>6, <3>1, <3>3, <3>4, <3>5 DEF ChunksInv, Stale
  <2>7. CASE Crash(w)
    <3>1. Goto(w, "crashed", Nothing) /\ chunks' = chunks
      BY <2>7 DEF Crash
    <3> QED
      BY <2>6, <3>1 DEF Over, ChunksInv
  <2>8. IsList(chunks) /\ IsList(have[w].batch) /\ (pc[w] = "insert" => have[w].batch # <<>>)
    BY <1>5 DEF ChunksInv
  <2>9. CASE EraseChunks(w)
    <3>1. Goto(w, "chunk", have[w]) /\ chunks' = Filter(chunks, LAMBDA ch : ~ Stale(j, ch))
      BY <2>1, <2>9 DEF EraseChunks
    <3>2. PICK I : I = {i \in DOMAIN chunks : ~ Stale(j, chunks[i])}
      OBVIOUS
    <3>3. chunks' = Picked(chunks, I)
      BY <3>1, <3>2 DEF Filter
    <3>4. IsList(chunks') /\ ToSet(chunks') = {chunks[i] : i \in I}
      BY <2>8, <3>2, <3>3, PickedIs, PickedSet
    <3>5. \A ch \in ToSet(chunks') : ~ Stale(j, ch)
      BY <3>2, <3>4
    <3> QED
      BY <2>6, <2>8, <3>1, <3>4, <3>5
  <2>10. CASE Chunk(w)
    <3>1. PICK batch : batch = FlattenSeq([i \in DOMAIN ToChunk(j) |-> DocumentToChunks(j.coll, ToChunk(j)[i])])
      OBVIOUS
    <3>2. PICK where, had : where = (IF batch = <<>> THEN "done" ELSE "insert") /\ had = [have[w] EXCEPT !.batch = batch]
      OBVIOUS
    <3>3. pc[w] = "chunk" /\ Goto(w, where, had) /\ chunks' = chunks
      BY <2>1, <2>10, <3>1, <3>2 DEF Chunk
    <3>4. had.batch = batch
      BY <3>2 DEF Control, Fields
    <3>5. alone[w] => \A ch \in ToSet(chunks) : ~ Stale(j, ch)
      BY <1>5, <2>1, <3>3 DEF ChunksInv
    <3>6. alone[w] => Followed(j, chunks \o batch)
      BY <2>2, <2>8, <3>1, <3>5, ChunkedFollows
    <3>7. IsList(batch)
      BY <2>2, <2>8, <3>1, ChunkedFollows
    <3>8. batch = <<>> => chunks \o batch = chunks
      <4>1. chunks \in Seq({chunks[i] : i \in DOMAIN chunks})
        BY <2>8 DEF IsList
      <4> QED
        BY <4>1
    <3>9. where = "done" => (alone[w] => Followed(j, chunks))
      BY <3>2, <3>6, <3>8
    <3>10. where = "insert" => batch # <<>> /\ (alone[w] => Followed(j, chunks \o batch))
      BY <3>2, <3>6
    <3>11. where # "chunk"
      BY <3>2
    <3> QED
      BY <2>6, <2>8, <3>3, <3>4, <3>7, <3>9, <3>10, <3>11
  <2>11. CASE InsertChunk(w)
    <3>1. PICK batch : batch = have[w].batch
      OBVIOUS
    <3>2. PICK where, had : where = (IF Len(batch) = 1 THEN "done" ELSE "insert") /\ had = [have[w] EXCEPT !.batch = Tail(@)]
      OBVIOUS
    <3>3. pc[w] = "insert" /\ Goto(w, where, had) /\ chunks' = Append(chunks, batch[1])
      BY <2>11, <3>1, <3>2 DEF InsertChunk
    <3>4. had.batch = Tail(batch)
      BY <3>1, <3>2 DEF Control, Fields
    <3>5. alone[w] => Followed(j, chunks \o batch)
      BY <1>5, <2>1, <3>1, <3>3 DEF ChunksInv
    <3>6. /\ IsList(chunks') /\ IsList(Tail(batch)) /\ (Len(batch) # 1 => Tail(batch) # <<>>)
          /\ chunks' \o Tail(batch) = chunks \o batch /\ (Len(batch) = 1 => chunks' = chunks \o batch)
      BY <2>8, <3>1, <3>3, MovedOne
    <3>7. where # "chunk" /\ (where = "insert" => Len(batch) # 1) /\ (where = "done" => Len(batch) = 1)
      BY <3>2
    <3> QED
      BY <2>6, <3>3, <3>4, <3>5, <3>6, <3>7
  <2> QED
    BY <2>4, <2>7, <2>9, <2>10, <2>11
<1> QED
  BY <1>1, <1>2, <1>3, <1>4, <1>5, StepMoves DEF Next

-----------------------------------------------------------------------------

\* Whatever the documents, the workers and the edits: a chunk pass that had the database
\* to itself leaves the chunks of each document it is about exactly once, and none of a
\* document that is gone.
THEOREM ChunkPassesFollowDocuments == Spec => []ChunksFollowDocuments
<1>1. Init => Control /\ Documents /\ ChunksInv
  BY ControlInit, DocumentsInit, ChunksInvInit
<1>2. Control /\ Documents /\ ChunksInv /\ [Next]_vars => (Control /\ Documents /\ ChunksInv)'
  BY ControlNext, DocumentsNext, ChunksInvNext
<1>3. ChunksInv => ChunksFollowDocuments
  BY DEF ChunksInv, ChunksFollowDocuments, Followed, About, Follows, DocsOf, ChunksOf
<1> QED
  BY <1>1, <1>2, <1>3, PTL DEF Spec

-----------------------------------------------------------------------------
(* Topical groups: every document in exactly one.                          *)

\* Pairs of documents and a key that split a list of documents.
Splits(P, docs) ==
  /\ \A p \in P : Listing(p[1]) /\ p[1] # <<>> /\ ToSet(p[1]) \subseteq ToSet(docs)
  /\ \A d \in ToSet(docs) : \E p \in P : d \in ToSet(p[1])
  /\ \A p, q \in P : \A d \in ToSet(p[1]) : d \in ToSet(q[1]) => p = q

\* The documents of a list with a key; none is left out, and one with a key makes it no
\* empty list.
LEMMA ListingKept ==
  ASSUME NEW docs, Listing(docs), NEW I \in SUBSET (DOMAIN docs)
  PROVE  /\ Listing(Picked(docs, I)) /\ ToSet(Picked(docs, I)) = {docs[i] : i \in I}
         /\ ToSet(Picked(docs, I)) \subseteq ToSet(docs)
         /\ I # {} <=> Picked(docs, I) # <<>>
<1>1. /\ Listing(Picked(docs, I)) /\ ToSet(Picked(docs, I)) = {docs[i] : i \in I}
  BY ListingPicked
<1>2. PICK t : t = Picked(docs, I)
  OBVIOUS
<1>3. PICK n \in Nat : n = Len(t) /\ DOMAIN t = 1 .. n /\ IsList(t)
  BY <1>1, <1>2, ListIs DEF Listing
<1>4. ASSUME t = <<>> PROVE I = {}
  <2>1. ToSet(t) = {}
    BY <1>4, EmptyIsList DEF ToSet
  <2> QED
    BY <1>1, <1>2, <2>1
<1>5. ASSUME I = {} PROVE t = <<>>
  <2>1. ToSet(t) = {}
    BY <1>1, <1>2, <1>5
  <2> QED
    BY <1>3, <2>1, NotEmpty
<1> QED
  BY <1>1, <1>2, <1>4, <1>5 DEF ToSet

LEMMA CeilingIs ==
  ASSUME NEW a \in Nat, NEW b \in Nat \ {0}
  PROVE  Ceiling(a, b) \in Nat
BY DEF Ceiling

LEMMA ShardsSplit ==
  ASSUME NEW docs, Listing(docs), docs # <<>>, NEW target \in Nat \ {0}, NEW month
  PROVE  Splits(Shards(docs, month, target), docs)
<1>1. IsList(docs) /\ ToSet(docs) \subseteq Document
  BY DEF Listing
<1>2. PICK n : n = Larger(2, Ceiling(Len(docs), target))
  OBVIOUS
<1>3. n \in Nat \ {0}
  <2>1. Len(docs) \in Nat
    BY <1>1, ListIs
  <2>2. Ceiling(Len(docs), target) \in Nat
    BY <2>1, CeilingIs
  <2> QED
    BY <1>2, <2>2 DEF Larger
<1>4. PICK in : in = [s \in 0 .. n - 1 |-> Filter(docs, LAMBDA d : Digest[d._id] % n = s)]
  OBVIOUS
<1>5. PICK P : P = Shards(docs, month, target)
  OBVIOUS
<1>6. \A p : p \in P <=> \E s \in 0 .. n - 1 : in[s] # <<>> /\ p = <<in[s], <<month, s>>>>
  BY <1>2, <1>4, <1>5 DEF Shards
<1>7. ASSUME NEW s \in 0 .. n - 1
      PROVE  /\ Listing(in[s]) /\ ToSet(in[s]) \subseteq ToSet(docs)
             /\ \A d \in ToSet(docs) : d \in ToSet(in[s]) <=> Digest[d._id] % n = s
  <2>1. PICK I : I = {i \in DOMAIN docs : Digest[docs[i]._id] % n = s}
    OBVIOUS
  <2>2. in[s] = Picked(docs, I)
    BY <1>4, <2>1 DEF Filter
  <2>3. I \in SUBSET (DOMAIN docs)
    BY <2>1
  <2>4. Listing(in[s]) /\ ToSet(in[s]) \subseteq ToSet(docs) /\ ToSet(in[s]) = {docs[i] : i \in I}
    BY <2>2, <2>3, ListingKept
  <2>5. \A d \in ToSet(docs) : d \in ToSet(in[s]) <=> Digest[d._id] % n = s
    BY <2>1, <2>4 DEF ToSet
  <2> QED
    BY <2>4, <2>5
<1>8. \A d \in ToSet(docs) : Digest[d._id] % n \in 0 .. n - 1
  <2>1. SUFFICES ASSUME NEW d \in ToSet(docs) PROVE Digest[d._id] % n \in 0 .. n - 1
    OBVIOUS
  <2>2. PICK x \in Nat : x = Digest[d._id]
    BY <1>1, <2>1, DocumentAssumption
  <2>3. x % n \in 0 .. n - 1
    BY <1>3, <2>2
  <2> QED
    BY <2>2, <2>3
<1>9. \A p \in P : p[1] # <<>> /\ Listing(p[1]) /\ ToSet(p[1]) \subseteq ToSet(docs)
  BY <1>6, <1>7
<1>10. ASSUME NEW d \in ToSet(docs) PROVE \E p \in P : d \in ToSet(p[1])
  <2>1. PICK s \in 0 .. n - 1 : s = Digest[d._id] % n
    BY <1>8
  <2>2. d \in ToSet(in[s]) /\ IsList(in[s])
    BY <1>7, <2>1 DEF Listing
  <2>3. in[s] # <<>>
    BY <2>2, NotEmpty
  <2>4. PICK p : p = <<in[s], <<month, s>>>>
    OBVIOUS
  <2>5. p \in P /\ p[1] = in[s]
    BY <1>6, <2>3, <2>4
  <2> QED
    BY <2>2, <2>5
<1>11. ASSUME NEW p \in P, NEW q \in P, NEW d \in ToSet(p[1]), d \in ToSet(q[1]) PROVE p = q
  <2>1. PICK s \in 0 .. n - 1 : p = <<in[s], <<month, s>>>>
    BY <1>6
  <2>2. PICK t \in 0 .. n - 1 : q = <<in[t], <<month, t>>>>
    BY <1>6
  <2>3. d \in ToSet(docs)
    BY <1>9, <1>11
  <2>4. Digest[d._id] % n = s /\ Digest[d._id] % n = t
    BY <1>7, <1>11, <2>1, <2>2, <2>3
  <2> QED
    BY <2>1, <2>2, <2>4
<1> QED
  BY <1>5, <1>9, <1>10, <1>11 DEF Splits

LEMMA SplitByTimeSplits ==
  ASSUME NEW docs, Listing(docs), docs # <<>>, NEW target \in Nat \ {0}
  PROVE  Splits(SplitByTime(docs, target), docs)
<1>1. IsList(docs) /\ ToSet(docs) \subseteq Document
  BY DEF Listing
<1>2. CASE Len(docs) <= target
  <2>1. PICK p : p = <<docs, IF docs[1].month = "" THEN <<>> ELSE <<docs[1].month>>>>
    OBVIOUS
  <2>2. SplitByTime(docs, target) = {p} /\ p[1] = docs
    BY <1>2, <2>1 DEF SplitByTime
  <2> QED
    BY <2>2 DEF Splits
<1>3. CASE ~ (Len(docs) <= target)
  <2>1. PICK months : months = {Month(docs[i]) : i \in DOMAIN docs}
    OBVIOUS
  <2>2. PICK part : part = [m \in months |-> Filter(docs, LAMBDA d : Month(d) = m)]
    OBVIOUS
  <2>3. PICK of : of = [m \in months |-> IF Len(part[m]) <= target THEN {<<part[m], <<m>>>>}
                                         ELSE Shards(part[m], m, target)]
    OBVIOUS
  <2>4. PICK P : P = SplitByTime(docs, target)
    OBVIOUS
  <2>5. P = UNION {of[m] : m \in months}
    <3>1. P = UNION {LET some == Filter(docs, LAMBDA d : Month(d) = m)
                     IN  IF Len(some) <= target THEN {<<some, <<m>>>>} ELSE Shards(some, m, target) : m \in months}
      BY <1>3, <2>1, <2>4 DEF SplitByTime
    <3> QED
      BY <2>2, <2>3, <3>1
  <2>6. ASSUME NEW m \in months
        PROVE  /\ Listing(part[m]) /\ part[m] # <<>> /\ ToSet(part[m]) \subseteq ToSet(docs)
               /\ \A d \in ToSet(docs) : d \in ToSet(part[m]) <=> Month(d) = m
    <3>1. PICK I : I = {i \in DOMAIN docs : Month(docs[i]) = m}
      OBVIOUS
    <3>2. part[m] = Picked(docs, I)
      BY <2>2, <3>1 DEF Filter
    <3>3. I \in SUBSET (DOMAIN docs) /\ I # {}
      BY <2>1, <3>1
    <3>4. /\ Listing(part[m]) /\ part[m] # <<>> /\ ToSet(part[m]) \subseteq ToSet(docs)
          /\ ToSet(part[m]) = {docs[i] : i \in I}
      BY <3>2, <3>3, ListingKept
    <3>5. \A d \in ToSet(docs) : d \in ToSet(part[m]) <=> Month(d) = m
      BY <3>1, <3>4 DEF ToSet
    <3> QED
      BY <3>4, <3>5
  <2>7. ASSUME NEW m \in months PROVE Splits(of[m], part[m])
    <3>1. CASE Len(part[m]) <= target
      <4>1. PICK p : p = <<part[m], <<m>>>>
        OBVIOUS
      <4>2. of[m] = {p} /\ p[1] = part[m]
        BY <2>3, <3>1, <4>1
      <4> QED
        BY <2>6, <4>2 DEF Splits
    <3>2. CASE ~ (Len(part[m]) <= target)
      <4>1. of[m] = Shards(part[m], m, target)
        BY <2>3, <3>2
      <4> QED
        BY <2>6, <4>1, ShardsSplit
    <3> QED
      BY <3>1, <3>2
  <2>8. \A p \in P : Listing(p[1]) /\ p[1] # <<>> /\ ToSet(p[1]) \subseteq ToSet(docs)
    <3>1. SUFFICES ASSUME NEW p \in P PROVE Listing(p[1]) /\ p[1] # <<>> /\ ToSet(p[1]) \subseteq ToSet(docs)
      OBVIOUS
    <3>2. PICK m \in months : p \in of[m]
      BY <2>5
    <3> QED
      BY <2>6, <2>7, <3>2 DEF Splits
  <2>9. ASSUME NEW d \in ToSet(docs) PROVE \E p \in P : d \in ToSet(p[1])
    <3>1. PICK m \in months : m = Month(d)
      BY <2>1 DEF ToSet
    <3>2. d \in ToSet(part[m])
      BY <2>6, <3>1
    <3>3. PICK p \in of[m] : d \in ToSet(p[1])
      BY <2>7, <3>2 DEF Splits
    <3> QED
      BY <2>5, <3>3
  <2>10. ASSUME NEW p \in P, NEW q \in P, NEW d \in ToSet(p[1]), d \in ToSet(q[1]) PROVE p = q
    <3>1. PICK m \in months : p \in of[m]
      BY <2>5
    <3>2. PICK k \in months : q \in of[k]
      BY <2>5
    <3>3. d \in ToSet(part[m]) /\ d \in ToSet(part[k]) /\ d \in ToSet(docs)
      BY <2>7, <2>8, <2>10, <3>1, <3>2 DEF Splits
    <3>4. m = k
      BY <2>6, <3>3
    <3> QED
      BY <2>7, <2>10, <3>1, <3>2, <3>4 DEF Splits
  <2> QED
    BY <2>4, <2>8, <2>9, <2>10 DEF Splits
<1> QED
  BY <1>2, <1>3

\* A group over documents named one by one.
ListGroup(g, part, tenant) ==
  /\ g.document_ids = [i \in DOMAIN part |-> part[i]._id]
  /\ g.document_count = Len(part)
  /\ g.filter.ids = {part[i]._id : i \in DOMAIN part} /\ g.filter.tenant = tenant
  /\ g.filter.customer = "" /\ g.filter.month = "" /\ g.filter.below = 0

\* Such groups that partition a list of documents.
Partition(G, docs, tenant) ==
  /\ \A g \in G : \E part : /\ Listing(part) /\ part # <<>> /\ ToSet(part) \subseteq ToSet(docs)
                            /\ ListGroup(g, part, tenant)
  /\ \A d \in ToSet(docs) : \E g \in G : d._id \in g.filter.ids
  /\ \A g, h \in G : g.filter.ids \cap h.filter.ids # {} => g = h

LEMMA ListGroupIds ==
  ASSUME NEW g, NEW part, NEW tenant, ListGroup(g, part, tenant)
  PROVE  /\ g.filter.ids = {d._id : d \in ToSet(part)} /\ g.filter.tenant = tenant
         /\ g.filter.customer = "" /\ g.filter.month = "" /\ g.filter.below = 0
<1>1. g.filter.ids = {part[i]._id : i \in DOMAIN part}
  BY DEF ListGroup
<1>2. PICK A, B : A = {part[i]._id : i \in DOMAIN part} /\ B = {d._id : d \in ToSet(part)}
  OBVIOUS
<1>3. ASSUME NEW x \in A PROVE x \in B
  <2>1. PICK i \in DOMAIN part : x = part[i]._id
    BY <1>2, <1>3
  <2>2. part[i] \in ToSet(part)
    BY DEF ToSet
  <2> QED
    BY <1>2, <2>1, <2>2
<1>4. ASSUME NEW x \in B PROVE x \in A
  <2>1. PICK d \in ToSet(part) : x = d._id
    BY <1>2, <1>4
  <2>2. PICK i \in DOMAIN part : d = part[i]
    BY DEF ToSet
  <2> QED
    BY <1>2, <2>1, <2>2
<1>5. A = B
  BY <1>3, <1>4
<1> QED
  BY <1>1, <1>2, <1>5 DEF ListGroup

LEMMA GroupLists ==
  ASSUME NEW tenant, NEW key, NEW part, NEW terms
  PROVE  ListGroup(Group(tenant, key, part, terms), part, tenant)
<1>1. PICK ids, of : ids = {part[i]._id : i \in DOMAIN part} /\ of = [i \in DOMAIN part |-> part[i]._id]
  OBVIOUS
<1>2. PICK f : f = [tenant |-> tenant, ids |-> ids, customer |-> "", month |-> "", below |-> 0]
  OBVIOUS
<1>3. PICK g : g = Group(tenant, key, part, terms)
  OBVIOUS
<1>4. g.filter = f /\ g.document_ids = of /\ g.document_count = Len(part)
  BY <1>1, <1>2, <1>3 DEF Group, AnyDocument
<1>5. f.ids = ids /\ f.tenant = tenant /\ f.customer = "" /\ f.month = "" /\ f.below = 0
  BY <1>2
<1>6. ListGroup(g, part, tenant)
  BY <1>1, <1>4, <1>5 DEF ListGroup
<1> QED
  BY <1>3, <1>6

\* Parts of a list share a document if they share an id.
LEMMA SharedId ==
  ASSUME NEW docs, Listing(docs), NEW A \in SUBSET ToSet(docs), NEW B \in SUBSET ToSet(docs),
         {d._id : d \in A} \cap {d._id : d \in B} # {}
  PROVE  A \cap B # {}
<1>1. PICK a \in A, b \in B : a._id = b._id
  OBVIOUS
<1>2. PICK i \in DOMAIN docs : docs[i] = a
  BY DEF ToSet
<1>3. PICK k \in DOMAIN docs : docs[k] = b
  BY DEF ToSet
<1>4. i = k
  BY <1>1, <1>2, <1>3 DEF Listing
<1> QED
  BY <1>2, <1>3, <1>4

TermsIn(docs, terms, part) == UNION {ToSet(terms[i]) : i \in {k \in DOMAIN docs : Contains(part, docs[k])}}

\* topical_groups_from_docs (signatures, then months or hash shards) puts every document
\* of its list into exactly one group, whatever the words, months and digests.
THEOREM TopicalPartition ==
  ASSUME NEW docs, Listing(docs), NEW tenant, NEW target \in Nat \ {0}
  PROVE  Partition(TopicalGroups(docs, tenant, target), docs, tenant)
<1>1. IsList(docs)
  BY DEF Listing
<1>2. PICK terms : terms = LET toks == Tokens(docs) IN [i \in DOMAIN docs |-> TopTerms(toks[i], IdfOf(toks), 4)]
  OBVIOUS
<1>3. PICK sign : sign = [i \in DOMAIN docs |-> IF terms[i] = <<>> THEN Misc ELSE Upto(terms[i], 2)]
  OBVIOUS
<1>4. PICK bucket : bucket = [i \in DOMAIN docs |-> Picked(docs, {k \in DOMAIN docs : sign[k] = sign[i]})]
  OBVIOUS
<1>5. PICK G : G = TopicalGroups(docs, tenant, target)
  OBVIOUS
<1>6. G = UNION {{Group(tenant, <<"topic", sig, p[2]>>, p[1], TermsIn(docs, terms, p[1])) :
                    p \in SplitByTime(Picked(docs, {i \in DOMAIN docs : sign[i] = sig}), target)} :
                 sig \in {sign[i] : i \in DOMAIN docs}}
  BY <1>2, <1>3, <1>5 DEF TopicalGroups, TermsIn
<1>7. \A g : g \in G <=> \E i \in DOMAIN docs : \E p \in SplitByTime(bucket[i], target) :
                           g = Group(tenant, <<"topic", sign[i], p[2]>>, p[1], TermsIn(docs, terms, p[1]))
  <2>1. PICK of : of = [sig \in {sign[i] : i \in DOMAIN docs} |->
                          {Group(tenant, <<"topic", sig, p[2]>>, p[1], TermsIn(docs, terms, p[1])) :
                             p \in SplitByTime(Picked(docs, {i \in DOMAIN docs : sign[i] = sig}), target)}]
    OBVIOUS
  <2>2. ASSUME NEW g PROVE g \in G <=> \E sig \in {sign[i] : i \in DOMAIN docs} : g \in of[sig]
    <3>1. g \in G <=> \E sig \in {sign[i] : i \in DOMAIN docs} :
                        g \in {Group(tenant, <<"topic", sig, p[2]>>, p[1], TermsIn(docs, terms, p[1])) :
                             p \in SplitByTime(Picked(docs, {i \in DOMAIN docs : sign[i] = sig}), target)}
      BY <1>6
    <3>2. \A sig \in {sign[i] : i \in DOMAIN docs} :
             of[sig] = {Group(tenant, <<"topic", sig, p[2]>>, p[1], TermsIn(docs, terms, p[1])) :
                             p \in SplitByTime(Picked(docs, {i \in DOMAIN docs : sign[i] = sig}), target)}
      BY <2>1
    <3> QED
      BY <3>1, <3>2
  <2>3. \A g : g \in G <=> \E i \in DOMAIN docs : g \in of[sign[i]]
    BY <2>2
  <2>4. \A i \in DOMAIN docs : \A g :
          g \in of[sign[i]] <=> \E p \in SplitByTime(bucket[i], target) :
                               g = Group(tenant, <<"topic", sign[i], p[2]>>, p[1], TermsIn(docs, terms, p[1]))
    BY <1>4, <2>1
  <2>5. SUFFICES ASSUME NEW g
                 PROVE  g \in G <=> \E i \in DOMAIN docs : \E p \in SplitByTime(bucket[i], target) :
                           g = Group(tenant, <<"topic", sign[i], p[2]>>, p[1], TermsIn(docs, terms, p[1]))
    OBVIOUS
  <2>6. PICK has : has = [i \in DOMAIN docs |-> \E p \in SplitByTime(bucket[i], target) :
                           g = Group(tenant, <<"topic", sign[i], p[2]>>, p[1], TermsIn(docs, terms, p[1]))]
    OBVIOUS
  <2>7. \A i \in DOMAIN docs : g \in of[sign[i]] <=> has[i]
    BY <2>4, <2>6
  <2>8. g \in G <=> \E i \in DOMAIN docs : has[i]
    BY <2>3, <2>7
  <2> QED
    BY <2>6, <2>8, Zenon
<1>8. ASSUME NEW i \in DOMAIN docs
      PROVE  /\ Listing(bucket[i]) /\ bucket[i] # <<>> /\ ToSet(bucket[i]) \subseteq ToSet(docs)
             /\ \A k \in DOMAIN docs : docs[k] \in ToSet(bucket[i]) => sign[k] = sign[i]
             /\ docs[i] \in ToSet(bucket[i])
  <2>1. PICK I : I = {k \in DOMAIN docs : sign[k] = sign[i]}
    OBVIOUS
  <2>2. I \in SUBSET (DOMAIN docs) /\ I # {} /\ bucket[i] = Picked(docs, I)
    BY <1>4, <2>1
  <2>3. /\ Listing(bucket[i]) /\ bucket[i] # <<>> /\ ToSet(bucket[i]) \subseteq ToSet(docs)
        /\ ToSet(bucket[i]) = {docs[k] : k \in I}
    BY <2>2, ListingKept
  <2>4. ASSUME NEW k \in DOMAIN docs, docs[k] \in ToSet(bucket[i]) PROVE sign[k] = sign[i]
    <3>1. PICK l \in I : docs[k] = docs[l]
      BY <2>3, <2>4
    <3>2. k = l
      BY <2>1, <3>1 DEF Listing
    <3> QED
      BY <2>1, <3>2
  <2> QED
    BY <2>1, <2>3, <2>4
<1>9. \A i \in DOMAIN docs : Splits(SplitByTime(bucket[i], target), bucket[i])
  BY <1>8, SplitByTimeSplits
<1>10. ASSUME NEW g \in G
      PROVE  \E part : /\ Listing(part) /\ part # <<>> /\ ToSet(part) \subseteq ToSet(docs)
                       /\ ListGroup(g, part, tenant)
  <2>1. PICK i \in DOMAIN docs : \E p \in SplitByTime(bucket[i], target) :
          g = Group(tenant, <<"topic", sign[i], p[2]>>, p[1], TermsIn(docs, terms, p[1]))
    BY <1>7
  <2>0. PICK p \in SplitByTime(bucket[i], target) :
          g = Group(tenant, <<"topic", sign[i], p[2]>>, p[1], TermsIn(docs, terms, p[1]))
    BY <2>1
  <2>2. Listing(p[1]) /\ p[1] # <<>> /\ ToSet(p[1]) \subseteq ToSet(docs)
    BY <1>8, <1>9 DEF Splits
  <2>3. ListGroup(g, p[1], tenant)
    BY <2>0, GroupLists
  <2> QED
    BY <2>2, <2>3
<1>11. ASSUME NEW d \in ToSet(docs) PROVE \E g \in G : d._id \in g.filter.ids
  <2>1. PICK i \in DOMAIN docs : docs[i] = d
    BY DEF ToSet
  <2>2. PICK p \in SplitByTime(bucket[i], target) : d \in ToSet(p[1])
    BY <1>8, <1>9, <2>1 DEF Splits
  <2>3. PICK g : g = Group(tenant, <<"topic", sign[i], p[2]>>, p[1], TermsIn(docs, terms, p[1]))
    OBVIOUS
  <2>4. g \in G
    BY <1>7, <2>3
  <2>5. g.filter.ids = {e._id : e \in ToSet(p[1])}
    <3>1. ListGroup(g, p[1], tenant)
      BY <2>3, GroupLists
    <3> QED
      BY <3>1, ListGroupIds
  <2> QED
    BY <2>2, <2>4, <2>5
<1>12. ASSUME NEW g \in G, NEW h \in G, g.filter.ids \cap h.filter.ids # {} PROVE g = h
  <2>1. PICK i \in DOMAIN docs : \E p \in SplitByTime(bucket[i], target) :
          g = Group(tenant, <<"topic", sign[i], p[2]>>, p[1], TermsIn(docs, terms, p[1]))
    BY <1>7
  <2>0. PICK p \in SplitByTime(bucket[i], target) :
          g = Group(tenant, <<"topic", sign[i], p[2]>>, p[1], TermsIn(docs, terms, p[1]))
    BY <2>1
  <2>2. PICK k \in DOMAIN docs : \E q \in SplitByTime(bucket[k], target) :
          h = Group(tenant, <<"topic", sign[k], q[2]>>, q[1], TermsIn(docs, terms, q[1]))
    BY <1>7
  <2>20. PICK q \in SplitByTime(bucket[k], target) :
          h = Group(tenant, <<"topic", sign[k], q[2]>>, q[1], TermsIn(docs, terms, q[1]))
    BY <2>2
  <2>3. g.filter.ids = {e._id : e \in ToSet(p[1])} /\ h.filter.ids = {e._id : e \in ToSet(q[1])}
    <3>1. ListGroup(g, p[1], tenant) /\ ListGroup(h, q[1], tenant)
      BY <2>0, <2>20, GroupLists
    <3> QED
      BY <3>1, ListGroupIds
  <2>4. /\ ToSet(p[1]) \subseteq ToSet(bucket[i]) /\ ToSet(q[1]) \subseteq ToSet(bucket[k])
        /\ ToSet(bucket[i]) \subseteq ToSet(docs) /\ ToSet(bucket[k]) \subseteq ToSet(docs)
    BY <1>8, <1>9 DEF Splits
  <2>5. PICK A, B : A = ToSet(p[1]) /\ B = ToSet(q[1])
    OBVIOUS
  <2>6. A \cap B # {}
    <3>1. A \in SUBSET ToSet(docs) /\ B \in SUBSET ToSet(docs)
      BY <2>4, <2>5
    <3>2. {d._id : d \in A} \cap {d._id : d \in B} # {}
      BY <1>12, <2>3, <2>5
    <3> QED
      BY <3>1, <3>2, SharedId
  <2>7. PICK d \in ToSet(p[1]) : d \in ToSet(q[1])
    BY <2>5, <2>6
  <2>8. PICK l \in DOMAIN docs : docs[l] = d
    BY <2>4, <2>7 DEF ToSet
  <2>9. sign[i] = sign[k]
    <3>1. docs[l] \in ToSet(bucket[i]) /\ docs[l] \in ToSet(bucket[k])
      BY <2>4, <2>7, <2>8
    <3>2. sign[l] = sign[i] /\ sign[l] = sign[k]
      BY <1>8, <3>1
    <3> QED
      BY <3>2
  <2>10. bucket[i] = bucket[k]
    BY <1>4, <2>9
  <2>11. p = q
    BY <1>9, <2>7, <2>10 DEF Splits
  <2> QED
    BY <2>0, <2>20, <2>9, <2>11
<1> QED
  BY <1>5, <1>10, <1>11, <1>12 DEF Partition

\* A partition of a list of documents has finitely many groups, and one for each document.
LEMMA PartitionIs ==
  ASSUME NEW docs, Listing(docs), NEW tenant, NEW G, Partition(G, docs, tenant)
  PROVE  /\ IsFiniteSet(G)
         /\ \A d \in ToSet(docs) : \E g \in G : {h \in G : d._id \in h.filter.ids} = {g}
<1>1. \A d \in ToSet(docs) : \E g \in G : d._id \in g.filter.ids /\ \A h \in G : d._id \in h.filter.ids => h = g
  BY DEF Partition
<1>2. PICK f : f = [d \in ToSet(docs) |-> CHOOSE g \in G : d._id \in g.filter.ids]
  OBVIOUS
<1>3. \A d \in ToSet(docs) : f[d] \in G /\ d._id \in f[d].filter.ids
  BY <1>1, <1>2
<1>4. ASSUME NEW g \in G PROVE \E d \in ToSet(docs) : f[d] = g
  <2>1. PICK part : /\ Listing(part) /\ part # <<>> /\ ToSet(part) \subseteq ToSet(docs)
                    /\ ListGroup(g, part, tenant)
    BY DEF Partition
  <2>2. PICK d \in ToSet(part) : TRUE
    BY <2>1, NotEmpty DEF Listing
  <2>3. d._id \in g.filter.ids /\ d \in ToSet(docs)
    <3>1. g.filter.ids = {e._id : e \in ToSet(part)}
      BY <2>1, ListGroupIds
    <3> QED
      BY <2>1, <2>2, <3>1
  <2>4. f[d] = g
    BY <1>1, <1>3, <2>3
  <2> QED
    BY <2>3, <2>4
<1>5. f \in Surjection(ToSet(docs), G)
  BY <1>2, <1>3, <1>4 DEF Surjection
<1>6. IsFiniteSet(ToSet(docs))
  BY DistinctCount DEF Listing
<1>7. IsFiniteSet(G)
  BY <1>5, <1>6, FS_Surjection
<1>8. ASSUME NEW d \in ToSet(docs) PROVE \E g \in G : {h \in G : d._id \in h.filter.ids} = {g}
  <2>1. PICK g \in G : d._id \in g.filter.ids /\ \A h \in G : d._id \in h.filter.ids => h = g
    BY <1>1
  <2> QED
    BY <2>1
<1> QED
  BY <1>7, <1>8

-----------------------------------------------------------------------------
(* Rebuilding dirty groups.                                                *)

Rebuild(w) == job[w].kind = "dirty"

\* What groups_touching_ids looks for.
Touches(n, j) == n.tenant = j.tenant /\ n.type = "group" /\ ToSet(n.document_ids) \cap j.changed # {}

\* Each of the ids whose document exists is in exactly one of the new groups.
InOne(fresh, id) == Cardinality({g \in fresh : Contains(g.document_ids, id)}) = 1
Regrouped(c, ids, fresh) ==
  \A id \in ids \cap {d._id : d \in ToSet(source[c])} : InOne(fresh, id)

\* Every group of the list ns that touches what changed is one of those from the k-th on.
Awaits(j, ns, dirty, k) ==
  \A i \in DOMAIN ns : Touches(ns[i], j) => \E l \in k .. Len(dirty) : ns[i]._id = dirty[l]._id

Found(j, had, ns) ==
  /\ had.at = 1 /\ IsList(had.dirty) /\ had.ids = Members(had.dirty, j.changed)
  /\ Awaits(j, ns, had.dirty, 1)

Deleting(j, had, ns) ==
  /\ IsList(had.dirty) /\ had.at \in 1 .. Len(had.dirty)
  /\ Awaits(j, ns, had.dirty, had.at)
  /\ Regrouped(j.coll, Members(had.dirty, j.changed), had.fresh)

Rebuilt(j, dirty, fresh, ns) ==
  /\ Regrouped(j.coll, Members(dirty, j.changed), fresh)
  /\ \A i \in DOMAIN ns : ~ Touches(ns[i], j)

\* While a rebuild is alone, the groups it has yet to delete are the ones that touch what
\* changed, and the new groups partition the documents that it read.
DirtyInv ==
  /\ IsList(nodes)
  /\ \A w \in Worker : alone[w] /\ Rebuild(w) =>
       /\ pc[w] = "find"   => have[w].at = 1
       /\ pc[w] = "read"   => Found(job[w], have[w], nodes)
       /\ pc[w] = "delete" => Deleting(job[w], have[w], nodes)
  /\ ended.job.kind = "dirty" => Rebuilt(ended.job, ended.dirty, ended.fresh, nodes)

LEMMA TopicalRegroups ==
  ASSUME NEW docs, Listing(docs), NEW tenant, NEW target \in Nat \ {0}, NEW d \in ToSet(docs)
  PROVE  InOne(TopicalGroups(docs, tenant, target), d._id)
<1>1. PICK G : G = TopicalGroups(docs, tenant, target)
  OBVIOUS
<1>2. Partition(G, docs, tenant)
  BY <1>1, TopicalPartition
<1>3. PICK g \in G : {h \in G : d._id \in h.filter.ids} = {g}
  BY <1>2, PartitionIs
<1>4. ASSUME NEW h \in G PROVE Contains(h.document_ids, d._id) <=> d._id \in h.filter.ids
  <2>1. PICK part : Listing(part) /\ ListGroup(h, part, tenant)
    BY <1>2 DEF Partition
  <2>2. PICK n \in Nat : n = Len(part) /\ DOMAIN part = 1 .. n
    BY <2>1, ListIs DEF Listing
  <2>3. PICK ids : ids = h.document_ids
    OBVIOUS
  <2>4. ids = [i \in 1 .. n |-> part[i]._id] /\ h.filter.ids = {part[i]._id : i \in 1 .. n}
    BY <2>1, <2>2, <2>3 DEF ListGroup
  <2>5. Len(ids) = n
    BY <2>4, ListOf
  <2>6. Contains(ids, d._id) <=> \E i \in 1 .. n : part[i]._id = d._id
    BY <2>4, <2>5 DEF Contains
  <2> QED
    BY <2>3, <2>4, <2>6
<1>5. {h \in G : Contains(h.document_ids, d._id)} = {g}
  BY <1>3, <1>4
<1> QED
  BY <1>1, <1>5, FS_Singleton DEF InOne

LEMMA ReadRegroups ==
  ASSUME Documents, NEW c \in DOMAIN Source, NEW ids, NEW tenant, NEW target \in Nat \ {0}, NEW docs,
         docs = Filter(source[c], LAMBDA d : d._id \in ids)
  PROVE  Regrouped(c, ids, IF docs = <<>> THEN {} ELSE TopicalGroups(docs, tenant, target))
<1>1. PICK s, I : s = source[c] /\ I = {i \in DOMAIN s : s[i]._id \in ids}
  OBVIOUS
<1>2. docs = Picked(s, I)
  BY <1>1 DEF Filter
<1>3. Listing(s)
  BY <1>1 DEF Documents
<1>4. I \in SUBSET (DOMAIN s)
  BY <1>1
<1>5. Listing(docs) /\ ToSet(docs) = {s[i] : i \in I}
  BY <1>2, <1>3, <1>4, ListingPicked
<1>6. ASSUME NEW id \in ids \cap {d._id : d \in ToSet(source[c])}
      PROVE  docs # <<>> /\ InOne(TopicalGroups(docs, tenant, target), id)
  <2>1. PICK i \in DOMAIN s : s[i]._id = id
    BY <1>1 DEF ToSet
  <2>2. s[i] \in ToSet(docs)
    BY <1>1, <1>5, <2>1
  <2>3. docs # <<>>
    BY <2>2, EmptyIsList DEF ToSet
  <2>4. PICK d \in ToSet(docs) : d._id = id
    BY <2>1, <2>2
  <2>5. InOne(TopicalGroups(docs, tenant, target), d._id)
    BY <1>5, TopicalRegroups
  <2> QED
    BY <2>3, <2>4, <2>5
<1> QED
  BY <1>6 DEF Regrouped

LEMMA NodesStayList ==
  ASSUME IsList(nodes), [Next]_vars
  PROVE  IsList(nodes')
<1>1. ASSUME NEW I \in SUBSET (DOMAIN nodes), nodes' = Picked(nodes, I) PROVE IsList(nodes')
  BY <1>1, PickedIs
<1>2. CASE EditSource \/ UNCHANGED vars
  BY <1>2 DEF EditSource, vars
<1>3. ASSUME NEW w \in Worker, EraseTree(w) PROVE IsList(nodes')
  <2>1. PICK I : I = {i \in DOMAIN nodes : nodes[i].tenant # job[w].tenant}
    OBVIOUS
  <2>2. nodes' = Picked(nodes, I)
    BY <1>3, <2>1 DEF EraseTree, Filter
  <2> QED
    BY <1>1, <2>1, <2>2
<1>4. ASSUME NEW w \in Worker, DeleteDirty(w) PROVE IsList(nodes')
  <2>1. PICK I : I = {i \in DOMAIN nodes : nodes[i]._id # have[w].dirty[have[w].at]._id}
    OBVIOUS
  <2>2. nodes' = Picked(nodes, I)
    BY <1>4, <2>1 DEF DeleteDirty, Filter
  <2> QED
    BY <1>1, <2>1, <2>2
<1>5. ASSUME NEW w \in Worker, InsertNode(w) PROVE IsList(nodes')
  <2>1. PICK n : n = have[w].batch[1]
    OBVIOUS
  <2>2. nodes' = nodes \/ nodes' = Append(nodes, n)
    BY <1>5, <2>1 DEF InsertNode
  <2>3. IsList(Append(nodes, n))
    BY Appended
  <2> QED
    BY <2>2, <2>3
<1>6. ASSUME NEW w \in Worker, Step(w), ~ EraseTree(w), ~ DeleteDirty(w), ~ InsertNode(w) PROVE nodes' = nodes
  BY <1>6 DEF Step, Start, Crash, Discover, Collect, NextColumn, Customers, FindDirty, ReadMembers, EraseChunks,
       Chunk, InsertChunk
<1> QED
  BY <1>2, <1>3, <1>4, <1>5, <1>6 DEF Next

\* What a rebuild that is alone does next.
LEMMA RebuildMoves ==
  ASSUME DirtyInv, Control, Documents, NEW w \in Worker, alone[w], Rebuild(w), Step(w), ~ Start(w),
         NEW j, j = job[w]
  PROVE  \E where, had :
           /\ Goto(w, where, had) /\ where # "find"
           /\ where = "read"   => Found(j, had, nodes')
           /\ where = "delete" => Deleting(j, had, nodes')
           /\ where = "done"   => Rebuilt(j, had.dirty, had.fresh, nodes')
<1>1. j \in Job /\ j.kind = "dirty" /\ w \in Running /\ DOMAIN have[w] = Fields
  <2>1. j \in Job /\ j.kind = "dirty" /\ pc[w] \in PlacesOf(j.kind) /\ DOMAIN have[w] = Fields
    BY IdleIs DEF Control, Fits, Rebuild
  <2> QED
    BY <2>1 DEF PlacesOf, Running
<1>2. pc[w] \in {"find", "read", "delete"}
  BY <1>1 DEF Control, Fits, PlacesOf, Running
<1>3. Crash(w) \/ FindDirty(w) \/ ReadMembers(w) \/ DeleteDirty(w)
  BY <1>1, <1>2 DEF Step, EraseTree, Discover, Collect, Customers, InsertNode, EraseChunks, Chunk, InsertChunk
<1>4. CASE Crash(w)
  BY <1>4 DEF Crash
<1>5. CASE FindDirty(w)
  <2>1. PICK I : I = {i \in DOMAIN nodes : Touches(nodes[i], j)}
    OBVIOUS
  <2>2. PICK dirty : dirty = Touching(j.tenant, j.changed)
    OBVIOUS
  <2>3. dirty = Picked(nodes, I)
    BY <2>1, <2>2 DEF Touching, Filter, Touches
  <2>4. IsList(dirty) /\ ToSet(dirty) = {nodes[i] : i \in I}
    <3>1. I \in SUBSET (DOMAIN nodes) /\ IsList(nodes)
      BY <2>1 DEF DirtyInv
    <3> QED
      BY <2>3, <3>1, PickedIs, PickedSet
  <2>5. PICK had : had = [have[w] EXCEPT !.dirty = dirty, !.ids = Members(dirty, j.changed)]
    OBVIOUS
  <2>6. Goto(w, "read", had) /\ nodes' = nodes /\ pc[w] = "find"
    BY <1>5, <2>2, <2>5 DEF FindDirty
  <2>7. had.at = 1 /\ had.dirty = dirty /\ had.ids = Members(dirty, j.changed)
    BY <1>1, <2>5, <2>6 DEF Fields, DirtyInv
  <2>8. Awaits(j, nodes, dirty, 1)
    <3>1. SUFFICES ASSUME NEW i \in DOMAIN nodes, Touches(nodes[i], j)
                   PROVE  \E l \in 1 .. Len(dirty) : nodes[i]._id = dirty[l]._id
      BY DEF Awaits
    <3>2. nodes[i] \in ToSet(dirty)
      BY <2>1, <2>4, <3>1
    <3>3. PICK l \in DOMAIN dirty : dirty[l] = nodes[i]
      BY <3>2 DEF ToSet
    <3>4. DOMAIN dirty = 1 .. Len(dirty)
      BY <2>4, ListIs
    <3> QED
      BY <3>3, <3>4
  <2>9. Found(j, had, nodes')
    BY <2>4, <2>6, <2>7, <2>8 DEF Found
  <2> QED
    BY <2>6, <2>9
<1>6. CASE ReadMembers(w)
  <2>1. Found(j, have[w], nodes) /\ pc[w] = "read"
    BY <1>6 DEF ReadMembers, DirtyInv
  <2>2. PICK ids, dirty : ids = have[w].ids /\ dirty = have[w].dirty
    OBVIOUS
  <2>3. PICK docs : docs = Filter(source[j.coll], LAMBDA d : d._id \in ids)
    OBVIOUS
  <2>4. PICK fresh : fresh = IF docs = <<>> THEN {} ELSE TopicalGroups(docs, j.tenant, j.target)
    OBVIOUS
  <2>5. PICK where, had : where = (IF dirty = <<>> THEN "done" ELSE "delete") /\ had = [have[w] EXCEPT !.fresh = fresh]
    OBVIOUS
  <2>6. Goto(w, where, had) /\ nodes' = nodes
    BY <1>6, <2>2, <2>3, <2>4, <2>5 DEF ReadMembers
  <2>7. had.at = 1 /\ had.dirty = dirty /\ had.fresh = fresh
    BY <1>1, <2>1, <2>2, <2>5 DEF Found, Fields
  <2>8. j.target \in Nat \ {0} /\ j.coll \in DOMAIN Source
    BY <1>1, JobAssumption
  <2>9. Regrouped(j.coll, ids, fresh)
    BY <2>3, <2>4, <2>8, ReadRegroups
  <2>10. IsList(dirty) /\ ids = Members(dirty, j.changed) /\ Awaits(j, nodes, dirty, 1)
    BY <2>1, <2>2 DEF Found
  <2>11. dirty # <<>> => 1 \in 1 .. Len(dirty)
    BY <2>10, NotEmpty
  <2>12. dirty = <<>> => Len(dirty) = 0
    BY EmptyIsList
  <2>13. where = "done" => \A i \in DOMAIN nodes : ~ Touches(nodes[i], j)
    BY <2>5, <2>10, <2>12 DEF Awaits
  <2>14. where = "delete" => Deleting(j, had, nodes')
    BY <2>5, <2>6, <2>7, <2>9, <2>10, <2>11 DEF Deleting
  <2>15. where = "done" => Rebuilt(j, had.dirty, had.fresh, nodes')
    BY <2>6, <2>7, <2>9, <2>10, <2>13 DEF Rebuilt
  <2> QED
    BY <2>5, <2>6, <2>14, <2>15
<1>7. CASE DeleteDirty(w)
  <2>1. Deleting(j, have[w], nodes)
    BY <1>7 DEF DeleteDirty, DirtyInv
  <2>2. PICK at, dirty, n : at = have[w].at /\ dirty = have[w].dirty /\ n = Len(dirty)
    OBVIOUS
  <2>3. n \in Nat /\ at \in 1 .. n /\ IsList(dirty) /\ Awaits(j, nodes, dirty, at)
    BY <2>1, <2>2, ListIs DEF Deleting
  <2>4. PICK where, had : where = (IF at = n THEN "done" ELSE "delete") /\ had = [have[w] EXCEPT !.at = @ + 1]
    OBVIOUS
  <2>5. PICK I : I = {i \in DOMAIN nodes : nodes[i]._id # dirty[at]._id}
    OBVIOUS
  <2>6. Goto(w, where, had) /\ nodes' = Picked(nodes, I)
    BY <1>7, <2>2, <2>4, <2>5 DEF DeleteDirty, Filter
  <2>7. had.at = at + 1 /\ had.dirty = dirty /\ had.fresh = have[w].fresh
    BY <1>1, <2>2, <2>4 DEF Fields
  <2>8. Regrouped(j.coll, Members(dirty, j.changed), had.fresh)
    BY <2>1, <2>2, <2>7 DEF Deleting
  <2>9. ASSUME NEW i \in DOMAIN nodes', Touches(nodes'[i], j)
        PROVE  \E l \in at + 1 .. n : nodes'[i]._id = dirty[l]._id
    <3>1. nodes'[i] \in {nodes[k] : k \in I}
      <4>0. I \in SUBSET (DOMAIN nodes) /\ IsList(nodes)
        BY <2>5 DEF DirtyInv
      <4>1. ToSet(nodes') = {nodes[k] : k \in I}
        BY <2>6, <4>0, PickedSet
      <4> QED
        BY <2>9, <4>1 DEF ToSet
    <3>2. PICK k \in I : nodes'[i] = nodes[k]
      BY <3>1
    <3>3. k \in DOMAIN nodes /\ nodes[k]._id # dirty[at]._id /\ Touches(nodes[k], j)
      BY <2>5, <2>9, <3>2
    <3>4. PICK l \in at .. n : nodes[k]._id = dirty[l]._id
      BY <2>2, <2>3, <3>3 DEF Awaits
    <3>5. l \in at + 1 .. n
      BY <2>3, <3>3, <3>4
    <3> QED
      BY <3>2, <3>4, <3>5
  <2>10. Awaits(j, nodes', dirty, at + 1)
    BY <2>2, <2>9 DEF Awaits
  <2>11. where = "delete" => Deleting(j, had, nodes')
    <3>1. where = "delete" => at + 1 \in 1 .. n
      BY <2>3, <2>4
    <3> QED
      BY <2>2, <2>3, <2>7, <2>8, <2>10, <3>1 DEF Deleting
  <2>12. where = "done" => Rebuilt(j, had.dirty, had.fresh, nodes')
    <3>1. where = "done" => at = n
      BY <2>4
    <3>2. at = n => \A i \in DOMAIN nodes' : ~ Touches(nodes'[i], j)
      BY <2>3, <2>9
    <3> QED
      BY <2>7, <2>8, <3>1, <3>2 DEF Rebuilt
  <2> QED
    BY <2>4, <2>6, <2>11, <2>12
<1> QED
  BY <1>3, <1>4, <1>5, <1>6, <1>7

LEMMA DirtyInvInit ==
  ASSUME Init
  PROVE  DirtyInv
<1>1. nodes = <<>> /\ alone = [w \in Worker |-> FALSE] /\ ended = NoneEnded
  BY DEF Init
<1>2. ended.job.kind = "none"
  BY <1>1, IdleIs DEF NoneEnded, Ended
<1> QED
  BY <1>1, <1>2, EmptyIsList DEF DirtyInv

LEMMA DirtyInvNext ==
  ASSUME DirtyInv, Control, Control', Documents, [Next]_vars
  PROVE  DirtyInv'
<1>1. IsList(nodes')
  BY NodesStayList DEF DirtyInv
<1>2. CASE UNCHANGED vars
  BY <1>2 DEF vars, worker, DirtyInv, Rebuild, Found, Deleting, Awaits, Rebuilt, Regrouped
<1>3. ASSUME NEW w \in Worker, Step(w), Moves(w), alone[w], Rebuild(w) PROVE DirtyInv'
  <2>1. PICK j : j = job[w]
    OBVIOUS
  <2>2. ~ Start(w) /\ w \in Running
    BY <1>3 DEF Moves, Start, Running
  <2>3. PICK where, had :
          /\ Goto(w, where, had) /\ where # "find"
          /\ where = "read"   => Found(j, had, nodes')
          /\ where = "delete" => Deleting(j, had, nodes')
          /\ where = "done"   => Rebuilt(j, had.dirty, had.fresh, nodes')
    BY <1>3, <2>1, <2>2, RebuildMoves
  <2>4. source' = source
    BY <2>3, OthersStay
  <2>5. ASSUME NEW v \in Worker, alone'[v] PROVE v = w /\ where \notin Over /\ job'[v] = j /\ pc'[v] = where /\ have'[v] = had
    <3>1. v = w
      BY <2>2, <2>3, <2>5, OthersStay DEF Control
    <3> QED
      BY <2>1, <2>3, <2>5, <3>1, OthersStay
  <2>6. Deleting(j, had, nodes') => Deleting(j, had, nodes)'
    BY <2>4 DEF Deleting, Regrouped, Awaits
  <2>7. ASSUME ended'.job.kind = "dirty"
        PROVE  Rebuilt(ended.job, ended.dirty, ended.fresh, nodes)'
    <3>1. where = "done" /\ ended' = Ended(j, had) /\ ended'.job = j
      BY <2>1, <2>3, <2>7, EndsAlone, IdleIs
    <3>2. ended'.dirty = had.dirty /\ ended'.fresh = had.fresh
      BY <3>1 DEF Ended
    <3> QED
      BY <2>3, <2>4, <3>1, <3>2 DEF Rebuilt, Regrouped
  <2>8. ASSUME NEW v \in Worker, alone'[v]
        PROVE  /\ pc'[v] # "find"
               /\ pc'[v] = "read"   => Found(job[v], have[v], nodes)'
               /\ pc'[v] = "delete" => Deleting(job[v], have[v], nodes)'
    <3>1. pc'[v] = where /\ job'[v] = j /\ have'[v] = had
      BY <2>5, <2>8
    <3>2. where = "read" => Found(job[v], have[v], nodes)'
      BY <2>3, <3>1 DEF Found, Awaits
    <3>3. where = "delete" => Deleting(job[v], have[v], nodes)'
      BY <2>3, <2>4, <3>1 DEF Deleting, Regrouped, Awaits
    <3> QED
      BY <2>3, <3>1, <3>2, <3>3
  <2> QED
    BY <1>1, <2>7, <2>8 DEF DirtyInv
<1>4. ASSUME NEW w \in Worker, Step(w), Moves(w), ~ alone[w] \/ ~ Rebuild(w) PROVE DirtyInv'
  <2>1. PICK where, had : Goto(w, where, had)
    BY <1>4 DEF Moves
  <2>2. ended'.job.kind # "dirty"
    BY <1>4, <2>1, EndsAlone, IdleIs DEF Rebuild
  <2>3. ASSUME NEW v \in Worker, alone'[v], Rebuild(v)' PROVE FALSE
    <3>1. v = w
      BY <1>4, <2>1, <2>3, OthersStay DEF Control, Moves
    <3>2. alone[w] /\ job'[w] = job[w]
      BY <2>1, <2>3, <3>1, OthersStay
    <3> QED
      BY <1>4, <2>3, <3>1, <3>2 DEF Rebuild
  <2> QED
    BY <1>1, <2>2, <2>3 DEF DirtyInv
<1>5. ASSUME NEW w \in Worker, Start(w) PROVE DirtyInv'
  <2>1. have' = have /\ ended' = NoneEnded /\ alone' = [v \in Worker |-> v = w /\ Running = {}]
    BY <1>5 DEF Start
  <2>2. ended'.job.kind = "none"
    BY <2>1, IdleIs DEF NoneEnded, Ended
  <2>3. have[w] = Nothing
    BY <1>5, KindsAre DEF Start, Control, Fits, PlacesOf, Kinds
  <2>4. PICK j \in Job : pc' = [pc EXCEPT ![w] = IF j.kind = "dirty" THEN "find" ELSE "erase"]
    BY <1>5 DEF Start
  <2>5. pc'[w] \in {"find", "erase"}
    BY <2>4 DEF Control
  <2>6. ASSUME NEW v \in Worker, alone'[v] PROVE have'[v].at = 1 /\ pc'[v] \in {"find", "erase"}
    <3>1. v = w
      BY <2>1, <2>6
    <3> QED
      BY <2>1, <2>3, <2>5, <3>1 DEF Nothing
  <2> QED
    BY <1>1, <2>2, <2>6 DEF DirtyInv
<1>6. CASE EditSource
  <2>1. alone' = [w \in Worker |-> FALSE] /\ ended' = NoneEnded
    BY <1>6 DEF EditSource
  <2>2. ended'.job.kind = "none"
    BY <2>1, IdleIs DEF NoneEnded, Ended
  <2> QED
    BY <1>1, <2>1, <2>2 DEF DirtyInv
<1> QED
  BY <1>2, <1>3, <1>4, <1>5, <1>6, StepMoves DEF Next

\* Whatever the documents, the workers and the edits: a rebuild of dirty groups that had
\* the database to itself puts each document that exists, of a deleted group or named as
\* changed, into exactly one new group, and leaves none that changed in a group.
THEOREM RebuildsForgetNothing == Spec => []MaintenanceForgetsNothing
<1>1. Init => Control /\ Documents /\ DirtyInv
  BY ControlInit, DocumentsInit, DirtyInvInit
<1>2. Control /\ Documents /\ DirtyInv /\ [Next]_vars => (Control /\ Documents /\ DirtyInv)'
  BY ControlNext, DocumentsNext, DirtyInvNext
<1>3. ASSUME DirtyInv PROVE MaintenanceForgetsNothing
  <2>1. SUFFICES ASSUME ended.job.kind = "dirty" PROVE MaintenanceForgetsNothing
    BY DEF MaintenanceForgetsNothing
  <2>2. PICK j : j = ended.job
    OBVIOUS
  <2>3. Rebuilt(j, ended.dirty, ended.fresh, nodes)
    BY <1>3, <2>1, <2>2 DEF DirtyInv
  <2>4. \A id \in Members(ended.dirty, j.changed) \cap {d._id : d \in ToSet(source[j.coll])} : InOne(ended.fresh, id)
    BY <2>3 DEF Rebuilt, Regrouped
  <2>5. ASSUME NEW id \in j.changed
        PROVE  {i \in Under(j.tenant, ColId(j.coll), "group") : id \in ToSet(nodes[i].document_ids)} = {}
    BY <2>3, <2>5 DEF Rebuilt, Touches, Under, Tree
  <2> QED
    BY <2>2, <2>4, <2>5 DEF MaintenanceForgetsNothing, Members, InOne
<1> QED
  BY <1>1, <1>2, <1>3, PTL DEF Spec

-----------------------------------------------------------------------------
(* Cosines.                                                                *)

\* A function to natural numbers with finitely many places.
Weights(v) == IsFiniteSet(DOMAIN v) /\ \A t \in DOMAIN v : v[t] \in Nat

LEMMA VectorIs ==
  ASSUME NEW s, IsList(s), NEW idf, \A t \in ToSet(s) : idf[t] \in Nat
  PROVE  Weights(Vector(s, idf))
<1>1. PICK v : v = Vector(s, idf)
  OBVIOUS
<1>2. v = [t \in ToSet(s) |-> Occurrences(s, t) * idf[t]]
  BY <1>1 DEF Vector
<1>3. IsFiniteSet(ToSet(s))
  BY DistinctCount
<1>4. \A t \in ToSet(s) : Occurrences(s, t) \in Nat
  <2>1. SUFFICES ASSUME NEW t \in ToSet(s) PROVE Occurrences(s, t) \in Nat
    OBVIOUS
  <2>2. PICK I : I = {i \in DOMAIN s : s[i] = t}
    OBVIOUS
  <2>3. Cardinality(I) \in 0 .. Len(s) /\ Len(s) \in Nat
    BY <2>2, CountIs, ListIs
  <2> QED
    BY <2>2, <2>3 DEF Occurrences
<1>5. ASSUME NEW t \in ToSet(s) PROVE v[t] \in Nat
  <2>1. PICK a, b \in Nat : a = Occurrences(s, t) /\ b = idf[t]
    BY <1>4
  <2>2. v[t] = a * b
    BY <1>2, <2>1
  <2> QED
    BY <2>1, <2>2
<1> QED
  BY <1>1, <1>2, <1>3, <1>5 DEF Weights

LEMMA DotIs ==
  ASSUME NEW a, Weights(a), NEW b, Weights(b)
  PROVE  Dot(a, b) \in Nat
<1>1. PICK D : D = DOMAIN a \cap DOMAIN b
  OBVIOUS
<1>2. PICK h : h = [t \in D |-> a[t] * b[t]]
  OBVIOUS
<1>3. Dot(a, b) = SumFunction(h)
  BY <1>1, <1>2 DEF Dot
<1>4. IsFiniteSet(D)
  BY <1>1, FS_Subset DEF Weights
<1>5. ASSUME NEW t \in D PROVE h[t] \in Nat
  <2>1. PICK x, y \in Nat : x = a[t] /\ y = b[t]
    BY <1>1 DEF Weights
  <2>2. h[t] = x * y
    BY <1>2, <2>1
  <2> QED
    BY <2>1, <2>2
<1> QED
  BY <1>2, <1>3, <1>4, <1>5, SumIs

LEMMA CosineIs ==
  ASSUME NEW a, Weights(a), NEW b, Weights(b)
  PROVE  Cosine(a, b) \in Nat
<1>1. PICK ab, aa, bb \in Nat : ab = Dot(a, b) /\ aa = Dot(a, a) /\ bb = Dot(b, b)
  BY DotIs
<1>2. SquaredCosine(ab, aa, bb) \in Nat
  <2>1. CASE aa = 0 \/ bb = 0
    BY <2>1 DEF SquaredCosine
  <2>2. CASE aa # 0 /\ bb # 0
    <3>1. PICK x, y : x = 100 * ab * ab /\ y = aa * bb
      OBVIOUS
    <3>2. x \in Nat
      BY <1>1, <3>1
    <3>3. y \in Nat /\ y > 0
      <4>1. aa >= 1 /\ bb >= 1
        BY <1>1, <2>2
      <4> QED
        BY <1>1, <3>1, <4>1
    <3>4. x \div y \in Nat
      BY <3>2, <3>3
    <3> QED
      BY <2>2, <3>1, <3>4 DEF SquaredCosine
  <2> QED
    BY <2>1, <2>2
<1> QED
  BY <1>1, <1>2 DEF Cosine

-----------------------------------------------------------------------------
(* Medoids.                                                                *)

\* How near the elements of S are to each other.
Nearness(cos, S) == S \in SUBSET Nat /\ IsFiniteSet(S) /\ \A i, k \in S : cos[i][k] \in Nat

LEMMA FarthestIs ==
  ASSUME NEW S, NEW cos, Nearness(cos, S), NEW left \in SUBSET S, left # {}, NEW picked \in SUBSET S, picked # {}
  PROVE  Farthest(left, picked, cos) \in left
<1>1. PICK near : near = [i \in left |-> Max({cos[i][m] : m \in picked})]
  OBVIOUS
<1>2. ASSUME NEW i \in left PROVE near[i] \in Nat
  <2>1. PICK f : f = [m \in picked |-> cos[i][m]]
    OBVIOUS
  <2>2. PICK T : T = {cos[i][m] : m \in picked}
    OBVIOUS
  <2>3. f \in Surjection(picked, T)
    BY <2>1, <2>2 DEF Surjection
  <2>4. IsFiniteSet(T)
    <3>1. IsFiniteSet(picked)
      BY FS_Subset DEF Nearness
    <3> QED
      BY <2>3, <3>1, FS_Surjection
  <2>5. T \in SUBSET Nat /\ T # {}
    BY <2>2 DEF Nearness
  <2>6. Max(T) \in Nat
    BY <2>4, <2>5, MaxIs
  <2> QED
    BY <1>1, <2>2, <2>6
<1>3. PICK i \in left : \A k \in left : near[i] <= near[k]
  <2>1. PICK N : N = {near[i] : i \in left}
    OBVIOUS
  <2>2. N \in SUBSET Nat /\ N # {}
    BY <1>2, <2>1
  <2>3. PICK n \in N : \A m \in N : n <= m
    BY <2>2, Least
  <2> QED
    BY <2>1, <2>3
<1>4. PICK B : B = {i2 \in left : \A j \in left : near[i2] <= near[j]}
  OBVIOUS
<1>5. B \in SUBSET Nat /\ B # {} /\ B \subseteq left
  BY <1>3, <1>4 DEF Nearness
<1>6. Min(B) \in B
  BY <1>5, MinIs
<1>7. B = {i2 \in left : \A j \in left : Max({cos[i2][m] : m \in picked}) <= Max({cos[j][m] : m \in picked})}
  BY <1>1, <1>4
<1>8. Farthest(left, picked, cos) = Min(B)
  BY <1>7 DEF Farthest
<1> QED
  BY <1>5, <1>6, <1>8

\* The lists that _farthest_medoids goes through.
Medoids(S, cos, k, g) ==
  g = [n \in 1 .. k |-> IF n = 1 THEN <<Min(S)>>
                        ELSE Append(g[n - 1], Farthest(S \ ToSet(g[n - 1]), ToSet(g[n - 1]), cos))]

LEMMA MedoidsExist ==
  ASSUME NEW S, NEW cos, NEW k \in Nat
  PROVE  \E g : Medoids(S, cos, k, g)
<1>1. PICK P : P = {m \in Nat : \E g : Medoids(S, cos, m, g)}
  OBVIOUS
<1>2. 0 \in P
  <2>1. PICK g : g = [n \in 1 .. 0 |-> 0]
    OBVIOUS
  <2>2. g = [n \in 1 .. 0 |-> IF n = 1 THEN <<Min(S)>>
                        ELSE Append(g[n - 1], Farthest(S \ ToSet(g[n - 1]), ToSet(g[n - 1]), cos))]
    BY <2>1
  <2> QED
    BY <1>1, <2>2 DEF Medoids
<1>3. ASSUME NEW m \in P PROVE m + 1 \in P
  <2>0. m \in Nat
    BY <1>1
  <2>1. PICK g : Medoids(S, cos, m, g)
    BY <1>1
  <2>2. PICK last : last = IF m + 1 = 1 THEN <<Min(S)>> ELSE Append(g[m], Farthest(S \ ToSet(g[m]), ToSet(g[m]), cos))
    OBVIOUS
  <2>3. PICK h : h = [n \in 1 .. m + 1 |-> IF n = m + 1 THEN last ELSE g[n]]
    OBVIOUS
  <2>4. ASSUME NEW n \in 1 .. m + 1
        PROVE  h[n] = IF n = 1 THEN <<Min(S)>>
                      ELSE Append(h[n - 1], Farthest(S \ ToSet(h[n - 1]), ToSet(h[n - 1]), cos))
    <3>1. CASE n = m + 1
      <4>1. h[n] = last /\ (n # 1 => h[n - 1] = g[m])
        BY <2>0, <2>3, <3>1
      <4> QED
        BY <2>2, <3>1, <4>1
    <3>2. CASE n # m + 1
      <4>1. n \in 1 .. m /\ h[n] = g[n] /\ (n # 1 => h[n - 1] = g[n - 1])
        BY <2>0, <2>3, <3>2
      <4>2. g[n] = IF n = 1 THEN <<Min(S)>>
                   ELSE Append(g[n - 1], Farthest(S \ ToSet(g[n - 1]), ToSet(g[n - 1]), cos))
        BY <2>1, <4>1 DEF Medoids
      <4> QED
        BY <4>1, <4>2
    <3> QED
      BY <3>1, <3>2
  <2>5. h = [n \in 1 .. m + 1 |-> IF n = 1 THEN <<Min(S)>>
                        ELSE Append(h[n - 1], Farthest(S \ ToSet(h[n - 1]), ToSet(h[n - 1]), cos))]
    BY <2>3, <2>4
  <2>6. Medoids(S, cos, m + 1, h)
    BY <2>5 DEF Medoids
  <2> QED
    BY <1>1, <2>0, <2>6
<1>4. P = Nat
  BY <1>1, <1>2, <1>3, Induction
<1> QED
  BY <1>1, <1>4

LEMMA FarthestMedoidsAre ==
  ASSUME NEW S, NEW cos, Nearness(cos, S), S # {}, NEW k \in Nat \ {0}
  PROVE  LET ms == FarthestMedoids(S, cos, k) IN IsList(ms) /\ ms # <<>> /\ ToSet(ms) \subseteq S
<1>1. PICK u : u = CHOOSE g : g = [n \in 1 .. k |-> IF n = 1 THEN <<Min(S)>>
                        ELSE Append(g[n - 1], Farthest(S \ ToSet(g[n - 1]), ToSet(g[n - 1]), cos))]
  OBVIOUS
<1>2. u = [n \in 1 .. k |-> IF n = 1 THEN <<Min(S)>>
                        ELSE Append(u[n - 1], Farthest(S \ ToSet(u[n - 1]), ToSet(u[n - 1]), cos))]
  <2>0. PICK g : Medoids(S, cos, k, g)
    BY MedoidsExist
  <2>1. g = [n \in 1 .. k |-> IF n = 1 THEN <<Min(S)>>
                        ELSE Append(g[n - 1], Farthest(S \ ToSet(g[n - 1]), ToSet(g[n - 1]), cos))]
    BY <2>0 DEF Medoids
  <2> QED
    BY <1>1, <2>1
<1>3. PICK c \in Nat : c = Cardinality(S) /\ c > 0
  BY FS_CardinalityType, FS_EmptySet DEF Nearness
<1>4. PICK last : last = Smaller(k, c)
  OBVIOUS
<1>5. FarthestMedoids(S, cos, k) = u[last]
  BY <1>1, <1>3, <1>4 DEF FarthestMedoids
<1>6. last \in 1 .. k /\ last <= c
  BY <1>3, <1>4 DEF Smaller
<1>7. PICK P : P = {m \in Nat : m + 1 <= last => /\ IsList(u[m + 1]) /\ Len(u[m + 1]) = m + 1 /\ ToSet(u[m + 1]) \subseteq S}
  OBVIOUS
<1>8. 0 \in P
  <2>1. u[1] = <<Min(S)>> /\ Min(S) \in S
    BY <1>2, <1>6, MinIs DEF Nearness
  <2>2. IsList(u[1]) /\ Len(u[1]) = 1 /\ ToSet(u[1]) = {Min(S)}
    BY <2>1, Single
  <2> QED
    BY <1>7, <2>1, <2>2
<1>9. ASSUME NEW m \in P PROVE m + 1 \in P
  <2>1. m \in Nat
    BY <1>7
  <2>2. SUFFICES ASSUME m + 2 <= last
                 PROVE  IsList(u[m + 2]) /\ Len(u[m + 2]) = m + 2 /\ ToSet(u[m + 2]) \subseteq S
    BY <1>7, <2>1
  <2>3. PICK s : s = u[m + 1]
    OBVIOUS
  <2>4. IsList(s) /\ Len(s) = m + 1 /\ ToSet(s) \subseteq S
    BY <1>6, <1>7, <2>1, <2>2, <2>3
  <2>5. PICK far : far = Farthest(S \ ToSet(s), ToSet(s), cos)
    OBVIOUS
  <2>6. u[m + 2] = Append(s, far)
    <3>1. m + 2 \in 1 .. k /\ m + 2 # 1 /\ (m + 2) - 1 = m + 1
      BY <1>6, <2>1, <2>2
    <3> QED
      BY <1>2, <2>3, <2>5, <3>1
  <2>7. ToSet(s) # {}
    <3>1. 1 \in DOMAIN s
      BY <2>1, <2>4, ListIs
    <3> QED
      BY <3>1 DEF ToSet
  <2>8. S \ ToSet(s) # {}
    <3>1. SUFFICES ASSUME S = ToSet(s) PROVE FALSE
      BY <2>4
    <3>2. s \in Surjection(1 .. m + 1, S)
      BY <2>4, <3>1, ListIs DEF Surjection, ToSet
    <3>3. IsFiniteSet(1 .. m + 1) /\ Cardinality(1 .. m + 1) = m + 1
      BY <2>1, FS_Interval
    <3>4. Cardinality(S) <= m + 1
      BY <3>2, <3>3, FS_Surjection
    <3> QED
      BY <1>3, <1>6, <2>1, <2>2, <3>4
  <2>9. far \in S
    <3>1. PICK left, near : left = S \ ToSet(s) /\ near = ToSet(s)
      OBVIOUS
    <3>2. left \in SUBSET S /\ left # {} /\ near \in SUBSET S /\ near # {}
      BY <2>4, <2>7, <2>8, <3>1
    <3>3. Farthest(left, near, cos) \in left
      BY <3>2, FarthestIs
    <3> QED
      BY <2>5, <3>1, <3>3
  <2>10. IsList(u[m + 2]) /\ Len(u[m + 2]) = m + 2
    BY <2>1, <2>4, <2>6, Appended
  <2>11. ASSUME NEW i \in DOMAIN u[m + 2] PROVE u[m + 2][i] \in S
    <3>1. i \in 1 .. m + 2 /\ DOMAIN s = 1 .. m + 1
      BY <2>4, <2>10, <2>11, ListIs
    <3>2. i \in 1 .. m + 1 => u[m + 2][i] = s[i] /\ s[i] \in S
      BY <2>4, <2>6, <3>1, Appended DEF ToSet
    <3>3. i = m + 2 => u[m + 2][i] = far
      <4>1. Append(s, far)[Len(s) + 1] = far
        BY <2>4, Appended
      <4> QED
        BY <2>1, <2>4, <2>6, <4>1
    <3> QED
      BY <2>1, <2>9, <3>1, <3>2, <3>3
  <2> QED
    BY <2>10, <2>11 DEF ToSet
<1>10. P = Nat
  BY <1>7, <1>8, <1>9, Induction
<1>11. IsList(u[last]) /\ Len(u[last]) = last /\ ToSet(u[last]) \subseteq S
  <2>1. PICK m \in Nat : m + 1 = last
    BY <1>6
  <2>2. m + 1 <= last
    BY <1>6, <2>1
  <2>3. IsList(u[m + 1]) /\ Len(u[m + 1]) = m + 1 /\ ToSet(u[m + 1]) \subseteq S
    BY <1>7, <1>10, <2>2
  <2> QED
    BY <2>1, <2>3
<1> QED
  BY <1>5, <1>6, <1>11, EmptyIsList

-----------------------------------------------------------------------------
(* Partitions of a set, as lists.                                          *)

\* bs is a list of parts of S, none of them empty: each element is in one of them.
PartsOf(bs, S) ==
  /\ IsList(bs)
  /\ \A k \in DOMAIN bs : bs[k] # {} /\ bs[k] \subseteq S
  /\ \A x \in S : \E k \in DOMAIN bs : x \in bs[k]
  /\ \A k, l \in DOMAIN bs : bs[k] \cap bs[l] # {} => k = l

\* The same of a list of records with such ids.
Covers(ls, S) ==
  /\ IsList(ls)
  /\ \A k \in DOMAIN ls : "ids" \in DOMAIN ls[k] /\ ls[k].ids # {} /\ ls[k].ids \subseteq S
  /\ \A x \in S : \E k \in DOMAIN ls : x \in ls[k].ids
  /\ \A k, l \in DOMAIN ls : ls[k].ids \cap ls[l].ids # {} => k = l

LEMMA ClosestIs ==
  ASSUME NEW S, NEW cos, Nearness(cos, S), NEW ms, IsList(ms), ms # <<>>, ToSet(ms) \subseteq S, NEW i \in S
  PROVE  Closest(i, ms, cos) \in DOMAIN ms
<1>1. PICK n \in Nat : n = Len(ms) /\ DOMAIN ms = 1 .. n /\ n > 0
  <2>1. Len(ms) # 0
    BY ListIs, InSeq, EmptyIsList
  <2> QED
    BY <2>1, ListIs
<1>2. PICK near : near = [l \in DOMAIN ms |-> cos[i][ms[l]]]
  OBVIOUS
<1>3. \A l \in DOMAIN ms : near[l] \in Nat
  BY <1>2 DEF Nearness, ToSet
<1>4. PICK N : N = {near[l] : l \in DOMAIN ms}
  OBVIOUS
<1>5. N \in SUBSET Nat /\ N # {} /\ IsFiniteSet(N)
  <2>1. near \in Surjection(1 .. n, N)
    BY <1>1, <1>2, <1>4 DEF Surjection
  <2>2. IsFiniteSet(1 .. n)
    BY <1>1, FS_Interval
  <2> QED
    BY <1>1, <1>3, <1>4, <2>1, <2>2, FS_Surjection
<1>6. PICK j \in DOMAIN ms : \A l \in DOMAIN ms : near[l] <= near[j]
  <2>1. PICK m \in N : \A x \in N : x <= m
    BY <1>5, MaxIs
  <2> QED
    BY <1>4, <2>1
<1>7. PICK B : B = {k \in DOMAIN ms : \A l \in DOMAIN ms : cos[i][ms[l]] <= cos[i][ms[k]]}
  OBVIOUS
<1>8. B # {} /\ B \in SUBSET Nat /\ B \subseteq DOMAIN ms
  BY <1>1, <1>2, <1>6, <1>7
<1>9. Closest(i, ms, cos) = Min(B)
  BY <1>7 DEF Closest
<1> QED
  BY <1>8, <1>9, MinIs

LEMMA BucketsAre ==
  ASSUME NEW S, NEW cos, Nearness(cos, S), NEW ms, IsList(ms), ms # <<>>, ToSet(ms) \subseteq S
  PROVE  PartsOf(Buckets(S, ms, cos), S)
<1>1. PICK n \in Nat : n = Len(ms) /\ DOMAIN ms = 1 .. n
  BY ListIs
<1>2. PICK raw : raw = [j \in DOMAIN ms |-> {i \in S : Closest(i, ms, cos) = j}]
  OBVIOUS
<1>3. IsList(raw) /\ DOMAIN raw = 1 .. n
  BY <1>1, <1>2, ListOf
<1>4. PICK I : I = {j \in DOMAIN raw : raw[j] # {}}
  OBVIOUS
<1>5. PICK bs : bs = Picked(raw, I)
  OBVIOUS
<1>6. Buckets(S, ms, cos) = bs
  BY <1>2, <1>4, <1>5 DEF Buckets, Filter
<1>7. I \in SUBSET (DOMAIN raw)
  BY <1>4
<1>8. PICK m \in Nat : IsList(bs) /\ m = Len(bs) /\ DOMAIN bs = 1 .. m
  BY <1>3, <1>5, <1>7, PickedIs, ListIs
<1>9. PICK p \in [1 .. m -> I] :
        /\ \A k \in 1 .. m : bs[k] = raw[p[k]]
        /\ \A k, l \in 1 .. m : k < l => p[k] < p[l]
        /\ \A i \in I : \E k \in 1 .. m : p[k] = i
  BY <1>3, <1>5, <1>7, <1>8, PickedIs
<1>10. ASSUME NEW k \in DOMAIN bs PROVE bs[k] # {} /\ bs[k] \subseteq S
  <2>1. p[k] \in I /\ bs[k] = raw[p[k]]
    BY <1>8, <1>9
  <2>2. p[k] \in DOMAIN raw /\ raw[p[k]] # {}
    BY <1>4, <2>1
  <2>3. raw[p[k]] \subseteq S
    BY <1>1, <1>2, <1>3, <2>2
  <2> QED
    BY <2>1, <2>2, <2>3
<1>11. ASSUME NEW i \in S PROVE \E k \in DOMAIN bs : i \in bs[k]
  <2>1. PICK j \in DOMAIN ms : j = Closest(i, ms, cos)
    BY ClosestIs
  <2>2. i \in raw[j] /\ j \in I
    BY <1>1, <1>2, <1>3, <1>4, <2>1
  <2>3. PICK k \in 1 .. m : p[k] = j
    BY <1>9, <2>2
  <2> QED
    BY <1>8, <1>9, <2>2, <2>3
<1>12. ASSUME NEW k \in DOMAIN bs, NEW l \in DOMAIN bs, bs[k] \cap bs[l] # {} PROVE k = l
  <2>1. PICK i : i \in bs[k] /\ i \in bs[l]
    BY <1>12
  <2>2. p[k] \in DOMAIN ms /\ p[l] \in DOMAIN ms /\ i \in raw[p[k]] /\ i \in raw[p[l]]
    BY <1>1, <1>3, <1>7, <1>8, <1>9, <2>1
  <2>3. p[k] = p[l]
    BY <1>2, <2>2
  <2>4. ~ (k < l) /\ ~ (l < k)
    <3>1. p[k] \in Nat
      BY <1>1, <2>2
    <3> QED
      BY <1>8, <1>9, <2>3, <3>1
  <2> QED
    BY <1>8, <2>4
<1> QED
  BY <1>6, <1>8, <1>10, <1>11, <1>12 DEF PartsOf

LEMMA CeilingPositive ==
  ASSUME NEW a \in Nat \ {0}, NEW b \in Nat \ {0}
  PROVE  Ceiling(a, b) \in Nat
BY DEF Ceiling

LEMMA MedoidPartitionIs ==
  ASSUME NEW S, NEW cos, Nearness(cos, S), S # {}, NEW target \in Nat \ {0}
  PROVE  PartsOf(MedoidPartition(S, cos, target), S)
<1>1. CASE Cardinality(S) <= target \/ MaxPrototypes <= 1
  <2>1. PICK bs : bs = <<S>>
    OBVIOUS
  <2>2. IsList(bs) /\ DOMAIN bs = 1 .. 1 /\ bs[1] = S
    BY <2>1, Single, ListIs
  <2>3. PartsOf(bs, S)
    BY <2>2 DEF PartsOf
  <2> QED
    BY <1>1, <2>1, <2>3 DEF MedoidPartition
<1>2. CASE ~ (Cardinality(S) <= target \/ MaxPrototypes <= 1)
  <2>1. PICK c \in Nat \ {0} : c = Cardinality(S)
    BY FS_CardinalityType, FS_EmptySet DEF Nearness
  <2>2. PICK k : k = Smaller(MaxPrototypes, Larger(2, Ceiling(c, target)))
    OBVIOUS
  <2>3. k \in Nat \ {0}
    BY <2>1, <2>2, CeilingPositive, GroupingAssumption DEF Smaller, Larger
  <2>4. PICK ms : ms = FarthestMedoids(S, cos, k)
    OBVIOUS
  <2>5. IsList(ms) /\ ms # <<>> /\ ToSet(ms) \subseteq S
    BY <2>3, <2>4, FarthestMedoidsAre
  <2>6. PartsOf(Buckets(S, ms, cos), S)
    BY <2>5, BucketsAre
  <2>7. MedoidPartition(S, cos, target) = Buckets(S, ms, cos)
    BY <1>2, <2>1, <2>2, <2>4 DEF MedoidPartition
  <2> QED
    BY <2>6, <2>7
<1> QED
  BY <1>1, <1>2

\* Two lists that cover two sets apart cover both.
LEMMA CoversBoth ==
  ASSUME NEW s, NEW t, NEW A, NEW B, Covers(s, A), Covers(t, B), A \cap B = {}
  PROVE  Covers(s \o t, A \cup B)
<1>1. PICK m, n \in Nat : m = Len(s) /\ n = Len(t) /\ DOMAIN s = 1 .. m /\ DOMAIN t = 1 .. n
  BY ListIs DEF Covers
<1>2. PICK u : u = s \o t
  OBVIOUS
<1>3. /\ IsList(u) /\ DOMAIN u = 1 .. m + n
      /\ \A i \in 1 .. m : u[i] = s[i]
      /\ \A i \in 1 .. n : u[m + i] = t[i]
  <2>1. IsList(s) /\ IsList(t)
    BY DEF Covers
  <2>2. IsList(u) /\ Len(u) = m + n
    BY <1>1, <1>2, <2>1, Concatenated
  <2>3. DOMAIN u = 1 .. m + n
    BY <2>2, ListIs
  <2> QED
    BY <1>1, <1>2, <2>1, <2>2, <2>3, Concatenated
<1>4. ASSUME NEW i \in 1 .. m + n
      PROVE  \/ i \in 1 .. m /\ u[i] = s[i]
             \/ i - m \in 1 .. n /\ u[i] = t[i - m] /\ i \notin 1 .. m
  <2>1. CASE i <= m
    BY <1>1, <1>3, <2>1
  <2>2. CASE ~ (i <= m)
    <3>1. i - m \in 1 .. n /\ m + (i - m) = i
      BY <1>1, <2>2
    <3> QED
      BY <1>1, <1>3, <2>2, <3>1
  <2> QED
    BY <2>1, <2>2
<1>5. ASSUME NEW i \in 1 .. m + n
      PROVE  "ids" \in DOMAIN u[i] /\ u[i].ids # {} /\ u[i].ids \subseteq A \cup B
  <2>1. CASE i \in 1 .. m /\ u[i] = s[i]
    BY <1>1, <2>1 DEF Covers
  <2>2. CASE i - m \in 1 .. n /\ u[i] = t[i - m]
    <3>1. PICK k \in DOMAIN t : k = i - m
      BY <1>1, <2>2
    <3>2. "ids" \in DOMAIN t[k] /\ t[k].ids # {} /\ t[k].ids \subseteq B
      BY DEF Covers
    <3> QED
      BY <2>2, <3>1, <3>2
  <2> QED
    BY <1>4, <2>1, <2>2
<1>6. ASSUME NEW x \in A \cup B PROVE \E i \in 1 .. m + n : x \in u[i].ids
  <2>1. CASE x \in A
    <3>1. PICK i \in 1 .. m : x \in s[i].ids
      BY <1>1, <2>1 DEF Covers
    <3> QED
      BY <1>1, <1>3, <3>1
  <2>2. CASE x \in B
    <3>1. PICK i \in 1 .. n : x \in t[i].ids
      BY <1>1, <2>2 DEF Covers
    <3>2. m + i \in 1 .. m + n
      BY <1>1
    <3> QED
      BY <1>1, <1>3, <3>1, <3>2
  <2> QED
    BY <2>1, <2>2
<1>7. ASSUME NEW i \in 1 .. m + n, NEW k \in 1 .. m + n, u[i].ids \cap u[k].ids # {} PROVE i = k
  <2>1. PICK x : x \in u[i].ids /\ x \in u[k].ids
    BY <1>7
  <2>2. (i \in 1 .. m => x \in A) /\ (i \notin 1 .. m => x \in B) /\ (k \in 1 .. m => x \in A) /\ (k \notin 1 .. m => x \in B)
    BY <1>1, <1>4, <2>1 DEF Covers
  <2>3. CASE i \in 1 .. m /\ k \in 1 .. m
    BY <1>1, <1>4, <2>1, <2>3 DEF Covers
  <2>4. CASE i \notin 1 .. m /\ k \notin 1 .. m
    <3>1. i - m \in 1 .. n /\ k - m \in 1 .. n /\ x \in t[i - m].ids /\ x \in t[k - m].ids
      BY <1>4, <2>1, <2>4
    <3>2. i - m = k - m
      BY <1>1, <3>1 DEF Covers
    <3> QED
      BY <1>1, <3>2
  <2> QED
    BY <2>2, <2>3, <2>4
<1> QED
  BY <1>2, <1>3, <1>5, <1>6, <1>7 DEF Covers

\* So does a list of as many records with the same ids.
LEMMA CoversAgain ==
  ASSUME NEW s, NEW S, Covers(s, S), NEW t, t = [i \in DOMAIN s |-> t[i]],
         \A i \in DOMAIN s : "ids" \in DOMAIN t[i] /\ t[i].ids = s[i].ids
  PROVE  Covers(t, S)
<1>1. PICK n \in Nat : n = Len(s) /\ DOMAIN s = 1 .. n
  BY ListIs DEF Covers
<1>2. IsList(t) /\ DOMAIN t = DOMAIN s
  BY <1>1, ListOf
<1> QED
  BY <1>2 DEF Covers

-----------------------------------------------------------------------------
(* _recursive_split.                                                       *)

With(S, toks, idf) == {i \in S : Contains(toks[i], BestSplitTerm(S, toks, idf))}

\* What a level makes of a set, given the level below.
Level(toks, idf, target, n, S, below) ==
  LET term == BestSplitTerm(S, toks, idf)
      with == With(S, toks, idf)
  IN  IF \/ Cardinality(S) <= target \/ n = 0 \/ term = 0
         \/ Smaller(Cardinality(with), Cardinality(S \ with)) < MinSide
      THEN <<[ids |-> S, path |-> <<>>]>>
      ELSE Prefixed(term, below[with]) \o Prefixed(-term, below[S \ with])

Splitting(D, toks, idf, target, n, g) ==
  g = [m \in 0 .. n |-> [S \in SUBSET D |-> Level(toks, idf, target, m, S, g[m - 1])]]

LEMMA SplittingExists ==
  ASSUME NEW D, NEW toks, NEW idf, NEW target, NEW n \in Nat
  PROVE  \E g : Splitting(D, toks, idf, target, n, g)
<1>1. PICK P : P = {m \in Nat : \E g : Splitting(D, toks, idf, target, m, g)}
  OBVIOUS
<1>2. \A S, a, b : Level(toks, idf, target, 0, S, a) = Level(toks, idf, target, 0, S, b)
  BY DEF Level
<1>3. 0 \in P
  <2>1. PICK g : g = [m \in 0 .. 0 |-> [S \in SUBSET D |-> Level(toks, idf, target, 0, S, 0)]]
    OBVIOUS
  <2>2. \A S : Level(toks, idf, target, 0, S, 0) = Level(toks, idf, target, 0, S, g[0 - 1])
    BY <1>2
  <2>3. g = [m \in 0 .. 0 |-> [S \in SUBSET D |-> Level(toks, idf, target, m, S, g[m - 1])]]
    <3>1. ASSUME NEW m \in 0 .. 0 PROVE g[m] = [S \in SUBSET D |-> Level(toks, idf, target, m, S, g[m - 1])]
      <4>1. m = 0
        OBVIOUS
      <4>2. g[0] = [S \in SUBSET D |-> Level(toks, idf, target, 0, S, 0)]
        BY <2>1
      <4>3. g[0] = [S \in SUBSET D |-> Level(toks, idf, target, 0, S, g[0 - 1])]
        BY <2>2, <4>2
      <4> QED
        BY <4>1, <4>3
    <3>2. g = [m \in 0 .. 0 |-> g[m]]
      BY <2>1
    <3> QED
      BY <3>1, <3>2
  <2> QED
    BY <1>1, <2>3 DEF Splitting
<1>4. ASSUME NEW m \in P PROVE m + 1 \in P
  <2>0. m \in Nat
    BY <1>1
  <2>1. PICK g : Splitting(D, toks, idf, target, m, g)
    BY <1>1
  <2>2. PICK last : last = [S \in SUBSET D |-> Level(toks, idf, target, m + 1, S, g[m])]
    OBVIOUS
  <2>3. PICK h : h = [n2 \in 0 .. m + 1 |-> IF n2 = m + 1 THEN last ELSE g[n2]]
    OBVIOUS
  <2>4. ASSUME NEW n2 \in 0 .. m + 1
        PROVE  h[n2] = [S \in SUBSET D |-> Level(toks, idf, target, n2, S, h[n2 - 1])]
    <3>1. CASE n2 = m + 1
      <4>1. h[n2] = last /\ h[n2 - 1] = g[m]
        BY <2>0, <2>3, <3>1
      <4> QED
        BY <2>2, <3>1, <4>1
    <3>2. CASE n2 # m + 1
      <4>1. n2 \in 0 .. m /\ h[n2] = g[n2] /\ (n2 # 0 => h[n2 - 1] = g[n2 - 1])
        BY <2>0, <2>3, <3>2
      <4>2. g[n2] = [S \in SUBSET D |-> Level(toks, idf, target, n2, S, g[n2 - 1])]
        BY <2>1, <4>1 DEF Splitting
      <4>3. CASE n2 # 0
        BY <4>1, <4>2, <4>3
      <4>4. CASE n2 = 0
        <5>1. \A S : Level(toks, idf, target, n2, S, g[n2 - 1]) = Level(toks, idf, target, n2, S, h[n2 - 1])
          BY <1>2, <4>4
        <5> QED
          BY <4>1, <4>2, <5>1
      <4> QED
        BY <4>3, <4>4
    <3> QED
      BY <3>1, <3>2
  <2>5. h = [n2 \in 0 .. m + 1 |-> [S \in SUBSET D |-> Level(toks, idf, target, n2, S, h[n2 - 1])]]
    BY <2>3, <2>4
  <2>6. Splitting(D, toks, idf, target, m + 1, h)
    BY <2>5 DEF Splitting
  <2> QED
    BY <1>1, <2>0, <2>6
<1>5. P = Nat
  BY <1>1, <1>3, <1>4, Induction
<1> QED
  BY <1>1, <1>5

LEMMA PrefixedCovers ==
  ASSUME NEW s, NEW S, Covers(s, S), NEW t
  PROVE  Covers(Prefixed(t, s), S)
<1>1. PICK p : p = [i \in DOMAIN s |-> [s[i] EXCEPT !.path = Cons(t, @)]]
  OBVIOUS
<1>2. p = Prefixed(t, s)
  BY <1>1 DEF Prefixed, Mapped
<1>3. ASSUME NEW i \in DOMAIN s PROVE "ids" \in DOMAIN p[i] /\ p[i].ids = s[i].ids
  <2>1. "ids" \in DOMAIN s[i]
    BY DEF Covers
  <2>2. p[i] = [s[i] EXCEPT !.path = Cons(t, @)]
    BY <1>1
  <2> QED
    BY <2>1, <2>2
<1>4. p = [i \in DOMAIN s |-> p[i]]
  BY <1>1
<1> QED
  BY <1>2, <1>3, <1>4, CoversAgain

LEMMA LevelCovers ==
  ASSUME NEW D, IsFiniteSet(D), NEW toks, NEW idf, NEW target, NEW n \in Nat, NEW below,
         n # 0 => \A S \in SUBSET D : S # {} => Covers(below[S], S),
         NEW S \in SUBSET D, S # {}
  PROVE  Covers(Level(toks, idf, target, n, S, below), S)
<1>1. PICK term, with : term = BestSplitTerm(S, toks, idf) /\ with = With(S, toks, idf)
  OBVIOUS
<1>2. with \in SUBSET S
  BY <1>1 DEF With
<1>3. CASE \/ Cardinality(S) <= target \/ n = 0 \/ term = 0
           \/ Smaller(Cardinality(with), Cardinality(S \ with)) < MinSide
  <2>1. PICK r : r = [ids |-> S, path |-> <<>>]
    OBVIOUS
  <2>2. Level(toks, idf, target, n, S, below) = <<r>>
    BY <1>1, <1>3, <2>1 DEF Level
  <2>3. PICK ls : ls = <<r>>
    OBVIOUS
  <2>4. IsList(ls) /\ DOMAIN ls = 1 .. 1 /\ ls[1] = r
    BY <2>3, Single, ListIs
  <2>5. "ids" \in DOMAIN r /\ r.ids = S
    BY <2>1
  <2>6. Covers(ls, S)
    BY <2>4, <2>5 DEF Covers
  <2> QED
    BY <2>2, <2>3, <2>6
<1>4. CASE ~ (\/ Cardinality(S) <= target \/ n = 0 \/ term = 0
              \/ Smaller(Cardinality(with), Cardinality(S \ with)) < MinSide)
  <2>1. PICK a, b \in Nat : a = Cardinality(with) /\ b = Cardinality(S \ with)
    <3>1. IsFiniteSet(with) /\ IsFiniteSet(S \ with)
      BY <1>2, FS_Subset
    <3> QED
      BY <3>1, FS_CardinalityType
  <2>2. a # 0 /\ b # 0
    BY <1>4, <2>1, GroupingAssumption DEF Smaller
  <2>3. with # {} /\ S \ with # {}
    BY <2>1, <2>2, FS_EmptySet
  <2>4. Covers(below[with], with) /\ Covers(below[S \ with], S \ with)
    BY <1>2, <1>4, <2>3
  <2>5. PICK s, t : s = Prefixed(term, below[with]) /\ t = Prefixed(-term, below[S \ with])
    OBVIOUS
  <2>6. Covers(s, with) /\ Covers(t, S \ with)
    BY <2>4, <2>5, PrefixedCovers
  <2>7. Covers(s \o t, with \cup (S \ with))
    BY <2>6, CoversBoth
  <2>8. with \cup (S \ with) = S
    BY <1>2
  <2>9. Level(toks, idf, target, n, S, below) = s \o t
    BY <1>1, <1>4, <2>5 DEF Level
  <2> QED
    BY <2>7, <2>8, <2>9
<1> QED
  BY <1>3, <1>4

LEMMA RecursiveSplitCovers ==
  ASSUME NEW docs, IsFiniteSet(DOMAIN docs), DOMAIN docs # {}, NEW toks, NEW idf, NEW target
  PROVE  Covers(RecursiveSplit(docs, toks, idf, target), DOMAIN docs)
<1>1. PICK D : D = DOMAIN docs
  OBVIOUS
<1>2. MaxDepth \in Nat
  BY GroupingAssumption
<1>3. PICK u : u = CHOOSE g : g = [m \in 0 .. MaxDepth |-> [S \in SUBSET D |-> Level(toks, idf, target, m, S, g[m - 1])]]
  OBVIOUS
<1>4. u = [m \in 0 .. MaxDepth |-> [S \in SUBSET D |-> Level(toks, idf, target, m, S, u[m - 1])]]
  <2>1. PICK g : Splitting(D, toks, idf, target, MaxDepth, g)
    BY <1>2, SplittingExists
  <2>2. g = [m \in 0 .. MaxDepth |-> [S \in SUBSET D |-> Level(toks, idf, target, m, S, g[m - 1])]]
    BY <2>1 DEF Splitting
  <2> QED
    BY <1>3, <2>2
<1>5. RecursiveSplit(docs, toks, idf, target) = u[MaxDepth][D]
  BY <1>1, <1>3 DEF RecursiveSplit, Level, With
<1>6. PICK P : P = {m \in Nat : m <= MaxDepth => \A S \in SUBSET D : S # {} => Covers(u[m][S], S)}
  OBVIOUS
<1>7. ASSUME NEW m \in 0 .. MaxDepth, m # 0 => m - 1 \in P PROVE \A S \in SUBSET D : S # {} => Covers(u[m][S], S)
  <2>1. SUFFICES ASSUME NEW S \in SUBSET D, S # {} PROVE Covers(u[m][S], S)
    OBVIOUS
  <2>2. PICK below : below = u[m - 1]
    OBVIOUS
  <2>3. u[m][S] = Level(toks, idf, target, m, S, below)
    <3>1. u[m] = [T \in SUBSET D |-> Level(toks, idf, target, m, T, u[m - 1])]
      BY <1>4
    <3> QED
      BY <2>2, <3>1
  <2>4. m # 0 => \A T \in SUBSET D : T # {} => Covers(below[T], T)
    BY <1>2, <1>6, <1>7, <2>2
  <2>5. m \in Nat /\ IsFiniteSet(D)
    BY <1>1, <1>2
  <2>6. Covers(Level(toks, idf, target, m, S, below), S)
    BY <2>1, <2>4, <2>5, LevelCovers
  <2> QED
    BY <2>3, <2>6
<1>8. 0 \in P
  BY <1>2, <1>6, <1>7
<1>9. ASSUME NEW m \in P PROVE m + 1 \in P
  <2>1. m \in Nat
    BY <1>6
  <2>2. CASE m + 1 <= MaxDepth
    <3>1. m + 1 \in 0 .. MaxDepth /\ (m + 1) - 1 = m
      BY <1>2, <2>1, <2>2
    <3>2. \A S \in SUBSET D : S # {} => Covers(u[m + 1][S], S)
      BY <1>7, <3>1
    <3> QED
      BY <1>6, <2>1, <3>2
  <2> QED
    BY <1>6, <2>1, <2>2
<1>10. P = Nat
  BY <1>6, <1>8, <1>9, Induction
<1>11. Covers(u[MaxDepth][D], D)
  <2>1. MaxDepth \in P /\ MaxDepth <= MaxDepth /\ D # {}
    BY <1>1, <1>2, <1>10
  <2> QED
    BY <1>6, <2>1
<1> QED
  BY <1>1, <1>5, <1>11

-----------------------------------------------------------------------------
(* _merge_smallest.                                                        *)

LEMMA PermutedCovers ==
  ASSUME NEW s, NEW S, Covers(s, S), NEW t, NEW p, Permutes(t, s, p)
  PROVE  Covers(t, S) /\ Len(t) = Len(s)
<1>1. PICK n \in Nat : n = Len(s) /\ DOMAIN s = 1 .. n
  BY ListIs DEF Covers
<1>2. IsList(t) /\ DOMAIN t = DOMAIN s /\ Len(t) = n
  BY <1>1, ListOf DEF Permutes
<1>3. \A k \in DOMAIN s : t[k] = s[p[k]] /\ p[k] \in DOMAIN s
  BY DEF Permutes
<1>4. \A k \in DOMAIN s : "ids" \in DOMAIN t[k] /\ t[k].ids # {} /\ t[k].ids \subseteq S
  BY <1>3 DEF Covers
<1>5. ASSUME NEW x \in S PROVE \E k \in DOMAIN s : x \in t[k].ids
  <2>1. PICK i \in DOMAIN s : x \in s[i].ids
    BY DEF Covers
  <2>2. PICK k \in DOMAIN s : p[k] = i
    BY DEF Permutes
  <2> QED
    BY <1>3, <2>1, <2>2
<1>6. ASSUME NEW k \in DOMAIN s, NEW l \in DOMAIN s, t[k].ids \cap t[l].ids # {} PROVE k = l
  <2>1. p[k] = p[l]
    BY <1>3, <1>6 DEF Covers
  <2> QED
    BY <2>1 DEF Permutes
<1> QED
  BY <1>1, <1>2, <1>4, <1>5, <1>6 DEF Covers

LEMMA BySizeCovers ==
  ASSUME NEW s, NEW S, Covers(s, S)
  PROVE  Covers(BySize(s), S) /\ Len(BySize(s)) = Len(s)
<1>1. IsList(s)
  BY DEF Covers
<1>2. PICK sc : sc = [k \in DOMAIN s |-> - Cardinality({i \in DOMAIN s : SmallerLeaf(s[i], s[k])})]
  OBVIOUS
<1>3. ASSUME NEW k \in DOMAIN s PROVE sc[k] \in Int
  <2>1. PICK I : I = {i \in DOMAIN s : SmallerLeaf(s[i], s[k])}
    OBVIOUS
  <2>2. Cardinality(I) \in 0 .. Len(s) /\ Len(s) \in Nat
    BY <1>1, <2>1, CountIs, ListIs
  <2>3. - Cardinality(I) \in Int
    BY <2>2
  <2> QED
    BY <1>2, <2>1, <2>3
<1>4. sc \in [DOMAIN s -> Int]
  BY <1>2, <1>3
<1>5. BySize(s) = Arranged(s, sc)
  BY <1>2 DEF BySize, SortedBy
<1>6. PICK p : Permutes(Arranged(s, sc), s, p)
  BY <1>1, <1>4, ArrangedIs
<1> QED
  BY <1>5, <1>6, PermutedCovers

LEMMA MergeTwoCovers ==
  ASSUME NEW s, NEW S, Covers(s, S), Len(s) >= 2
  PROVE  Covers(MergeTwo(s), S) /\ Len(MergeTwo(s)) = Len(s) - 1
<1>1. PICK n \in Nat : n = Len(s) /\ DOMAIN s = 1 .. n /\ n >= 2 /\ IsList(s)
  BY ListIs DEF Covers
<1>2. PICK last : last = [ids |-> s[1].ids \cup s[2].ids, path |-> IF s[1].path # <<>> THEN s[1].path ELSE s[2].path,
                          contrast |-> Unique(s[1].contrast \o s[2].contrast)]
  OBVIOUS
<1>3. PICK rest : rest = SubSeq(s, 3, n)
  OBVIOUS
<1>4. IsList(rest) /\ Len(rest) = n - 2 /\ \A i \in 1 .. n - 2 : rest[i] = s[i + 2]
  <2>1. 3 \in 1 .. n + 1 /\ n \in 0 .. n
    BY <1>1
  <2>2. /\ IsList(rest) /\ Len(rest) = IF 3 <= n THEN n - 3 + 1 ELSE 0
        /\ \A i \in 1 .. Len(rest) : rest[i] = s[3 + i - 1]
    BY <1>1, <1>3, <2>1, Sliced
  <2>3. Len(rest) = n - 2
    BY <1>1, <2>2
  <2>4. \A i \in 1 .. n - 2 : 3 + i - 1 = i + 2
    BY <1>1
  <2> QED
    BY <2>2, <2>3, <2>4
<1>5. PICK t : t = Append(rest, last)
  OBVIOUS
<1>6. t = MergeTwo(s)
  BY <1>1, <1>2, <1>3, <1>5 DEF MergeTwo
<1>7. /\ IsList(t) /\ Len(t) = n - 1 /\ DOMAIN t = 1 .. n - 1
      /\ \A i \in 1 .. n - 2 : t[i] = s[i + 2]
      /\ t[n - 1] = last
  <2>1. IsList(t) /\ Len(t) = (n - 2) + 1 /\ (\A i \in 1 .. n - 2 : t[i] = rest[i]) /\ t[(n - 2) + 1] = last
    BY <1>4, <1>5, Appended
  <2>2. (n - 2) + 1 = n - 1
    BY <1>1
  <2> QED
    BY <1>4, <2>1, <2>2, ListIs
<1>8. "ids" \in DOMAIN last /\ last.ids = s[1].ids \cup s[2].ids
  BY <1>2
<1>9. 1 \in DOMAIN s /\ 2 \in DOMAIN s /\ \A i \in 1 .. n - 2 : i + 2 \in DOMAIN s /\ i + 2 # 1 /\ i + 2 # 2
  BY <1>1
<1>10. last.ids # {} /\ last.ids \subseteq S
  BY <1>8, <1>9 DEF Covers
<1>11. ASSUME NEW i \in 1 .. n - 1 PROVE "ids" \in DOMAIN t[i] /\ t[i].ids # {} /\ t[i].ids \subseteq S
  <2>1. CASE i = n - 1
    BY <1>7, <1>8, <1>10, <2>1
  <2>2. CASE i # n - 1
    <3>1. i \in 1 .. n - 2
      BY <1>1, <2>2
    <3> QED
      BY <1>7, <1>9, <3>1 DEF Covers
  <2> QED
    BY <2>1, <2>2
<1>12. ASSUME NEW x \in S PROVE \E i \in 1 .. n - 1 : x \in t[i].ids
  <2>1. PICK k \in 1 .. n : x \in s[k].ids
    BY <1>1 DEF Covers
  <2>2. CASE k = 1 \/ k = 2
    <3>1. x \in t[n - 1].ids /\ n - 1 \in 1 .. n - 1
      BY <1>1, <1>7, <1>8, <2>1, <2>2
    <3> QED
      BY <3>1
  <2>3. CASE k # 1 /\ k # 2
    <3>1. k - 2 \in 1 .. n - 2 /\ k - 2 \in 1 .. n - 1 /\ (k - 2) + 2 = k
      BY <1>1, <2>3
    <3>2. t[k - 2] = s[k]
      BY <1>7, <3>1
    <3> QED
      BY <2>1, <3>1, <3>2
  <2> QED
    BY <2>2, <2>3
<1>13. ASSUME NEW i \in 1 .. n - 1, NEW k \in 1 .. n - 1, t[i].ids \cap t[k].ids # {} PROVE i = k
  <2>1. PICK x : x \in t[i].ids /\ x \in t[k].ids
    BY <1>13
  <2>2. \A m \in 1 .. n - 1 : m # n - 1 => m \in 1 .. n - 2
    BY <1>1
  <2>3. CASE i = n - 1 /\ k # n - 1
    <3>1. x \in s[k + 2].ids /\ k + 2 \in DOMAIN s /\ k + 2 # 1 /\ k + 2 # 2
      BY <1>7, <1>9, <2>1, <2>2, <2>3
    <3>2. x \in s[1].ids \/ x \in s[2].ids
      BY <1>7, <1>8, <2>1, <2>3
    <3> QED
      BY <1>9, <3>1, <3>2 DEF Covers
  <2>4. CASE i # n - 1 /\ k = n - 1
    <3>1. x \in s[i + 2].ids /\ i + 2 \in DOMAIN s /\ i + 2 # 1 /\ i + 2 # 2
      BY <1>7, <1>9, <2>1, <2>2, <2>4
    <3>2. x \in s[1].ids \/ x \in s[2].ids
      BY <1>7, <1>8, <2>1, <2>4
    <3> QED
      BY <1>9, <3>1, <3>2 DEF Covers
  <2>5. CASE i # n - 1 /\ k # n - 1
    <3>1. x \in s[i + 2].ids /\ i + 2 \in DOMAIN s /\ x \in s[k + 2].ids /\ k + 2 \in DOMAIN s
      BY <1>7, <1>9, <2>1, <2>2, <2>5
    <3>2. i + 2 = k + 2
      BY <3>1 DEF Covers
    <3> QED
      BY <1>1, <3>2
  <2> QED
    BY <2>3, <2>4, <2>5
<1> QED
  BY <1>1, <1>6, <1>7, <1>11, <1>12, <1>13 DEF Covers

Merging(ls, n, g) == g = [m \in 0 .. n |-> IF m = 0 THEN ls ELSE MergeTwo(BySize(g[m - 1]))]

LEMMA MergingExists ==
  ASSUME NEW ls, NEW n \in Nat
  PROVE  \E g : Merging(ls, n, g)
<1>1. PICK P : P = {m \in Nat : \E g : Merging(ls, m, g)}
  OBVIOUS
<1>2. 0 \in P
  <2>1. PICK g : g = [m \in 0 .. 0 |-> ls]
    OBVIOUS
  <2>2. g = [m \in 0 .. 0 |-> IF m = 0 THEN ls ELSE MergeTwo(BySize(g[m - 1]))]
    BY <2>1
  <2> QED
    BY <1>1, <2>2 DEF Merging
<1>3. ASSUME NEW m \in P PROVE m + 1 \in P
  <2>0. m \in Nat
    BY <1>1
  <2>1. PICK g : Merging(ls, m, g)
    BY <1>1
  <2>2. PICK last : last = MergeTwo(BySize(g[m]))
    OBVIOUS
  <2>3. PICK h : h = [i \in 0 .. m + 1 |-> IF i = m + 1 THEN last ELSE g[i]]
    OBVIOUS
  <2>4. ASSUME NEW i \in 0 .. m + 1
        PROVE  h[i] = IF i = 0 THEN ls ELSE MergeTwo(BySize(h[i - 1]))
    <3>1. CASE i = m + 1
      <4>1. h[i] = last /\ h[i - 1] = g[m] /\ i # 0
        BY <2>0, <2>3, <3>1
      <4> QED
        BY <2>2, <3>1, <4>1
    <3>2. CASE i # m + 1
      <4>1. i \in 0 .. m /\ h[i] = g[i] /\ (i # 0 => h[i - 1] = g[i - 1])
        BY <2>0, <2>3, <3>2
      <4>2. g[i] = IF i = 0 THEN ls ELSE MergeTwo(BySize(g[i - 1]))
        BY <2>1, <4>1 DEF Merging
      <4> QED
        BY <4>1, <4>2
    <3> QED
      BY <3>1, <3>2
  <2>5. h = [i \in 0 .. m + 1 |-> IF i = 0 THEN ls ELSE MergeTwo(BySize(h[i - 1]))]
    BY <2>3, <2>4
  <2>6. Merging(ls, m + 1, h)
    BY <2>5 DEF Merging
  <2> QED
    BY <1>1, <2>0, <2>6
<1>4. P = Nat
  BY <1>1, <1>2, <1>3, Induction
<1> QED
  BY <1>1, <1>4

LEMMA MergeSmallestCovers ==
  ASSUME NEW ls, NEW S, Covers(ls, S)
  PROVE  Covers(MergeSmallest(ls), S)
<1>1. PICK n \in Nat : n = Len(ls)
  BY ListIs DEF Covers
<1>2. PICK u : u = CHOOSE g : g = [m \in 0 .. n |-> IF m = 0 THEN ls ELSE MergeTwo(BySize(g[m - 1]))]
  OBVIOUS
<1>3. u = [m \in 0 .. n |-> IF m = 0 THEN ls ELSE MergeTwo(BySize(u[m - 1]))]
  <2>1. PICK g : Merging(ls, n, g)
    BY MergingExists
  <2>2. g = [m \in 0 .. n |-> IF m = 0 THEN ls ELSE MergeTwo(BySize(g[m - 1]))]
    BY <2>1 DEF Merging
  <2> QED
    BY <1>2, <2>2
<1>4. PICK last : last = Larger(0, n - MaxGroups)
  OBVIOUS
<1>5. MergeSmallest(ls) = u[last]
  BY <1>1, <1>2, <1>4 DEF MergeSmallest
<1>6. last \in Nat /\ last <= n /\ (last # 0 => last + 1 <= n)
  BY <1>1, <1>4, GroupingAssumption DEF Larger
<1>7. PICK P : P = {m \in Nat : m <= last => Covers(u[m], S) /\ Len(u[m]) = n - m}
  OBVIOUS
<1>8. 0 \in P
  <2>1. u[0] = ls
    BY <1>1, <1>3
  <2> QED
    BY <1>1, <1>7, <2>1
<1>9. ASSUME NEW m \in P PROVE m + 1 \in P
  <2>1. m \in Nat
    BY <1>7
  <2>2. SUFFICES ASSUME m + 1 <= last PROVE Covers(u[m + 1], S) /\ Len(u[m + 1]) = n - (m + 1)
    BY <1>7, <2>1
  <2>3. Covers(u[m], S) /\ Len(u[m]) = n - m
    BY <1>6, <1>7, <2>1, <2>2
  <2>4. Covers(BySize(u[m]), S) /\ Len(BySize(u[m])) = n - m
    BY <2>3, BySizeCovers
  <2>5. n - m >= 2
    BY <1>1, <1>6, <2>1, <2>2
  <2>6. Covers(MergeTwo(BySize(u[m])), S) /\ Len(MergeTwo(BySize(u[m]))) = (n - m) - 1
    BY <2>4, <2>5, MergeTwoCovers
  <2>7. u[m + 1] = MergeTwo(BySize(u[m]))
    <3>1. m + 1 \in 0 .. n /\ m + 1 # 0 /\ (m + 1) - 1 = m
      BY <1>1, <1>6, <2>1, <2>2
    <3> QED
      BY <1>3, <3>1
  <2> QED
    BY <1>1, <2>1, <2>6, <2>7
<1>10. P = Nat
  BY <1>7, <1>8, <1>9, Induction
<1>11. last \in P /\ last <= last
  BY <1>6, <1>10
<1> QED
  BY <1>5, <1>7, <1>11

LEMMA CoversFlat ==
  ASSUME NEW near, NEW D, Covers(near, D), NEW of, of = [i \in DOMAIN near |-> of[i]],
         \A i \in DOMAIN near : Covers(of[i], near[i].ids)
  PROVE  Covers(FlattenSeq(of), D)
<1>1. PICK n \in Nat : n = Len(near) /\ DOMAIN near = 1 .. n
  BY ListIs DEF Covers
<1>2. IsList(of) /\ DOMAIN of = DOMAIN near
  BY <1>1, ListOf
<1>3. \A i \in DOMAIN of : IsList(of[i])
  BY <1>2 DEF Covers
<1>4. PICK f : f = FlattenSeq(of)
  OBVIOUS
<1>5. IsList(f) /\ ToSet(f) = Elements(of, DOMAIN of)
  BY <1>2, <1>3, <1>4, FlattenedIs
<1>6. \A e \in ToSet(f) : \E i \in DOMAIN near : \E k \in DOMAIN of[i] : e = of[i][k]
  BY <1>2, <1>5 DEF Elements, ToSet
<1>7. \A i \in DOMAIN near : \A k \in DOMAIN of[i] : of[i][k] \in ToSet(f)
  BY <1>2, <1>5 DEF Elements, ToSet
<1>8. \A i \in DOMAIN near : \A k \in DOMAIN of[i] :
        "ids" \in DOMAIN of[i][k] /\ of[i][k].ids # {} /\ of[i][k].ids \subseteq near[i].ids /\ near[i].ids \subseteq D
  BY DEF Covers
<1>9. ASSUME NEW i \in DOMAIN near, NEW k \in DOMAIN of[i], NEW a \in DOMAIN near, NEW b \in DOMAIN of[a],
             of[i][k].ids \cap of[a][b].ids # {}
      PROVE  i = a /\ k = b
  <2>1. near[i].ids \cap near[a].ids # {}
    BY <1>8, <1>9
  <2>2. i = a
    BY <2>1 DEF Covers
  <2>3. Covers(of[i], near[i].ids)
    OBVIOUS
  <2> QED
    BY <1>9, <2>2, <2>3 DEF Covers
<1>10. Apart(of)
  <2>1. ASSUME NEW i \in DOMAIN of PROVE Distinct(of[i])
    <3> SUFFICES ASSUME NEW k \in DOMAIN of[i], NEW l \in DOMAIN of[i], of[i][k] = of[i][l]
                 PROVE  k = l
      BY DEF Distinct
    <3> QED
      BY <1>2, <1>8, <1>9
  <2>2. ASSUME NEW i \in DOMAIN of, NEW k \in DOMAIN of, i # k
        PROVE  ToSet(of[i]) \cap ToSet(of[k]) = {}
    <3> SUFFICES ASSUME NEW a \in DOMAIN of[i], NEW b \in DOMAIN of[k], of[i][a] = of[k][b]
                 PROVE  FALSE
      BY DEF ToSet
    <3> QED
      BY <1>2, <1>8, <1>9, <2>2
  <2> QED
    BY <2>1, <2>2 DEF Apart
<1>11. Distinct(f)
  BY <1>2, <1>3, <1>4, <1>10, FlattenedIs
<1>12. ASSUME NEW k \in DOMAIN f PROVE "ids" \in DOMAIN f[k] /\ f[k].ids # {} /\ f[k].ids \subseteq D
  <2>1. f[k] \in ToSet(f)
    BY DEF ToSet
  <2>2. PICK i \in DOMAIN near : \E l \in DOMAIN of[i] : f[k] = of[i][l]
    BY <1>6, <2>1
  <2> QED
    BY <1>8, <2>2
<1>13. ASSUME NEW x \in D PROVE \E k \in DOMAIN f : x \in f[k].ids
  <2>1. PICK i \in DOMAIN near : x \in near[i].ids
    BY DEF Covers
  <2>2. PICK l \in DOMAIN of[i] : x \in of[i][l].ids
    BY <2>1 DEF Covers
  <2>3. of[i][l] \in ToSet(f)
    BY <1>7
  <2> QED
    BY <2>2, <2>3 DEF ToSet
<1>14. ASSUME NEW k \in DOMAIN f, NEW l \in DOMAIN f, f[k].ids \cap f[l].ids # {} PROVE k = l
  <2>1. f[k] \in ToSet(f) /\ f[l] \in ToSet(f)
    BY DEF ToSet
  <2>2. PICK i \in DOMAIN near : \E a \in DOMAIN of[i] : f[k] = of[i][a]
    BY <1>6, <2>1
  <2>3. PICK h \in DOMAIN near : \E b \in DOMAIN of[h] : f[l] = of[h][b]
    BY <1>6, <2>1
  <2>4. f[k] = f[l]
    BY <1>9, <1>14, <2>2, <2>3
  <2> QED
    BY <1>11, <2>4 DEF Distinct
<1> QED
  BY <1>4, <1>5, <1>12, <1>13, <1>14 DEF Covers

\* What the words of a list of documents come to: a list each, and a weight for every word.
Weighed(toks, idf, n) ==
  \A i \in 1 .. n : IsList(toks[i]) /\ \A t \in ToSet(toks[i]) : idf[t] \in Nat

LEMMA LeavesOfCover ==
  ASSUME NEW n, NEW size \in Nat, n.ids \in SUBSET (1 .. size), n.ids # {}, NEW toks, NEW idf, Weighed(toks, idf, size),
         NEW target \in Nat \ {0}
  PROVE  Covers(LeavesOf(n, toks, idf, target), n.ids)
<1>1. PICK S : S = n.ids
  OBVIOUS
<1>2. S \in SUBSET Nat /\ IsFiniteSet(S)
  <2>1. 1 \in Int /\ size \in Int
    OBVIOUS
  <2>2. IsFiniteSet(1 .. size)
    BY ONLY <2>1, FS_Interval
  <2> QED
    BY <1>1, <2>2, FS_Subset
<1>3. PICK cos : cos = [i \in S |-> [j \in S |-> Cosine(Vector(toks[i], idf), Vector(toks[j], idf))]]
  OBVIOUS
<1>4. \A i, k \in S : cos[i][k] \in Nat
  <2> SUFFICES ASSUME NEW i \in S, NEW k \in S PROVE Cosine(Vector(toks[i], idf), Vector(toks[k], idf)) \in Nat
    BY <1>3
  <2>1. Weights(Vector(toks[i], idf)) /\ Weights(Vector(toks[k], idf))
    BY <1>1, VectorIs DEF Weighed
  <2> QED
    BY <2>1, CosineIs
<1>5. PICK bs : bs = MedoidPartition(S, cos, target)
  OBVIOUS
<1>6. PartsOf(bs, S)
  BY <1>1, <1>2, <1>4, <1>5, MedoidPartitionIs DEF Nearness
<1>7. PICK ls : ls = LeavesOf(n, toks, idf, target)
  OBVIOUS
<1>8. ls = [k \in DOMAIN bs |-> LeafOf(bs[k], n, ContrastTerms(bs[k], n.ids, toks, idf), TopTermsOf(n.ids, toks, idf, 8))]
  BY <1>1, <1>3, <1>5, <1>7 DEF LeavesOf, Mapped
<1>9. \A k \in DOMAIN bs : "ids" \in DOMAIN ls[k] /\ ls[k].ids = bs[k]
  BY <1>8 DEF LeafOf
<1>10. IsList(ls) /\ DOMAIN ls = DOMAIN bs
  <2>1. PICK m \in Nat : DOMAIN bs = 1 .. m
    BY <1>6, ListIs DEF PartsOf
  <2> QED
    BY <1>8, <2>1, ListOf
<1> QED
  BY <1>1, <1>6, <1>7, <1>9, <1>10 DEF Covers, PartsOf

LEMMA LeavesCover ==
  ASSUME NEW docs, IsList(docs), docs # <<>>, NEW toks, NEW idf, Weighed(toks, idf, Len(docs)), NEW target \in Nat \ {0}
  PROVE  Covers(Leaves(docs, toks, idf, target), DOMAIN docs)
<1>1. PICK size \in Nat : size = Len(docs) /\ DOMAIN docs = 1 .. size
  BY ListIs
<1>2. DOMAIN docs # {} /\ IsFiniteSet(DOMAIN docs)
  <2>1. 1 \in Int /\ size \in Int
    OBVIOUS
  <2>2. IsFiniteSet(1 .. size)
    BY ONLY <2>1, FS_Interval
  <2> QED
    BY <1>1, <2>2, NotEmpty
<1>3. PICK near : near = RecursiveSplit(docs, toks, idf, target * MaxPrototypes)
  OBVIOUS
<1>4. Covers(near, DOMAIN docs)
  BY <1>2, <1>3, RecursiveSplitCovers
<1>5. PICK of : of = [i \in DOMAIN near |-> LeavesOf(near[i], toks, idf, target)]
  OBVIOUS
<1>6. ASSUME NEW i \in DOMAIN near PROVE Covers(of[i], near[i].ids)
  <2>1. near[i].ids \in SUBSET (1 .. size) /\ near[i].ids # {}
    BY <1>1, <1>4 DEF Covers
  <2>2. Covers(LeavesOf(near[i], toks, idf, target), near[i].ids)
    BY <1>1, <2>1, LeavesOfCover
  <2> QED
    BY <1>5, <2>2
<1>7. Covers(FlattenSeq(of), DOMAIN docs)
  BY <1>4, <1>5, <1>6, CoversFlat
<1> QED
  BY <1>3, <1>5, <1>7, MergeSmallestCovers DEF Leaves, Mapped

LEMMA TokensAre ==
  ASSUME NEW docs, IsList(docs), ToSet(docs) \subseteq Document
  PROVE  LET toks == Tokens(docs)
         IN  IsList(toks) /\ Len(toks) = Len(docs) /\ DOMAIN toks = DOMAIN docs /\ \A i \in DOMAIN docs : IsList(toks[i])
<1>1. PICK n \in Nat : n = Len(docs) /\ DOMAIN docs = 1 .. n
  BY ListIs
<1>2. PICK all : all = [i \in DOMAIN docs |-> Tokenize(DocumentText(Strip(docs[i])))]
  OBVIOUS
<1>3. IsList(all) /\ Len(all) = n /\ DOMAIN all = 1 .. n
  BY <1>1, <1>2, ListOf
<1>4. ASSUME NEW i \in DOMAIN docs PROVE IsList(all[i])
  <2>1. docs[i] \in Document
    BY DEF ToSet
  <2>2. IsList(docs[i].words) /\ "words" \in DOMAIN docs[i]
    BY <2>1, DocumentAssumption
  <2>3. DocumentText(Strip(docs[i])) = docs[i].words
    BY <2>2 DEF DocumentText, Strip
  <2>4. PICK ws : ws = docs[i].words
    OBVIOUS
  <2>5. IsList(ws) /\ {k \in DOMAIN ws : ws[k] # 0} \in SUBSET (DOMAIN ws)
    BY <2>2, <2>4
  <2>6. IsList(Picked(ws, {k \in DOMAIN ws : ws[k] # 0}))
    BY <2>5, PickedIs
  <2> QED
    BY <1>2, <2>3, <2>4, <2>6 DEF Tokenize, Filter
<1>5. PICK t : t = Upto(all, n)
  OBVIOUS
<1>6. IsList(t) /\ Len(t) = n /\ \A i \in 1 .. n : t[i] = all[i]
  BY <1>3, <1>5, UptoIs DEF Smaller
<1>7. DOMAIN t = 1 .. n
  BY <1>6, ListIs
<1>8. Tokens(docs) = t
  BY <1>1, <1>2, <1>5 DEF Tokens
<1> QED
  BY <1>1, <1>4, <1>6, <1>7, <1>8

\* The table of weights has all that a list of n documents needs.
Tabled(n) == n \in DOMAIN Idf /\ 1 .. n \subseteq DOMAIN Idf[n]

LEMMA WordsWeigh ==
  ASSUME NEW toks, IsList(toks), \A i \in DOMAIN toks : IsList(toks[i]), toks # <<>> => Tabled(Len(toks))
  PROVE  Weighed(toks, IdfOf(toks), Len(toks))
<1>1. PICK n \in Nat : n = Len(toks) /\ DOMAIN toks = 1 .. n
  BY ListIs
<1> SUFFICES ASSUME NEW i \in 1 .. n, NEW t \in ToSet(toks[i]) PROVE IdfOf(toks)[t] \in Nat
  BY <1>1 DEF Weighed
<1>2. toks # <<>> /\ Tabled(n)
  BY <1>1
<1>3. PICK I : I = {k \in DOMAIN toks : Contains(toks[k], t)}
  OBVIOUS
<1>4. i \in I
  <2>1. PICK l \in DOMAIN toks[i] : toks[i][l] = t
    BY DEF ToSet
  <2>2. IsList(toks[i])
    BY <1>1
  <2>3. l \in 1 .. Len(toks[i])
    BY <2>2, ListIs
  <2> QED
    BY <1>1, <1>3, <2>1, <2>3 DEF Contains
<1>5. Cardinality(I) \in 0 .. n
  BY <1>1, <1>3, CountIs
<1>6. Cardinality(I) # 0
  <2>1. 1 \in Int /\ n \in Int
    OBVIOUS
  <2>2. IsFiniteSet(1 .. n)
    BY ONLY <2>1, FS_Interval
  <2>3. IsFiniteSet(I)
    BY <1>1, <1>3, <2>2, FS_Subset
  <2> QED
    BY <1>4, <2>3, FS_EmptySet
<1>7. Frequency(toks, t) \in 1 .. n
  BY <1>3, <1>5, <1>6 DEF Frequency
<1>8. Idf[n][Frequency(toks, t)] \in Nat
  BY <1>2, <1>7, GroupingAssumption DEF Tabled
<1>9. t \in UNION {ToSet(toks[k]) : k \in DOMAIN toks}
  BY <1>1
<1> QED
  BY <1>1, <1>8, <1>9 DEF IdfOf

\* The members of a leaf, in the order of the list, are documents of it.
MembersOf(docs, ids) == LET ms == Ranked(ids, LAMBDA x, y : x < y) IN [k \in DOMAIN ms |-> docs[ms[k]]]

LEMMA MembersOfLeaf ==
  ASSUME NEW docs, Listing(docs), NEW ids \in SUBSET (DOMAIN docs), ids # {}
  PROVE  /\ Listing(MembersOf(docs, ids)) /\ MembersOf(docs, ids) # <<>>
         /\ ToSet(MembersOf(docs, ids)) = {docs[i] : i \in ids}
<1>1. PICK n \in Nat : n = Len(docs) /\ DOMAIN docs = 1 .. n
  BY ListIs DEF Listing
<1>2. IsFiniteSet(ids)
  <2>1. 1 \in Int /\ n \in Int
    OBVIOUS
  <2>2. IsFiniteSet(1 .. n)
    BY ONLY <2>1, FS_Interval
  <2> QED
    BY <1>1, <2>2, FS_Subset
<1>3. PICK r : r = [x \in ids |-> {y \in ids : y < x}]
  OBVIOUS
<1>4. StrictOrder(ids, r)
  BY <1>1, <1>3 DEF StrictOrder
<1>5. PICK ms : ms = RankedBy(ids, r)
  OBVIOUS
<1>6. InOrder(ms, ids, r)
  BY <1>2, <1>4, <1>5, RankedIs
<1>7. ms = Ranked(ids, LAMBDA x, y : x < y)
  BY <1>3, <1>5 DEF RankedBy, Ranked
<1>8. PICK m \in Nat : m = Len(ms) /\ DOMAIN ms = 1 .. m
  BY <1>6, ListIs DEF InOrder
<1>9. PICK part : part = [k \in 1 .. m |-> docs[ms[k]]]
  OBVIOUS
<1>10. MembersOf(docs, ids) = part
  BY <1>7, <1>8, <1>9 DEF MembersOf
<1>11. IsList(part) /\ DOMAIN part = 1 .. m
  BY <1>9, ListOf
<1>12. \A k \in 1 .. m : ms[k] \in ids
  BY <1>6, <1>8 DEF InOrder
<1>13. ToSet(part) = {docs[i] : i \in ids}
  <2>1. \A i \in ids : \E k \in 1 .. m : ms[k] = i
    BY <1>6, <1>8 DEF InOrder
  <2>2. \A x \in ToSet(part) : x \in {docs[i] : i \in ids}
    BY <1>9, <1>11, <1>12 DEF ToSet
  <2>3. \A x \in {docs[i] : i \in ids} : x \in ToSet(part)
    BY <1>9, <1>11, <2>1 DEF ToSet
  <2> QED
    BY <2>2, <2>3
<1>14. ASSUME NEW k \in 1 .. m, NEW l \in 1 .. m, part[k]._id = part[l]._id PROVE k = l
  <2>1. docs[ms[k]]._id = docs[ms[l]]._id
    BY <1>9, <1>14
  <2>2. ms[k] \in DOMAIN docs /\ ms[l] \in DOMAIN docs
    BY <1>12
  <2>3. ms[k] = ms[l]
    BY <2>1, <2>2 DEF Listing
  <2> QED
    BY <1>6, <1>8, <2>3 DEF InOrder
<1>15. {docs[i] : i \in ids} \subseteq ToSet(docs)
  BY DEF ToSet
<1>16. Listing(part)
  BY <1>11, <1>13, <1>14, <1>15 DEF Listing
<1>17. part # <<>>
  BY <1>11, <1>13, NotEmpty
<1> QED
  BY <1>10, <1>13, <1>16, <1>17

LEMMA SemanticGroupIs ==
  ASSUME NEW leaves, NEW i, NEW docs, NEW tenant, NEW toks, NEW idf
  PROVE  LET g == SemanticGroup(i, leaves, docs, tenant, toks, idf)
         IN  ListGroup(g, MembersOf(docs, leaves[i].ids), tenant) /\ g.key[3] = i
<1>1. PICK part : part = MembersOf(docs, leaves[i].ids)
  OBVIOUS
<1>2. PICK key, terms : SemanticGroup(i, leaves, docs, tenant, toks, idf) = Group(tenant, key, part, terms) /\ key[3] = i
  <2>1. PICK key : key = <<"sem", Upto(leaves[i].path, 6), i>>
    OBVIOUS
  <2>2. PICK terms : terms = ToSet(leaves[i].contrast) \cup ToSet(leaves[i].path) \cup ToSet(TopTermsOf(leaves[i].ids, toks, idf, 8))
                               \cup ToSet(SiblingTerms(i, leaves, toks, idf))
    OBVIOUS
  <2>3. SemanticGroup(i, leaves, docs, tenant, toks, idf) = Group(tenant, key, part, terms)
    BY <1>1, <2>1, <2>2, Zenon DEF SemanticGroup, MembersOf
  <2>4. key[3] = i
    BY <2>1
  <2> QED
    BY <2>3, <2>4
<1>3. Group(tenant, key, part, terms).key = key
  BY DEF Group
<1> QED
  BY <1>1, <1>2, <1>3, GroupLists

\* semantic_groups_from_docs (term splits, medoid partitions, the merge of the smallest)
\* does the same, and no two of its groups have the same key.
THEOREM SemanticPartition ==
  ASSUME NEW docs, Listing(docs), docs # <<>> => Tabled(Len(docs)), NEW tenant, NEW target \in Nat \ {0}
  PROVE  /\ Partition(SemanticGroups(docs, tenant, target), docs, tenant)
         /\ \A g, h \in SemanticGroups(docs, tenant, target) : g.key = h.key => g = h
<1>1. CASE docs = <<>>
  <2>1. SemanticGroups(docs, tenant, target) = {} /\ ToSet(docs) = {}
    BY <1>1, NotEmpty DEF SemanticGroups, Listing
  <2> QED
    BY <2>1 DEF Partition
<1>2. CASE docs # <<>>
  <2>1. PICK toks, idf : toks = Tokens(docs) /\ idf = IdfOf(toks)
    OBVIOUS
  <2>2. IsList(docs) /\ ToSet(docs) \subseteq Document
    BY DEF Listing
  <2>3. IsList(toks) /\ Len(toks) = Len(docs) /\ DOMAIN toks = DOMAIN docs /\ \A i \in DOMAIN docs : IsList(toks[i])
    BY <2>1, <2>2, TokensAre
  <2>4. Weighed(toks, idf, Len(docs))
    BY <1>2, <2>1, <2>3, WordsWeigh
  <2>5. PICK leaves : leaves = Leaves(docs, toks, idf, target)
    OBVIOUS
  <2>6. Covers(leaves, DOMAIN docs)
    BY <1>2, <2>2, <2>4, <2>5, LeavesCover
  <2>7. PICK G : G = SemanticGroups(docs, tenant, target)
    OBVIOUS
  <2>8. G = {SemanticGroup(i, leaves, docs, tenant, toks, idf) : i \in DOMAIN leaves}
    BY <1>2, <2>1, <2>5, <2>7 DEF SemanticGroups, GroupsOfLeaves
  <2>9. PICK of : of = [i \in DOMAIN leaves |-> MembersOf(docs, leaves[i].ids)]
    OBVIOUS
  <2>10. \A i \in DOMAIN leaves : /\ Listing(of[i]) /\ of[i] # <<>>
                                  /\ ToSet(of[i]) = {docs[k] : k \in leaves[i].ids}
    BY <2>6, <2>9, MembersOfLeaf DEF Covers
  <2>11. \A g \in G : \E i \in DOMAIN leaves : ListGroup(g, of[i], tenant) /\ g.key[3] = i /\ g = SemanticGroup(i, leaves, docs, tenant, toks, idf)
    BY <2>8, <2>9, SemanticGroupIs
  <2>12. \A i \in DOMAIN leaves : \E g \in G : ListGroup(g, of[i], tenant)
    BY <2>8, <2>9, SemanticGroupIs
  <2>13. \A i \in DOMAIN leaves : ToSet(of[i]) \subseteq ToSet(docs)
    BY <2>6, <2>10 DEF Covers, ToSet
  <2>14. ASSUME NEW g \in G PROVE \E part : /\ Listing(part) /\ part # <<>> /\ ToSet(part) \subseteq ToSet(docs)
                                            /\ ListGroup(g, part, tenant)
    BY <2>10, <2>11, <2>13
  <2>15. ASSUME NEW d \in ToSet(docs) PROVE \E g \in G : d._id \in g.filter.ids
    <3>1. PICK k \in DOMAIN docs : d = docs[k]
      BY DEF ToSet
    <3>2. PICK i \in DOMAIN leaves : k \in leaves[i].ids
      BY <2>6 DEF Covers
    <3>3. d \in ToSet(of[i])
      BY <2>10, <3>1, <3>2
    <3>4. PICK g \in G : ListGroup(g, of[i], tenant)
      BY <2>12
    <3>5. g.filter.ids = {x._id : x \in ToSet(of[i])}
      BY <3>4, ListGroupIds
    <3> QED
      BY <3>3, <3>5
  <2>16. ASSUME NEW g \in G, NEW h \in G, g.filter.ids \cap h.filter.ids # {} PROVE g = h
    <3>1. PICK i \in DOMAIN leaves : ListGroup(g, of[i], tenant) /\ g = SemanticGroup(i, leaves, docs, tenant, toks, idf)
      BY <2>11
    <3>2. PICK l \in DOMAIN leaves : ListGroup(h, of[l], tenant) /\ h = SemanticGroup(l, leaves, docs, tenant, toks, idf)
      BY <2>11
    <3>3. {d._id : d \in ToSet(of[i])} \cap {d._id : d \in ToSet(of[l])} # {}
      BY <2>16, <3>1, <3>2, ListGroupIds
    <3>4. ToSet(of[i]) \cap ToSet(of[l]) # {}
      BY <2>13, <3>3, SharedId
    <3>5. PICK a \in leaves[i].ids, b \in leaves[l].ids : docs[a] = docs[b]
      <4>1. ToSet(of[i]) = {docs[k] : k \in leaves[i].ids} /\ ToSet(of[l]) = {docs[k] : k \in leaves[l].ids}
        BY <2>10
      <4> QED
        BY <3>4, <4>1
    <3>6. a \in DOMAIN docs /\ b \in DOMAIN docs
      BY <2>6, <3>5 DEF Covers
    <3>7. a = b
      BY <3>5, <3>6 DEF Listing
    <3>8. leaves[i].ids \cap leaves[l].ids # {}
      BY <3>5, <3>7
    <3>9. i = l
      BY <2>6, <3>8 DEF Covers
    <3> QED
      BY <3>1, <3>2, <3>9
  <2>17. Partition(G, docs, tenant)
    BY <2>14, <2>15, <2>16 DEF Partition
  <2>18. \A g, h \in G : g.key = h.key => g = h
    BY <2>11
  <2> QED
    BY <2>7, <2>17, <2>18
<1> QED
  BY <1>1, <1>2

-----------------------------------------------------------------------------
(* The groups of a build: keys tell them apart, each counts what it        *)
(* selects, and each document to be grouped is selected by one.            *)

Keyed(G) == \A g, h \in G : g.key = h.key => g = h

\* What sets the parts of a list apart: their second components, which begin with a month.
Labelled(P, month) ==
  /\ \A p \in P : p[2][1] = month
  /\ \A p, q \in P : p[2] = q[2] => p = q

LEMMA ShardsApart ==
  ASSUME NEW docs, NEW month, NEW target
  PROVE  Labelled(Shards(docs, month, target), month)
<1>1. PICK n : n = Larger(2, Ceiling(Len(docs), target))
  OBVIOUS
<1>2. PICK in : in = [s \in 0 .. n - 1 |-> Filter(docs, LAMBDA d : Digest[d._id] % n = s)]
  OBVIOUS
<1>3. PICK P : P = Shards(docs, month, target)
  OBVIOUS
<1>4. \A p : p \in P <=> \E s \in 0 .. n - 1 : in[s] # <<>> /\ p = <<in[s], <<month, s>>>>
  BY <1>1, <1>2, <1>3 DEF Shards
<1>5. ASSUME NEW p \in P, NEW q \in P PROVE p[2][1] = month /\ (p[2] = q[2] => p = q)
  <2>1. PICK s \in 0 .. n - 1 : p = <<in[s], <<month, s>>>>
    BY <1>4
  <2>2. PICK t \in 0 .. n - 1 : q = <<in[t], <<month, t>>>>
    BY <1>4
  <2> QED
    BY <2>1, <2>2
<1> QED
  BY <1>3, <1>5 DEF Labelled

LEMMA TimesApart ==
  ASSUME NEW docs, NEW target, NEW p \in SplitByTime(docs, target), NEW q \in SplitByTime(docs, target), p[2] = q[2]
  PROVE  p = q
<1>1. CASE Len(docs) <= target
  <2>1. PICK r : r = <<docs, IF docs[1].month = "" THEN <<>> ELSE <<docs[1].month>>>>
    OBVIOUS
  <2>2. SplitByTime(docs, target) = {r}
    BY <1>1, <2>1 DEF SplitByTime
  <2> QED
    BY <2>2
<1>2. CASE ~ (Len(docs) <= target)
  <2>1. PICK months : months = {Month(docs[i]) : i \in DOMAIN docs}
    OBVIOUS
  <2>2. PICK part : part = [m \in months |-> Filter(docs, LAMBDA d : Month(d) = m)]
    OBVIOUS
  <2>3. PICK of : of = [m \in months |-> IF Len(part[m]) <= target THEN {<<part[m], <<m>>>>}
                                         ELSE Shards(part[m], m, target)]
    OBVIOUS
  <2>4. PICK P : P = SplitByTime(docs, target)
    OBVIOUS
  <2>5. P = UNION {of[m] : m \in months}
    <3>1. P = UNION {LET some == Filter(docs, LAMBDA d : Month(d) = m)
                     IN  IF Len(some) <= target THEN {<<some, <<m>>>>} ELSE Shards(some, m, target) : m \in months}
      BY <1>2, <2>1, <2>4 DEF SplitByTime
    <3> QED
      BY <2>2, <2>3, <3>1
  <2>6. ASSUME NEW m \in months PROVE Labelled(of[m], m)
    <3>1. CASE Len(part[m]) <= target
      <4>1. PICK r : r = <<part[m], <<m>>>>
        OBVIOUS
      <4>2. of[m] = {r} /\ r[2][1] = m
        BY <2>3, <3>1, <4>1
      <4> QED
        BY <4>2 DEF Labelled
    <3>2. CASE ~ (Len(part[m]) <= target)
      <4>1. of[m] = Shards(part[m], m, target)
        BY <2>3, <3>2
      <4> QED
        BY <4>1, ShardsApart
    <3> QED
      BY <3>1, <3>2
  <2>7. PICK m \in months : p \in of[m]
    BY <2>4, <2>5
  <2>8. PICK k \in months : q \in of[k]
    BY <2>4, <2>5
  <2>9. m = k
    BY <2>6, <2>7, <2>8 DEF Labelled
  <2> QED
    BY <2>6, <2>7, <2>8, <2>9 DEF Labelled
<1> QED
  BY <1>1, <1>2

LEMMA TopicalKeyed ==
  ASSUME NEW docs, NEW tenant, NEW target
  PROVE  Keyed(TopicalGroups(docs, tenant, target))
<1>1. PICK terms : terms = LET toks == Tokens(docs) IN [i \in DOMAIN docs |-> TopTerms(toks[i], IdfOf(toks), 4)]
  OBVIOUS
<1>2. PICK sign : sign = [i \in DOMAIN docs |-> IF terms[i] = <<>> THEN Misc ELSE Upto(terms[i], 2)]
  OBVIOUS
<1>3. PICK bucket : bucket = [sig \in {sign[i] : i \in DOMAIN docs} |-> Picked(docs, {i \in DOMAIN docs : sign[i] = sig})]
  OBVIOUS
<1>4. PICK G : G = TopicalGroups(docs, tenant, target)
  OBVIOUS
<1>5. G = UNION {{Group(tenant, <<"topic", sig, p[2]>>, p[1], TermsIn(docs, terms, p[1])) :
                    p \in SplitByTime(Picked(docs, {i \in DOMAIN docs : sign[i] = sig}), target)} :
                 sig \in {sign[i] : i \in DOMAIN docs}}
  BY <1>1, <1>2, <1>4 DEF TopicalGroups, TermsIn
<1>6. \A g \in G : \E sig \in {sign[i] : i \in DOMAIN docs} : \E p \in SplitByTime(bucket[sig], target) :
        g = Group(tenant, <<"topic", sig, p[2]>>, p[1], TermsIn(docs, terms, p[1]))
  <2> SUFFICES ASSUME NEW g \in G
               PROVE  \E sig \in {sign[i] : i \in DOMAIN docs} : \E p \in SplitByTime(bucket[sig], target) :
                        g = Group(tenant, <<"topic", sig, p[2]>>, p[1], TermsIn(docs, terms, p[1]))
    OBVIOUS
  <2>1. PICK sig \in {sign[i] : i \in DOMAIN docs} :
          g \in {Group(tenant, <<"topic", sig, p[2]>>, p[1], TermsIn(docs, terms, p[1])) :
                    p \in SplitByTime(Picked(docs, {i \in DOMAIN docs : sign[i] = sig}), target)}
    BY <1>5
  <2>2. bucket[sig] = Picked(docs, {i \in DOMAIN docs : sign[i] = sig})
    BY <1>3
  <2>3. \E p \in SplitByTime(bucket[sig], target) :
          g = Group(tenant, <<"topic", sig, p[2]>>, p[1], TermsIn(docs, terms, p[1]))
    BY <2>1, <2>2
  <2> QED
    BY <2>3
<1> SUFFICES ASSUME NEW g \in G, NEW h \in G, g.key = h.key PROVE g = h
  BY <1>4 DEF Keyed
<1>7. PICK s \in {sign[i] : i \in DOMAIN docs} : \E p \in SplitByTime(bucket[s], target) :
        g = Group(tenant, <<"topic", s, p[2]>>, p[1], TermsIn(docs, terms, p[1]))
  BY <1>6
<1>8. PICK t \in {sign[i] : i \in DOMAIN docs} : \E p \in SplitByTime(bucket[t], target) :
        h = Group(tenant, <<"topic", t, p[2]>>, p[1], TermsIn(docs, terms, p[1]))
  BY <1>6
<1>9. PICK p \in SplitByTime(bucket[s], target) : g = Group(tenant, <<"topic", s, p[2]>>, p[1], TermsIn(docs, terms, p[1]))
  BY <1>7
<1>10. PICK q \in SplitByTime(bucket[t], target) : h = Group(tenant, <<"topic", t, q[2]>>, q[1], TermsIn(docs, terms, q[1]))
  BY <1>8
<1>11. g.key = <<"topic", s, p[2]>> /\ h.key = <<"topic", t, q[2]>>
  <2>1. \A key, part, terms_ : Group(tenant, key, part, terms_).key = key
    BY DEF Group
  <2> QED
    BY <1>9, <1>10, <2>1
<1>12. s = t /\ p[2] = q[2]
  <2>1. PICK x, y : x = p[2] /\ y = q[2]
    OBVIOUS
  <2>2. <<"topic", s, x>> = <<"topic", t, y>>
    BY <1>11, <2>1
  <2>3. s = t /\ x = y
    BY ONLY <2>2
  <2> QED
    BY <2>1, <2>3
<1>13. p = q
  BY <1>12, TimesApart
<1> QED
  BY <1>9, <1>10, <1>12, <1>13

\* Groups as they should be: of the documents docs of a tenant, those in some are each
\* selected by one group.
Well(G, docs, tenant, some) ==
  /\ IsFiniteSet(G) /\ Keyed(G)
  /\ \A g \in G : g.document_count = Cardinality({d \in ToSet(docs) : OnDocument(g.filter, tenant, d)})
  /\ \A d \in some : \E g \in G : {h \in G : OnDocument(h.filter, tenant, d)} = {g}

LEMMA PartitionWell ==
  ASSUME NEW docs, Listing(docs), NEW tenant, \A d \in ToSet(docs) : d.tenant = tenant,
         NEW G, Partition(G, docs, tenant), Keyed(G)
  PROVE  Well(G, docs, tenant, ToSet(docs))
<1>1. \A g \in G : \E part : /\ Listing(part) /\ part # <<>> /\ ToSet(part) \subseteq ToSet(docs)
                             /\ ListGroup(g, part, tenant)
  BY DEF Partition
<1>2. ASSUME NEW g \in G, NEW d \in ToSet(docs)
      PROVE  OnDocument(g.filter, tenant, d) <=> d._id \in g.filter.ids
  <2>1. PICK part : /\ Listing(part) /\ part # <<>> /\ ListGroup(g, part, tenant)
    BY <1>1
  <2>2. IsList(part)
    BY <2>1 DEF Listing
  <2>3. g.filter.ids = {e._id : e \in ToSet(part)} /\ g.filter.customer = "" /\ g.filter.month = "" /\ g.filter.below = 0
    BY <2>1, ListGroupIds
  <2>4. ToSet(part) # {}
    BY <2>1, <2>2, NotEmpty
  <2>5. g.filter.ids # {}
    BY <2>3, <2>4
  <2> QED
    BY <2>3, <2>5 DEF OnDocument
<1>3. ASSUME NEW g \in G PROVE g.document_count = Cardinality({d \in ToSet(docs) : OnDocument(g.filter, tenant, d)})
  <2>1. PICK part : /\ Listing(part) /\ ToSet(part) \subseteq ToSet(docs) /\ ListGroup(g, part, tenant)
    BY <1>1
  <2>2. g.filter.ids = {e._id : e \in ToSet(part)}
    BY <2>1, ListGroupIds
  <2>3. \A d \in ToSet(docs), e \in ToSet(docs) : d._id = e._id => d = e
    BY DEF Listing, ToSet
  <2>4. \A d \in ToSet(docs) : d._id \in g.filter.ids <=> d \in ToSet(part)
    BY <2>1, <2>2, <2>3
  <2>5. {d \in ToSet(docs) : OnDocument(g.filter, tenant, d)} = ToSet(part)
    BY <1>2, <2>1, <2>4
  <2>6. IsList(part) /\ Distinct(part)
    BY <2>1 DEF Listing, Distinct
  <2>7. Cardinality(ToSet(part)) = Len(part)
    BY <2>6, DistinctCount
  <2> QED
    BY <2>1, <2>5, <2>7 DEF ListGroup
<1>4. IsFiniteSet(G) /\ \A d \in ToSet(docs) : \E g \in G : {h \in G : d._id \in h.filter.ids} = {g}
  BY PartitionIs
<1>5. ASSUME NEW d \in ToSet(docs) PROVE \E g \in G : {h \in G : OnDocument(h.filter, tenant, d)} = {g}
  <2>1. {h \in G : OnDocument(h.filter, tenant, d)} = {h \in G : d._id \in h.filter.ids}
    BY <1>2
  <2> QED
    BY <1>4, <2>1
<1> QED
  BY <1>3, <1>4, <1>5 DEF Well

LEMMA CustomersWell ==
  ASSUME NEW docs, IsList(docs), NEW tenant, NEW below, \A d \in ToSet(docs) : d.tenant = tenant /\ (below = 0 \/ d.seq < below)
  PROVE  Well(CustomerGroups(ToSet(docs), tenant, below), docs, tenant, {d \in ToSet(docs) : d.customer # ""})
<1>1. PICK G : G = CustomerGroups(ToSet(docs), tenant, below)
  OBVIOUS
<1>2. PICK cs : cs = {d.customer : d \in ToSet(docs)} \ {""}
  OBVIOUS
<1>3. PICK of : of = [c \in cs |-> EntityGroup(tenant, c, "", {d \in ToSet(docs) : d.customer = c}, below)]
  OBVIOUS
<1>4. G = {of[c] : c \in cs}
  BY <1>1, <1>2, <1>3 DEF CustomerGroups
<1>5. ASSUME NEW c \in cs
      PROVE  /\ of[c].key = <<"customer", c>>
             /\ of[c].document_count = Cardinality({d \in ToSet(docs) : d.customer = c})
             /\ of[c].filter.ids = {} /\ of[c].filter.customer = c /\ of[c].filter.month = "" /\ of[c].filter.below = below
  <2>1. PICK some : some = {d \in ToSet(docs) : d.customer = c}
    OBVIOUS
  <2>2. of[c] = EntityGroup(tenant, c, "", some, below)
    BY <1>3, <2>1
  <2>3. PICK m : m = ""
    OBVIOUS
  <2>4. PICK g : g = EntityGroup(tenant, c, m, some, below)
    OBVIOUS
  <2>5. /\ g.key = <<"customer", c>> /\ g.document_count = Cardinality(some)
        /\ g.filter.ids = {} /\ g.filter.customer = c /\ g.filter.month = m /\ g.filter.below = below
    BY <2>3, <2>4 DEF EntityGroup
  <2> QED
    BY <2>1, <2>2, <2>3, <2>4, <2>5
<1>6. \A c \in cs : \A d \in ToSet(docs) : OnDocument(of[c].filter, tenant, d) <=> d.customer = c
  BY <1>2, <1>5 DEF OnDocument
<1>7. IsFiniteSet(G)
  <2>1. IsFiniteSet(ToSet(docs))
    BY DistinctCount
  <2>2. IsFiniteSet({d.customer : d \in ToSet(docs)})
    <3>1. PICK f : f = [d \in ToSet(docs) |-> d.customer]
      OBVIOUS
    <3>2. PICK T : T = {d.customer : d \in ToSet(docs)}
      OBVIOUS
    <3>3. T = {f[d] : d \in ToSet(docs)}
      BY <3>1, <3>2
    <3>4. IsFiniteSet(T)
      BY <2>1, <3>3, ImageIs
    <3> QED
      BY <3>2, <3>4
  <2>3. IsFiniteSet(cs)
    BY <1>2, <2>2, FS_Subset
  <2> QED
    BY <1>4, <2>3, ImageIs
<1>8. Keyed(G)
  <2> SUFFICES ASSUME NEW c \in cs, NEW e \in cs, of[c].key = of[e].key PROVE c = e
    BY <1>4 DEF Keyed
  <2>1. <<"customer", c>> = <<"customer", e>>
    BY <1>5
  <2> QED
    BY ONLY <2>1
<1>9. ASSUME NEW c \in cs PROVE of[c].document_count = Cardinality({d \in ToSet(docs) : OnDocument(of[c].filter, tenant, d)})
  <2>1. {d \in ToSet(docs) : OnDocument(of[c].filter, tenant, d)} = {d \in ToSet(docs) : d.customer = c}
    BY <1>6
  <2> QED
    BY <1>5, <2>1
<1>10. ASSUME NEW d \in ToSet(docs), d.customer # ""
       PROVE  \E g \in G : {h \in G : OnDocument(h.filter, tenant, d)} = {g}
  <2>1. d.customer \in cs
    BY <1>2, <1>10
  <2>2. \A c \in cs : OnDocument(of[c].filter, tenant, d) <=> c = d.customer
    BY <1>6
  <2>3. {h \in G : OnDocument(h.filter, tenant, d)} = {of[d.customer]}
    BY <1>4, <2>1, <2>2
  <2> QED
    BY <1>4, <2>1, <2>3
<1>11. \A g \in G : g.document_count = Cardinality({d \in ToSet(docs) : OnDocument(g.filter, tenant, d)})
  BY <1>4, <1>9
<1> QED
  BY <1>1, <1>7, <1>8, <1>10, <1>11 DEF Well

LEMMA CustomerMonthsWell ==
  ASSUME NEW docs, IsList(docs), NEW tenant, \A d \in ToSet(docs) : d.tenant = tenant
  PROVE  Well(CustomerMonthGroups(ToSet(docs), tenant), docs, tenant, {d \in ToSet(docs) : d.customer # "" /\ d.month # ""})
<1>1. PICK G : G = CustomerMonthGroups(ToSet(docs), tenant)
  OBVIOUS
<1>2. PICK timed : timed = {d \in ToSet(docs) : d.customer # "" /\ d.month # ""}
  OBVIOUS
<1>3. PICK ps : ps = {<<d.customer, d.month>> : d \in timed}
  OBVIOUS
<1>4. PICK of : of = [p \in ps |-> EntityGroup(tenant, p[1], p[2], {d \in timed : d.customer = p[1] /\ d.month = p[2]}, 0)]
  OBVIOUS
<1>5. G = {of[p] : p \in ps}
  BY <1>1, <1>2, <1>3, <1>4 DEF CustomerMonthGroups
<1>6. ASSUME NEW p \in ps PROVE p = <<p[1], p[2]>> /\ p[1] # "" /\ p[2] # ""
  <2>1. PICK d \in timed : p = <<d.customer, d.month>>
    BY <1>3
  <2>2. p[1] = d.customer /\ p[2] = d.month
    BY <2>1
  <2> QED
    BY <1>2, <2>1, <2>2
<1>7. ASSUME NEW p \in ps
      PROVE  /\ of[p].key = <<"customer", p[1], p[2]>>
             /\ of[p].document_count = Cardinality({d \in timed : d.customer = p[1] /\ d.month = p[2]})
             /\ of[p].filter.ids = {} /\ of[p].filter.customer = p[1] /\ of[p].filter.month = p[2] /\ of[p].filter.below = 0
  <2>1. PICK some : some = {d \in timed : d.customer = p[1] /\ d.month = p[2]}
    OBVIOUS
  <2>2. PICK a, b, none : a = p[1] /\ b = p[2] /\ none = 0
    OBVIOUS
  <2>3. PICK g : g = EntityGroup(tenant, a, b, some, none)
    OBVIOUS
  <2>4. of[p] = g
    BY <1>4, <2>1, <2>2, <2>3
  <2>5. /\ g.key = <<"customer", a, b>> /\ g.document_count = Cardinality(some)
        /\ g.filter.ids = {} /\ g.filter.customer = a /\ g.filter.month = b /\ g.filter.below = none
    <3>1. b # ""
      BY <1>6, <2>2
    <3> QED
      BY <2>3, <3>1 DEF EntityGroup
  <2> QED
    BY <2>1, <2>2, <2>4, <2>5
<1>8. ASSUME NEW p \in ps, NEW d \in ToSet(docs)
      PROVE  OnDocument(of[p].filter, tenant, d) <=> d \in timed /\ d.customer = p[1] /\ d.month = p[2]
  BY <1>2, <1>6, <1>7 DEF OnDocument
<1>9. IsFiniteSet(G)
  <2>1. IsFiniteSet(ToSet(docs))
    BY DistinctCount
  <2>2. IsFiniteSet(timed)
    BY <1>2, <2>1, FS_Subset
  <2>3. IsFiniteSet(ps)
    <3>1. PICK f : f = [d \in timed |-> <<d.customer, d.month>>]
      OBVIOUS
    <3>2. ps = {f[d] : d \in timed}
      BY <1>3, <3>1
    <3> QED
      BY <2>2, <3>2, ImageIs
  <2> QED
    BY <1>5, <2>3, ImageIs
<1>10. Keyed(G)
  <2> SUFFICES ASSUME NEW p \in ps, NEW q \in ps, of[p].key = of[q].key PROVE p = q
    BY <1>5 DEF Keyed
  <2>1. PICK a, b, x, y : a = p[1] /\ b = p[2] /\ x = q[1] /\ y = q[2]
    OBVIOUS
  <2>2. <<"customer", a, b>> = <<"customer", x, y>>
    BY <1>7, <2>1
  <2>3. a = x /\ b = y
    BY ONLY <2>2
  <2> QED
    BY <1>6, <2>1, <2>3
<1>11. ASSUME NEW p \in ps PROVE of[p].document_count = Cardinality({d \in ToSet(docs) : OnDocument(of[p].filter, tenant, d)})
  <2>1. {d \in ToSet(docs) : OnDocument(of[p].filter, tenant, d)} = {d \in timed : d.customer = p[1] /\ d.month = p[2]}
    BY <1>2, <1>8
  <2> QED
    BY <1>7, <2>1
<1>12. ASSUME NEW d \in timed
       PROVE  \E g \in G : {h \in G : OnDocument(h.filter, tenant, d)} = {g}
  <2>1. PICK q : q = <<d.customer, d.month>>
    OBVIOUS
  <2>2. q \in ps
    BY <1>3, <2>1
  <2>3. ASSUME NEW p \in ps PROVE OnDocument(of[p].filter, tenant, d) <=> p = q
    <3>1. OnDocument(of[p].filter, tenant, d) <=> d.customer = p[1] /\ d.month = p[2]
      BY <1>2, <1>8
    <3>2. p = <<p[1], p[2]>>
      BY <1>6
    <3>3. q[1] = d.customer /\ q[2] = d.month
      BY <2>1
    <3>4. p = q => d.customer = p[1] /\ d.month = p[2]
      BY <3>3
    <3>5. d.customer = p[1] /\ d.month = p[2] => p = q
      BY <2>1, <3>2
    <3> QED
      BY <3>1, <3>4, <3>5
  <2>4. {h \in G : OnDocument(h.filter, tenant, d)} = {of[q]}
    BY <1>5, <2>2, <2>3
  <2> QED
    BY <1>5, <2>2, <2>4
<1>13. \A g \in G : g.document_count = Cardinality({d \in ToSet(docs) : OnDocument(g.filter, tenant, d)})
  BY <1>5, <1>11
<1> QED
  BY <1>1, <1>2, <1>9, <1>10, <1>12, <1>13 DEF Well

LEMMA SliceIs ==
  ASSUME Documents, NEW c \in DOMAIN Source, NEW tenant, NEW below
  PROVE  /\ Listing(Slice(c, tenant, below))
         /\ ToSet(Slice(c, tenant, below)) = {d \in ToSet(source[c]) : d.tenant = tenant /\ (below = 0 \/ d.seq < below)}
         /\ Slice(c, tenant, below) # <<>> => Tabled(Len(Slice(c, tenant, below)))
<1>1. PICK s : s = source[c]
  OBVIOUS
<1>2. Listing(s) /\ Len(s) <= Len(Source[c]) + MaxEdits /\ Len(s) \in Nat
  <2>1. Listing(s) /\ Len(s) <= Len(Source[c]) + edits
    BY <1>1 DEF Documents
  <2>2. Len(s) \in Nat /\ Len(Source[c]) \in Nat
    BY <2>1, ListIs, DocumentAssumption DEF Listing
  <2>3. edits \in Nat /\ MaxEdits \in Nat /\ edits <= MaxEdits
    BY MaintenanceAssumption DEF Documents
  <2> QED
    BY <2>1, <2>2, <2>3
<1>3. PICK I : I = {i \in DOMAIN s : s[i].tenant = tenant /\ (below = 0 \/ s[i].seq < below)}
  OBVIOUS
<1>4. PICK u : u = Slice(c, tenant, below)
  OBVIOUS
<1>5. u = Picked(s, I) /\ I \in SUBSET (DOMAIN s)
  BY <1>1, <1>3, <1>4 DEF Slice, Filter
<1>6. Listing(u) /\ ToSet(u) = {s[i] : i \in I}
  BY <1>2, <1>5, ListingKept
<1>7. Len(u) <= Len(s)
  BY <1>2, <1>5, ListingPicked
<1>8. ToSet(u) = {d \in ToSet(s) : d.tenant = tenant /\ (below = 0 \/ d.seq < below)}
  <2>1. \A d \in ToSet(u) : d \in ToSet(s) /\ d.tenant = tenant /\ (below = 0 \/ d.seq < below)
    BY <1>3, <1>6 DEF ToSet
  <2>2. ASSUME NEW d \in ToSet(s), d.tenant = tenant, below = 0 \/ d.seq < below PROVE d \in ToSet(u)
    <3>1. PICK i \in DOMAIN s : s[i] = d
      BY DEF ToSet
    <3> QED
      BY <1>3, <1>6, <2>2, <3>1
  <2> QED
    BY <2>1, <2>2
<1>9. u # <<>> => Tabled(Len(u))
  <2> SUFFICES ASSUME u # <<>> PROVE Tabled(Len(u))
    OBVIOUS
  <2>1. Len(u) \in Nat \ {0}
    BY <1>6, NotEmpty DEF Listing
  <2>2. Len(Source[c]) \in Nat /\ MaxEdits \in Nat
    BY ListIs, DocumentAssumption, MaintenanceAssumption
  <2>3. Len(u) \in 1 .. Len(Source[c]) + MaxEdits
    BY <1>2, <1>7, <2>1, <2>2
  <2> QED
    BY <2>3, TableAssumption DEF Tabled
<1> QED
  BY <1>1, <1>4, <1>6, <1>8, <1>9

\* GroupsFor, of documents already read.
GroupsOf(c, j, docs) ==
  IF j.strategy = "semantic" THEN SemanticGroups(docs, j.tenant, j.target)
  ELSE IF j.strategy = "topical" THEN TopicalGroups(docs, j.tenant, j.target)
  ELSE IF j.below # 0 THEN CustomerGroups(ToSet(docs), j.tenant, j.below)
  ELSE IF c = "customers" THEN {}
  ELSE IF c = "logs" THEN CustomerMonthGroups(ToSet(docs), j.tenant)
  ELSE CustomerGroups(ToSet(docs), j.tenant, 0)

LEMMA GroupsOfIs ==
  ASSUME NEW c, NEW j, NEW docs
  PROVE  /\ j.strategy = "semantic" => GroupsOf(c, j, docs) = SemanticGroups(docs, j.tenant, j.target)
         /\ j.strategy = "topical" => GroupsOf(c, j, docs) = TopicalGroups(docs, j.tenant, j.target)
         /\ j.strategy \notin {"semantic", "topical"} =>
              /\ j.below # 0 => GroupsOf(c, j, docs) = CustomerGroups(ToSet(docs), j.tenant, j.below)
              /\ j.below = 0 =>
                   /\ c = "customers" => GroupsOf(c, j, docs) = {}
                   /\ c = "logs" => GroupsOf(c, j, docs) = CustomerMonthGroups(ToSet(docs), j.tenant)
                   /\ c \notin {"customers", "logs"} => GroupsOf(c, j, docs) = CustomerGroups(ToSet(docs), j.tenant, 0)
  BY DEF GroupsOf

\* Whatever its strategy, a build makes the right groups of a collection.
LEMMA GroupsForWell ==
  ASSUME Documents, NEW j \in Job, j.kind = "build", NEW c \in ToSet(j.collections)
  PROVE  Well(GroupsFor(c, j), Slice(c, j.tenant, j.below), j.tenant, Grouped(j, c))
<1>1. c \in DOMAIN Source /\ (j.strategy \in {"topical", "semantic"} => j.target \in Nat \ {0})
  BY JobAssumption
<1>2. PICK docs : docs = Slice(c, j.tenant, j.below)
  OBVIOUS
<1>3. /\ Listing(docs)
      /\ docs # <<>> => Tabled(Len(docs))
      /\ \A d \in ToSet(docs) : d.tenant = j.tenant /\ (j.below = 0 \/ d.seq < j.below)
  BY <1>1, <1>2, SliceIs
<1>4. GroupsFor(c, j) = GroupsOf(c, j, docs)
  BY <1>2 DEF GroupsFor, GroupsOf
<1>5. IsList(docs)
  BY <1>3 DEF Listing
<1>6. CASE j.strategy = "semantic"
  <2>1. GroupsFor(c, j) = SemanticGroups(docs, j.tenant, j.target)
    BY <1>4, <1>6, GroupsOfIs
  <2>2. Partition(SemanticGroups(docs, j.tenant, j.target), docs, j.tenant) /\ Keyed(SemanticGroups(docs, j.tenant, j.target))
    BY <1>1, <1>3, <1>6, SemanticPartition DEF Keyed
  <2>3. Grouped(j, c) = ToSet(docs)
    BY <1>2, <1>6 DEF Grouped
  <2> QED
    BY <1>2, <1>3, <2>1, <2>2, <2>3, PartitionWell
<1>7. CASE j.strategy = "topical"
  <2>1. GroupsFor(c, j) = TopicalGroups(docs, j.tenant, j.target)
    BY <1>4, <1>7, GroupsOfIs
  <2>2. Partition(TopicalGroups(docs, j.tenant, j.target), docs, j.tenant) /\ Keyed(TopicalGroups(docs, j.tenant, j.target))
    BY <1>1, <1>3, <1>7, TopicalPartition, TopicalKeyed
  <2>3. Grouped(j, c) = ToSet(docs)
    BY <1>2, <1>7 DEF Grouped
  <2> QED
    BY <1>2, <1>3, <2>1, <2>2, <2>3, PartitionWell
<1>8. CASE j.strategy \notin {"semantic", "topical"}
  <2>1. Grouped(j, c) = {d \in ToSet(docs) : /\ d.customer # ""
                                             /\ j.below # 0 \/ (c # "customers" /\ (c = "logs" => d.month # ""))}
    BY <1>2, <1>8 DEF Grouped
  <2>2. Well(CustomerGroups(ToSet(docs), j.tenant, j.below), docs, j.tenant, {d \in ToSet(docs) : d.customer # ""})
    BY <1>3, <1>5, CustomersWell
  <2>3. CASE j.below # 0
    <3>1. GroupsFor(c, j) = CustomerGroups(ToSet(docs), j.tenant, j.below)
      BY <1>4, <1>8, <2>3, GroupsOfIs
    <3>2. Grouped(j, c) = {d \in ToSet(docs) : d.customer # ""}
      BY <2>1, <2>3
    <3> QED
      BY <1>2, <2>2, <3>1, <3>2
  <2>4. CASE j.below = 0 /\ c = "customers"
    <3>1. GroupsFor(c, j) = {}
      BY <1>4, <1>8, <2>4, GroupsOfIs
    <3>2. Grouped(j, c) = {}
      BY <2>1, <2>4
    <3> QED
      BY <3>1, <3>2, FS_EmptySet DEF Well, Keyed
  <2>5. CASE j.below = 0 /\ c = "logs"
    <3>1. GroupsFor(c, j) = CustomerMonthGroups(ToSet(docs), j.tenant)
      BY <1>4, <1>8, <2>5, GroupsOfIs
    <3>2. Grouped(j, c) = {d \in ToSet(docs) : d.customer # "" /\ d.month # ""}
      BY <2>1, <2>5
    <3> QED
      BY <1>2, <1>3, <1>5, <3>1, <3>2, CustomerMonthsWell
  <2>6. CASE j.below = 0 /\ c \notin {"customers", "logs"}
    <3>1. GroupsFor(c, j) = CustomerGroups(ToSet(docs), j.tenant, 0)
      BY <1>4, <1>8, <2>6, GroupsOfIs
    <3>2. Grouped(j, c) = {d \in ToSet(docs) : d.customer # ""}
      BY <2>1, <2>6
    <3> QED
      BY <1>2, <2>2, <2>6, <3>1, <3>2
  <2> QED
    BY <2>3, <2>4, <2>5, <2>6
<1> QED
  BY <1>6, <1>7, <1>8

-----------------------------------------------------------------------------
(* The tree a build makes: its root, and a branch for each collection.     *)

Counts(j, n)  == [k \in 1 .. n |-> Len(source[j.collections[k]])]
Root(j)       == DbNode(j, Counts(j, Len(j.collections)))
ColumnNode(j, c, children) ==
  Node(ColId(c), j.tenant, "collection", DbId, c, <<>>, AnyDocument, {}, Len(source[c]), children, Words(c))
GroupNodes(j, c) == {GroupNode(c, j.tenant, g) : g \in GroupsFor(c, j)}
DocNodes(j, c)   == {CustomerNode(c, j.tenant, d) : d \in ToSet(Slice(c, j.tenant, 0))}

\* Where the documents of a collection get nodes of their own.
Enumerated(c) == c = "customers" /\ Len(source[c]) <= MaxCustomerNodes
Groups(j, c)  == Cardinality(GroupsFor(c, j))
Raw(j, c)  == {ColumnNode(j, c, Groups(j, c))} \cup GroupNodes(j, c)
Full(j, c) == {ColumnNode(j, c, Groups(j, c) + Len(source[c]))} \cup GroupNodes(j, c) \cup DocNodes(j, c)
Branch(j, c)   == IF Enumerated(c) THEN Full(j, c) ELSE Raw(j, c)
Branches(j, n) == UNION {Branch(j, j.collections[k]) : k \in 1 .. n}
Whole(j)       == {Root(j)} \cup Branches(j, Len(j.collections))

UniqueIds(ns) == \A i, k \in DOMAIN ns : ns[i]._id = ns[k]._id => i = k
TreeOf(j, ns) == {ns[i] : i \in {k \in DOMAIN ns : ns[k].tenant = j.tenant}}

-----------------------------------------------------------------------------
(* What a build that is alone has at each place.                           *)

Erasing(had) == had.at = 1 /\ had.count = <<>>
Counting(j, had, ns) ==
  /\ TreeOf(j, ns) = {}
  /\ had.at \in 1 .. Len(j.collections) /\ had.count = Counts(j, had.at - 1)
Planning(j, had, ns, planned) ==
  /\ TreeOf(j, ns) = {}
  /\ had.at \in 1 .. Len(j.collections) /\ had.count = Counts(j, Len(j.collections))
  /\ IsList(had.batch) /\ ToSet(had.batch) = {Root(j)} \cup planned
Inserting(j, had, ns) ==
  /\ IsList(had.batch) /\ had.batch # <<>>
  /\ TreeOf(j, ns) \cup ToSet(had.batch) = Whole(j)

Stage(j, where, had, ns) ==
  /\ where = "erase"     => Erasing(had)
  /\ where = "discover"  => Counting(j, had, ns)
  /\ where = "groups"    => Planning(j, had, ns, Branches(j, had.at - 1))
  /\ where = "customers" => /\ Planning(j, had, ns, Branches(j, had.at - 1) \cup Raw(j, j.collections[had.at]))
                            /\ Enumerated(j.collections[had.at])
  /\ where = "insert"    => Inserting(j, had, ns)
  /\ where = "done"      => TreeOf(j, ns) = Whole(j)

BuildInv ==
  /\ IsList(nodes) /\ UniqueIds(nodes)
  /\ \A w \in Worker : alone[w] /\ Build(w) => Stage(job[w], pc[w], have[w], nodes)
  /\ ended.job.kind = "build" => ended.job \in Job /\ TreeOf(ended.job, nodes) = Whole(ended.job)

LEMMA RootIs ==
  ASSUME NEW j, NEW n, n = Root(j)
  PROVE  /\ n._id = DbId /\ n.tenant = j.tenant /\ n.type = "database" /\ n.parent = NoNode /\ n.coll = ""
         /\ n.children = Len(j.collections)
  BY DEF Root, DbNode, Node

LEMMA ColumnNodeIs ==
  ASSUME NEW j, NEW c, NEW children, NEW n, n = ColumnNode(j, c, children)
  PROVE  /\ n._id = ColId(c) /\ n.tenant = j.tenant /\ n.type = "collection" /\ n.parent = DbId /\ n.coll = c
         /\ n.children = children
  BY DEF ColumnNode, Node

LEMMA GroupNodeIs ==
  ASSUME NEW c, NEW tenant, NEW g, NEW n, n = GroupNode(c, tenant, g)
  PROVE  /\ n._id = GroupId(c, g.key) /\ n.tenant = tenant /\ n.type = "group" /\ n.parent = ColId(c) /\ n.coll = c
         /\ n.filter = g.filter /\ n.count = g.document_count
  BY DEF GroupNode, Node

LEMMA CustomerNodeIs ==
  ASSUME NEW c, NEW tenant, NEW d, NEW n, n = CustomerNode(c, tenant, d)
  PROVE  n._id = DocId(c, d._id) /\ n.tenant = tenant /\ n.type = "document" /\ n.parent = ColId(c) /\ n.coll = c
  BY DEF CustomerNode, Node

LEMMA IdsDiffer ==
  ASSUME NEW c, NEW e, NEW x
  PROVE  /\ DbId # ColId(c) /\ GroupId(c, x) # ColId(e) /\ DocId(c, x) # ColId(e)
         /\ ColId(c) = ColId(e) => c = e
         /\ NoNode # ColId(c) /\ NoNode # DbId
  BY DEF DbId, ColId, GroupId, DocId, NoNode

\* What the nodes of a branch are: that of its collection, and children of it.
OfBranch(j, c, n) ==
  /\ n.tenant = j.tenant /\ n.coll = c
  /\ \/ n.type = "collection" /\ n._id = ColId(c) /\ n.parent = DbId
     \/ n.type \in {"group", "document"} /\ n.parent = ColId(c) /\ \A e : n._id # ColId(e)

LEMMA RawIs ==
  ASSUME NEW j, NEW c, NEW n \in Raw(j, c)
  PROVE  OfBranch(j, c, n) /\ (n._id = ColId(c) => n = ColumnNode(j, c, Groups(j, c)))
<1>1. CASE n = ColumnNode(j, c, Groups(j, c))
  BY <1>1, ColumnNodeIs DEF OfBranch
<1>2. CASE n \in GroupNodes(j, c)
  <2>1. PICK g : n = GroupNode(c, j.tenant, g)
    BY <1>2 DEF GroupNodes
  <2>2. n._id = GroupId(c, g.key) /\ n.tenant = j.tenant /\ n.type = "group" /\ n.parent = ColId(c) /\ n.coll = c
    BY <2>1, GroupNodeIs
  <2> QED
    BY <2>2, IdsDiffer DEF OfBranch
<1> QED
  BY <1>1, <1>2 DEF Raw

LEMMA FullIs ==
  ASSUME NEW j, NEW c, NEW n \in Full(j, c)
  PROVE  OfBranch(j, c, n) /\ (n._id = ColId(c) => n = ColumnNode(j, c, Groups(j, c) + Len(source[c])))
<1>1. CASE n = ColumnNode(j, c, Groups(j, c) + Len(source[c]))
  BY <1>1, ColumnNodeIs DEF OfBranch
<1>2. CASE n \in GroupNodes(j, c)
  <2>1. PICK g : n = GroupNode(c, j.tenant, g)
    BY <1>2 DEF GroupNodes
  <2>2. n._id = GroupId(c, g.key) /\ n.tenant = j.tenant /\ n.type = "group" /\ n.parent = ColId(c) /\ n.coll = c
    BY <2>1, GroupNodeIs
  <2> QED
    BY <2>2, IdsDiffer DEF OfBranch
<1>3. CASE n \in DocNodes(j, c)
  <2>1. PICK d : n = CustomerNode(c, j.tenant, d)
    BY <1>3 DEF DocNodes
  <2>2. n._id = DocId(c, d._id) /\ n.tenant = j.tenant /\ n.type = "document" /\ n.parent = ColId(c) /\ n.coll = c
    BY <2>1, CustomerNodeIs
  <2> QED
    BY <2>2, IdsDiffer DEF OfBranch
<1> QED
  BY <1>1, <1>2, <1>3 DEF Full

LEMMA BranchIs ==
  ASSUME NEW j, NEW c, NEW n \in Branch(j, c)
  PROVE  OfBranch(j, c, n)
  BY RawIs, FullIs DEF Branch

LEMMA NoBranches == \A j : Branches(j, 0) = {}
  BY DEF Branches

LEMMA BranchesAre ==
  ASSUME NEW j, NEW m \in Nat
  PROVE  /\ Branches(j, m + 1) = Branches(j, m) \cup Branch(j, j.collections[m + 1])
         /\ \A n \in Branches(j, m) : \E k \in 1 .. m : n \in Branch(j, j.collections[k])
<1>1. PICK b : b = [k \in 1 .. m + 1 |-> Branch(j, j.collections[k])]
  OBVIOUS
<1>2. PICK U, V : U = Branches(j, m + 1) /\ V = Branches(j, m)
  OBVIOUS
<1>3. \A x : x \in U <=> \E k \in 1 .. m + 1 : x \in b[k]
  BY <1>1, <1>2 DEF Branches
<1>4. \A x : x \in V <=> \E k \in 1 .. m : x \in b[k]
  BY <1>1, <1>2 DEF Branches
<1>5. \A k : k \in 1 .. m + 1 <=> k \in 1 .. m \/ k = m + 1
  OBVIOUS
<1>6. \A x : x \in U <=> x \in V \/ x \in b[m + 1]
  BY ONLY <1>3, <1>4, <1>5
<1>7. U = V \cup b[m + 1]
  BY ONLY <1>6
<1>8. b[m + 1] = Branch(j, j.collections[m + 1])
  BY <1>1
<1>9. \A n \in Branches(j, m) : \E k \in 1 .. m : n \in Branch(j, j.collections[k])
  BY DEF Branches
<1> QED
  BY <1>2, <1>7, <1>8, <1>9

LEMMA TreeErased ==
  ASSUME NEW ns, IsList(ns), NEW j, NEW I, I = {i \in DOMAIN ns : ns[i].tenant # j.tenant}
  PROVE  TreeOf(j, Picked(ns, I)) = {}
<1>1. PICK left : left = Picked(ns, I)
  OBVIOUS
<1>2. I \in SUBSET (DOMAIN ns)
  OBVIOUS
<1>3. ToSet(left) = {ns[i] : i \in I}
  BY <1>1, <1>2, PickedSet
<1>4. \A i \in DOMAIN left : left[i].tenant # j.tenant
  BY <1>3 DEF ToSet
<1> QED
  BY <1>1, <1>4 DEF TreeOf

LEMMA TreeAppended ==
  ASSUME NEW ns, IsList(ns), NEW j, NEW n, n.tenant = j.tenant
  PROVE  TreeOf(j, Append(ns, n)) = TreeOf(j, ns) \cup {n}
<1>1. PICK more : more = Append(ns, n)
  OBVIOUS
<1>2. PICK m \in Nat : m = Len(ns) /\ DOMAIN ns = 1 .. m
  BY ListIs
<1>3. IsList(more) /\ Len(more) = m + 1 /\ (\A i \in 1 .. m : more[i] = ns[i]) /\ more[m + 1] = n
  BY <1>1, <1>2, Appended
<1>4. DOMAIN more = 1 .. m + 1
  BY <1>3, ListIs
<1>5. \A x : x \in TreeOf(j, more) <=> \E i \in 1 .. m + 1 : more[i].tenant = j.tenant /\ x = more[i]
  BY <1>4 DEF TreeOf
<1>6. \A x : x \in TreeOf(j, ns) <=> \E i \in 1 .. m : ns[i].tenant = j.tenant /\ x = ns[i]
  BY <1>2 DEF TreeOf
<1>7. \A x : x \in TreeOf(j, more) <=> x \in TreeOf(j, ns) \/ x = n
  <2> SUFFICES ASSUME NEW x PROVE x \in TreeOf(j, more) <=> x \in TreeOf(j, ns) \/ x = n
    OBVIOUS
  <2>1. ASSUME x \in TreeOf(j, more) PROVE x \in TreeOf(j, ns) \/ x = n
    <3>1. PICK i \in 1 .. m + 1 : more[i].tenant = j.tenant /\ x = more[i]
      BY <1>5, <2>1
    <3>2. CASE i = m + 1
      BY <1>3, <3>1, <3>2
    <3>3. CASE i # m + 1
      <4>1. i \in 1 .. m
        BY <3>3
      <4> QED
        BY <1>3, <1>6, <3>1, <4>1
    <3> QED
      BY <3>2, <3>3
  <2>2. ASSUME x \in TreeOf(j, ns) PROVE x \in TreeOf(j, more)
    <3>1. PICK i \in 1 .. m : ns[i].tenant = j.tenant /\ x = ns[i]
      BY <1>6, <2>2
    <3>2. i \in 1 .. m + 1 /\ more[i] = ns[i]
      BY <1>3
    <3> QED
      BY <1>5, <3>1, <3>2
  <2>3. n \in TreeOf(j, more)
    <3>1. m + 1 \in 1 .. m + 1
      OBVIOUS
    <3> QED
      BY <1>3, <1>5, <3>1
  <2> QED
    BY <2>1, <2>2, <2>3
<1> QED
  BY <1>1, <1>7

\* Ids stay unique whatever the workers do: insert_many stops at one that is taken.
LEMMA IdsStayUnique ==
  ASSUME IsList(nodes), UniqueIds(nodes), [Next]_vars
  PROVE  UniqueIds(nodes')
<1>1. ASSUME NEW I \in SUBSET (DOMAIN nodes), nodes' = Picked(nodes, I) PROVE UniqueIds(nodes')
  <2>1. PICK ns, left : ns = nodes /\ left = Picked(ns, I)
    OBVIOUS
  <2>2. IsList(ns) /\ UniqueIds(ns) /\ I \in SUBSET (DOMAIN ns)
    BY <2>1
  <2>3. IsList(left)
    BY <2>1, <2>2, PickedIs
  <2>4. PICK p \in [1 .. Len(left) -> I] :
          /\ \A k \in 1 .. Len(left) : left[k] = ns[p[k]]
          /\ \A k, l \in 1 .. Len(left) : k < l => p[k] < p[l]
    BY <2>1, <2>2, PickedIs
  <2>5. Len(left) \in Nat /\ DOMAIN left = 1 .. Len(left)
    BY <2>3, ListIs
  <2>6. DOMAIN ns = 1 .. Len(ns) /\ Len(ns) \in Nat
    BY <2>2, ListIs
  <2>7. ASSUME NEW k \in DOMAIN left, NEW l \in DOMAIN left, left[k]._id = left[l]._id PROVE k = l
    <3>1. p[k] \in DOMAIN ns /\ p[l] \in DOMAIN ns /\ ns[p[k]]._id = ns[p[l]]._id
      BY <2>2, <2>4, <2>5, <2>7
    <3>2. p[k] = p[l]
      BY <2>2, <3>1 DEF UniqueIds
    <3>3. ~ (k < l) /\ ~ (l < k)
      BY <2>4, <2>5, <2>6, <3>1, <3>2
    <3> QED
      BY <2>5, <3>3
  <2> QED
    BY <1>1, <2>1, <2>7 DEF UniqueIds
<1>2. CASE EditSource \/ UNCHANGED vars
  BY <1>2 DEF EditSource, vars, UniqueIds
<1>3. ASSUME NEW w \in Worker, EraseTree(w) PROVE UniqueIds(nodes')
  <2>1. PICK I : I = {i \in DOMAIN nodes : nodes[i].tenant # job[w].tenant}
    OBVIOUS
  <2>2. nodes' = Picked(nodes, I)
    BY <1>3, <2>1 DEF EraseTree, Filter
  <2> QED
    BY <1>1, <2>1, <2>2
<1>4. ASSUME NEW w \in Worker, DeleteDirty(w) PROVE UniqueIds(nodes')
  <2>1. PICK I : I = {i \in DOMAIN nodes : nodes[i]._id # have[w].dirty[have[w].at]._id}
    OBVIOUS
  <2>2. nodes' = Picked(nodes, I)
    BY <1>4, <2>1 DEF DeleteDirty, Filter
  <2> QED
    BY <1>1, <2>1, <2>2
<1>5. ASSUME NEW w \in Worker, InsertNode(w) PROVE UniqueIds(nodes')
  <2>1. PICK n : n = have[w].batch[1]
    OBVIOUS
  <2>2. nodes' = nodes \/ (nodes' = Append(nodes, n) /\ \A i \in DOMAIN nodes : nodes[i]._id # n._id)
    BY <1>5, <2>1 DEF InsertNode
  <2>3. CASE nodes' = nodes
    BY <2>3 DEF UniqueIds
  <2>4. CASE nodes' = Append(nodes, n) /\ \A i \in DOMAIN nodes : nodes[i]._id # n._id
    <3>1. PICK ns, more : ns = nodes /\ more = Append(ns, n)
      OBVIOUS
    <3>2. PICK m \in Nat : m = Len(ns) /\ DOMAIN ns = 1 .. m
      BY <3>1, ListIs
    <3>3. IsList(more) /\ Len(more) = m + 1 /\ (\A i \in 1 .. m : more[i] = ns[i]) /\ more[m + 1] = n
      BY <3>1, <3>2, Appended
    <3>4. DOMAIN more = 1 .. m + 1
      BY <3>3, ListIs
    <3>5. ASSUME NEW i \in 1 .. m + 1, NEW k \in 1 .. m + 1, more[i]._id = more[k]._id PROVE i = k
      <4>1. i \in 1 .. m \/ i = m + 1
        OBVIOUS
      <4>2. k \in 1 .. m \/ k = m + 1
        OBVIOUS
      <4> QED
        BY <2>4, <3>1, <3>2, <3>3, <3>5, <4>1, <4>2 DEF UniqueIds
    <3> QED
      BY <2>4, <3>1, <3>4, <3>5 DEF UniqueIds
  <2> QED
    BY <2>2, <2>3, <2>4
<1>6. ASSUME NEW w \in Worker, Step(w), ~ EraseTree(w), ~ DeleteDirty(w), ~ InsertNode(w) PROVE nodes' = nodes
  BY <1>6 DEF Step, Start, Crash, Discover, Collect, NextColumn, Customers, FindDirty, ReadMembers, EraseChunks,
       Chunk, InsertChunk
<1> QED
  BY <1>2, <1>3, <1>4, <1>5, <1>6 DEF Next, UniqueIds

LEMMA CountsAre ==
  ASSUME NEW j, NEW m \in Nat
  PROVE  Counts(j, 0) = <<>> /\ Append(Counts(j, m), Len(source[j.collections[m + 1]])) = Counts(j, m + 1)
<1>1. PICK f : f = [k \in 1 .. m + 1 |-> Len(source[j.collections[k]])]
  OBVIOUS
<1>2. PICK s, t : s = Counts(j, m) /\ t = Counts(j, m + 1)
  OBVIOUS
<1>3. s = [k \in 1 .. m |-> f[k]] /\ t = [k \in 1 .. m + 1 |-> f[k]]
  BY <1>1, <1>2 DEF Counts
<1>4. IsList(s) /\ Len(s) = m /\ IsList(t) /\ Len(t) = m + 1
  BY <1>3, ListOf
<1>5. PICK u : u = Append(s, f[m + 1])
  OBVIOUS
<1>6. IsList(u) /\ Len(u) = m + 1 /\ (\A i \in 1 .. m : u[i] = s[i]) /\ u[m + 1] = f[m + 1]
  BY <1>4, <1>5, Appended
<1>7. \A i \in 1 .. m + 1 : u[i] = t[i]
  BY <1>3, <1>6
<1>8. u = t
  BY <1>4, <1>6, <1>7, SameLists
<1>9. Counts(j, 0) = <<>>
  <2>1. PICK z, e : z = Counts(j, 0) /\ e = <<>>
    OBVIOUS
  <2>2. z = [k \in 1 .. 0 |-> z[k]]
    BY <2>1 DEF Counts
  <2>3. IsList(z) /\ Len(z) = 0
    BY <2>2, ListOf
  <2>4. IsList(e) /\ Len(e) = 0
    BY <2>1, EmptyIsList
  <2>5. z = e
    BY <2>3, <2>4, SameLists
  <2> QED
    BY <2>1, <2>5
<1> QED
  BY <1>1, <1>2, <1>5, <1>8, <1>9

\* The images of the elements of a list, in a list.
LEMMA MappedIs ==
  ASSUME NEW s, IsList(s), NEW f, NEW t, t = [i \in DOMAIN s |-> f[s[i]]]
  PROVE  IsList(t) /\ Len(t) = Len(s) /\ DOMAIN t = DOMAIN s /\ ToSet(t) = {f[x] : x \in ToSet(s)}
<1>1. PICK n \in Nat : n = Len(s) /\ DOMAIN s = 1 .. n
  BY ListIs
<1>2. t = [i \in 1 .. n |-> t[i]]
  BY <1>1
<1>3. IsList(t) /\ Len(t) = n
  BY <1>2, ListOf
<1>4. ToSet(t) = {t[i] : i \in DOMAIN s} /\ ToSet(s) = {s[i] : i \in DOMAIN s}
  BY DEF ToSet
<1>5. \A i \in DOMAIN s : t[i] = f[s[i]]
  OBVIOUS
<1>6. PICK U, V : U = {t[i] : i \in DOMAIN s} /\ V = {f[x] : x \in ToSet(s)}
  OBVIOUS
<1>7. \A y : y \in U <=> y \in V
  BY <1>4, <1>5, <1>6
<1>8. U = V
  BY ONLY <1>7
<1> QED
  BY <1>1, <1>3, <1>4, <1>6, <1>8

\* The nodes made of a collection: its own, and one for each group.
LEMMA CollectionNodesAre ==
  ASSUME Documents, NEW j \in Job, j.kind = "build", NEW c \in ToSet(j.collections),
         NEW groups, groups = SetToSeq(GroupsFor(c, j))
  PROVE  /\ IsList(CollectionNodes(c, j, Len(source[c]), groups))
         /\ ToSet(CollectionNodes(c, j, Len(source[c]), groups)) = Raw(j, c)
<1>1. PICK G : G = GroupsFor(c, j)
  OBVIOUS
<1>2. IsFiniteSet(G)
  BY <1>1, GroupsForWell DEF Well
<1>3. IsList(groups) /\ ToSet(groups) = G /\ Len(groups) = Groups(j, c)
  BY <1>1, <1>2, SetToSeqIs DEF Groups
<1>4. PICK own, rest, f : /\ own = <<ColumnNode(j, c, Len(groups))>>
                          /\ rest = [i \in DOMAIN groups |-> GroupNode(c, j.tenant, groups[i])]
                          /\ f = [g \in G |-> GroupNode(c, j.tenant, g)]
  OBVIOUS
<1>5. \A i \in DOMAIN groups : groups[i] \in G
  BY <1>3 DEF ToSet
<1>6. rest = [i \in DOMAIN groups |-> f[groups[i]]]
  BY <1>4, <1>5
<1>7. IsList(rest) /\ ToSet(rest) = {f[x] : x \in G}
  BY <1>3, <1>6, MappedIs
<1>8. {f[x] : x \in G} = GroupNodes(j, c)
  BY <1>1, <1>4 DEF GroupNodes
<1>9. IsList(own) /\ ToSet(own) = {ColumnNode(j, c, Len(groups))}
  BY <1>4, Single
<1>10. IsList(own \o rest) /\ ToSet(own \o rest) = ToSet(own) \cup ToSet(rest)
  BY <1>7, <1>9, Concatenated, ConcatenatedSet
<1>11. CollectionNodes(c, j, Len(source[c]), groups) = own \o rest
  BY <1>4 DEF CollectionNodes, ColumnNode
<1> QED
  BY <1>3, <1>7, <1>8, <1>9, <1>10, <1>11 DEF Raw

LEMMA Recounted ==
  ASSUME NEW id, NEW tenant, NEW type, NEW parent, NEW coll, NEW ids, NEW filter, NEW entities, NEW count, NEW children,
         NEW text, NEW m
  PROVE  [Node(id, tenant, type, parent, coll, ids, filter, entities, count, children, text) EXCEPT !.children = m]
           = Node(id, tenant, type, parent, coll, ids, filter, entities, count, m, text)
  BY DEF Node

\* What the second read of a collection makes of the planned nodes, and the nodes it adds.
Recount(batch, c, len) ==
  [k \in DOMAIN batch |-> IF batch[k]._id = ColId(c) THEN [batch[k] EXCEPT !.children = @ + len] ELSE batch[k]]
Named(c, tenant, docs) == [k \in DOMAIN docs |-> CustomerNode(c, tenant, docs[k])]

\* Once the customers have been read, their nodes are planned and counted.
LEMMA FullMade ==
  ASSUME NEW j, NEW c, NEW batch, IsList(batch), NEW planned, \A n \in planned : n._id # ColId(c),
         ToSet(batch) = {Root(j)} \cup planned \cup Raw(j, c), IsList(Slice(c, j.tenant, 0))
  PROVE  /\ IsList(Recount(batch, c, Len(source[c])) \o Named(c, j.tenant, Slice(c, j.tenant, 0)))
         /\ ToSet(Recount(batch, c, Len(source[c])) \o Named(c, j.tenant, Slice(c, j.tenant, 0)))
              = {Root(j)} \cup planned \cup Full(j, c)
<1>1. PICK len, docs, full, rest : /\ len = Len(source[c]) /\ docs = Slice(c, j.tenant, 0)
                                   /\ full = Recount(batch, c, len) /\ rest = Named(c, j.tenant, docs)
  OBVIOUS
<1>d. IsList(docs)
  BY <1>1
<1>2. PICK f : f = [n \in ToSet(batch) |-> IF n._id = ColId(c) THEN [n EXCEPT !.children = @ + len] ELSE n]
  OBVIOUS
<1>3. PICK h : h = [d \in ToSet(docs) |-> CustomerNode(c, j.tenant, d)]
  OBVIOUS
<1>4. full = [k \in DOMAIN batch |-> f[batch[k]]]
  BY <1>1, <1>2 DEF ToSet, Recount
<1>5. rest = [k \in DOMAIN docs |-> h[docs[k]]]
  BY <1>1, <1>3 DEF ToSet, Named
<1>6. IsList(full) /\ ToSet(full) = {f[n] : n \in ToSet(batch)}
  BY ONLY IsList(batch), <1>4, MappedIs
<1>7. IsList(rest) /\ ToSet(rest) = {h[d] : d \in ToSet(docs)}
  BY ONLY <1>d, <1>5, MappedIs
<1>8. ToSet(rest) = DocNodes(j, c)
  BY <1>1, <1>3, <1>7 DEF DocNodes
<1>9. f[Root(j)] = Root(j)
  <2>1. Root(j) \in ToSet(batch) /\ Root(j)._id # ColId(c)
    BY RootIs, IdsDiffer
  <2> QED
    BY <1>2, <2>1
<1>10. ASSUME NEW n \in planned PROVE f[n] = n
  BY <1>2
<1>11. ASSUME NEW n \in GroupNodes(j, c) PROVE f[n] = n
  <2>1. PICK g : n = GroupNode(c, j.tenant, g)
    BY DEF GroupNodes
  <2>2. n._id # ColId(c)
    BY <2>1, GroupNodeIs, IdsDiffer
  <2>3. n \in ToSet(batch)
    BY DEF Raw
  <2> QED
    BY <1>2, <2>2, <2>3
<1>12. f[ColumnNode(j, c, Groups(j, c))] = ColumnNode(j, c, Groups(j, c) + len)
  <2>1. PICK n : n = ColumnNode(j, c, Groups(j, c))
    OBVIOUS
  <2>2. n \in ToSet(batch) /\ n._id = ColId(c)
    BY <2>1, ColumnNodeIs DEF Raw
  <2>3. f[n] = [n EXCEPT !.children = @ + len]
    BY <1>2, <2>2
  <2>4. [n EXCEPT !.children = @ + len] = ColumnNode(j, c, Groups(j, c) + len)
    <3>1. n.children = Groups(j, c)
      BY <2>1, ColumnNodeIs
    <3> QED
      BY <2>1, <3>1, Recounted DEF ColumnNode
  <2> QED
    BY <2>1, <2>3, <2>4
<1>13. PICK U, V, W, own, more : /\ U = ToSet(full) /\ V = {Root(j)} \cup planned /\ W = GroupNodes(j, c)
                                 /\ own = ColumnNode(j, c, Groups(j, c)) /\ more = ColumnNode(j, c, Groups(j, c) + len)
  OBVIOUS
<1>14. ToSet(batch) = V \cup W \cup {own}
  BY <1>13 DEF Raw
<1>15. (\A n \in V \cup W : f[n] = n) /\ f[own] = more
  BY <1>9, <1>10, <1>11, <1>12, <1>13
<1>16. \A y : y \in U <=> \E n \in V \cup W \cup {own} : y = f[n]
  BY <1>6, <1>13, <1>14
<1>17. \A y : y \in U <=> y \in V \cup W \cup {more}
  BY ONLY <1>15, <1>16
<1>18. U = V \cup W \cup {more}
  BY ONLY <1>17
<1>19. IsList(full \o rest) /\ ToSet(full \o rest) = ToSet(full) \cup ToSet(rest)
  BY <1>6, <1>7, Concatenated, ConcatenatedSet
<1>20. Full(j, c) = {more} \cup W \cup DocNodes(j, c)
  BY <1>1, <1>13 DEF Full
<1> QED
  BY <1>1, <1>8, <1>13, <1>18, <1>19, <1>20

\* Nodes of other branches have other ids than the node of a collection.
LEMMA OtherBranches ==
  ASSUME NEW j \in Job, j.kind = "build", NEW m \in 1 .. Len(j.collections), NEW n \in Branches(j, m - 1)
  PROVE  n._id # ColId(j.collections[m])
<1>1. IsList(j.collections) /\ \A i, k \in DOMAIN j.collections : j.collections[i] = j.collections[k] => i = k
  BY JobAssumption
<1>2. DOMAIN j.collections = 1 .. Len(j.collections) /\ Len(j.collections) \in Nat
  BY <1>1, ListIs
<1>3. m - 1 \in Nat
  BY <1>2
<1>4. PICK k \in 1 .. m - 1 : n \in Branch(j, j.collections[k])
  BY <1>3, BranchesAre
<1>5. k \in DOMAIN j.collections /\ m \in DOMAIN j.collections /\ k # m
  BY <1>2, <1>3
<1>6. j.collections[k] # j.collections[m]
  BY <1>1, <1>5
<1>7. OfBranch(j, j.collections[k], n)
  BY <1>4, BranchIs
<1> QED
  BY <1>6, <1>7, IdsDiffer DEF OfBranch

\* What a build does once it has made the nodes of a collection.
LEMMA NextColumnMoves ==
  ASSUME NEW w \in Worker, NEW j \in Job, j = job[w], j.kind = "build", DOMAIN have[w] = Fields,
         NEW at, at = have[w].at, at \in 1 .. Len(j.collections), have[w].count = Counts(j, Len(j.collections)),
         TreeOf(j, nodes) = {}, NEW batch, IsList(batch), ToSet(batch) = {Root(j)} \cup Branches(j, at),
         NextColumn(w, batch)
  PROVE  \E where, had : Goto(w, where, had) /\ where # "erase" /\ Stage(j, where, had, nodes')
<1>1. PICK n \in Nat : n = Len(j.collections)
  BY ListIs, JobAssumption
<1>2. PICK where, had : /\ where = (IF at = n THEN "insert" ELSE "groups")
                        /\ had = [have[w] EXCEPT !.batch = batch, !.at = IF at = n THEN 1 ELSE @ + 1]
  OBVIOUS
<1>3. Goto(w, where, had) /\ nodes' = nodes
  BY <1>1, <1>2 DEF NextColumn
<1>4. had.batch = batch /\ had.count = have[w].count /\ had.at = IF at = n THEN 1 ELSE at + 1
  BY <1>2 DEF Fields
<1>5. CASE at = n
  <2>1. Root(j) \in ToSet(batch)
    OBVIOUS
  <2>2. batch # <<>>
    BY <2>1, EmptyIsList DEF ToSet
  <2>3. TreeOf(j, nodes) \cup ToSet(batch) = Whole(j)
    BY <1>1, <1>5 DEF Whole
  <2>4. Inserting(j, had, nodes')
    BY <1>3, <1>4, <2>2, <2>3 DEF Inserting
  <2>5. where = "insert"
    BY <1>2, <1>5
  <2>6. Stage(j, where, had, nodes')
    BY <2>4, <2>5 DEF Stage
  <2> QED
    BY <1>3, <2>5, <2>6
<1>6. CASE at # n
  <2>1. had.at = at + 1 /\ had.at \in 1 .. n /\ had.at - 1 = at
    BY <1>1, <1>4, <1>6
  <2>2. Planning(j, had, nodes', Branches(j, had.at - 1))
    BY <1>1, <1>3, <1>4, <2>1 DEF Planning
  <2>3. where = "groups"
    BY <1>2, <1>6
  <2>4. Stage(j, where, had, nodes')
    BY <2>2, <2>3 DEF Stage
  <2> QED
    BY <1>3, <2>3, <2>4
<1> QED
  BY <1>5, <1>6

\* What a build that is alone does next.
LEMMA BuildMoves ==
  ASSUME BuildInv, Control, Documents, NEW w \in Worker, alone[w], Build(w), Step(w), ~ Start(w), NEW j, j = job[w]
  PROVE  \E where, had : Goto(w, where, had) /\ where # "erase" /\ Stage(j, where, had, nodes')
<1>1. j \in Job /\ j.kind = "build" /\ w \in Running /\ DOMAIN have[w] = Fields
  <2>1. j \in Job /\ j.kind = "build" /\ pc[w] \in PlacesOf(j.kind) /\ DOMAIN have[w] = Fields
    BY IdleIs DEF Control, Fits, Build
  <2> QED
    BY <2>1 DEF PlacesOf, Running
<1>2. pc[w] \in {"erase", "discover", "groups", "customers", "insert"}
  BY <1>1 DEF Control, Fits, PlacesOf, Running
<1>3. Stage(j, pc[w], have[w], nodes) /\ IsList(nodes)
  BY DEF BuildInv
<1>4. Crash(w) \/ EraseTree(w) \/ Discover(w) \/ Collect(w) \/ Customers(w) \/ InsertNode(w)
  BY <1>1, <1>2 DEF Step, FindDirty, ReadMembers, DeleteDirty, EraseChunks, Chunk, InsertChunk, Build
<1>5. PICK n \in Nat \ {0} : n = Len(j.collections) /\ DOMAIN j.collections = 1 .. n
  <2>1. IsList(j.collections) /\ j.collections # <<>>
    BY <1>1, JobAssumption
  <2> QED
    BY <2>1, ListIs, NotEmpty
<1>6. CASE Crash(w)
  BY <1>6 DEF Crash, Stage
<1>7. CASE EraseTree(w)
  <2>1. PICK I : I = {i \in DOMAIN nodes : nodes[i].tenant # j.tenant}
    OBVIOUS
  <2>2. nodes' = Picked(nodes, I) /\ Goto(w, "discover", have[w]) /\ pc[w] = "erase"
    BY <1>7, <2>1 DEF EraseTree, Filter
  <2>3. TreeOf(j, Picked(nodes, I)) = {}
    BY <1>3, <2>1, TreeErased
  <2>4. have[w].at = 1 /\ have[w].count = <<>>
    BY <1>3, <2>2 DEF Stage, Erasing
  <2>5. Counting(j, have[w], nodes')
    BY <1>5, <2>2, <2>3, <2>4, CountsAre DEF Counting
  <2> QED
    BY <2>2, <2>5 DEF Stage
<1>8. CASE Discover(w)
  <2>1. PICK at : at = have[w].at
    OBVIOUS
  <2>2. TreeOf(j, nodes) = {} /\ at \in 1 .. n /\ have[w].count = Counts(j, at - 1)
    BY <1>3, <1>5, <1>8, <2>1 DEF Discover, Stage, Counting
  <2>3. PICK count : count = Append(have[w].count, Len(source[j.collections[at]]))
    OBVIOUS
  <2>4. count = Counts(j, at)
    <3>1. at - 1 \in Nat /\ (at - 1) + 1 = at
      BY <2>2
    <3> QED
      BY <2>2, <2>3, <3>1, CountsAre
  <2>5. PICK where, had :
          /\ where = (IF at = n THEN "groups" ELSE "discover")
          /\ had = [have[w] EXCEPT !.count = count, !.at = IF at = n THEN 1 ELSE @ + 1,
                                  !.batch = IF at = n THEN <<DbNode(j, count)>> ELSE @]
    OBVIOUS
  <2>6. Goto(w, where, had) /\ nodes' = nodes
    BY <1>5, <1>8, <2>1, <2>3, <2>5 DEF Discover, Column
  <2>7. had.count = count /\ had.at = IF at = n THEN 1 ELSE at + 1
    BY <1>1, <2>1, <2>5 DEF Fields
  <2>8. CASE at = n
    <3>1. had.batch = <<Root(j)>> /\ had.at = 1 /\ where = "groups"
      BY <1>1, <1>5, <2>4, <2>5, <2>7, <2>8 DEF Fields, Root
    <3>2. IsList(had.batch) /\ ToSet(had.batch) = {Root(j)}
      BY <3>1, Single
    <3>3. Branches(j, had.at - 1) = {}
      <4>1. had.at - 1 = 0
        BY <3>1
      <4>2. Branches(j, 0) = {}
        BY NoBranches
      <4> QED
        BY <4>1, <4>2
    <3>4. Planning(j, had, nodes', Branches(j, had.at - 1))
      BY <1>5, <2>2, <2>4, <2>6, <2>7, <2>8, <3>1, <3>2, <3>3 DEF Planning
    <3> QED
      BY <2>6, <3>1, <3>4 DEF Stage
  <2>9. CASE at # n
    <3>1. had.at = at + 1 /\ had.at - 1 = at /\ where = "discover" /\ had.at \in 1 .. n
      BY <2>2, <2>5, <2>7, <2>9
    <3>2. Counting(j, had, nodes')
      BY <1>5, <2>2, <2>4, <2>6, <2>7, <3>1 DEF Counting
    <3> QED
      BY <2>6, <3>1, <3>2 DEF Stage
  <2> QED
    BY <2>8, <2>9
<1>9. CASE Collect(w)
  <2>1. PICK at, c : at = have[w].at /\ c = j.collections[at]
    OBVIOUS
  <2>2. /\ TreeOf(j, nodes) = {} /\ at \in 1 .. n /\ have[w].count = Counts(j, n)
        /\ IsList(have[w].batch) /\ ToSet(have[w].batch) = {Root(j)} \cup Branches(j, at - 1)
    BY <1>3, <1>5, <1>9, <2>1 DEF Collect, Stage, Planning
  <2>3. c \in ToSet(j.collections) /\ have[w].count[at] = Len(source[c])
    BY <1>5, <2>1, <2>2 DEF ToSet, Counts
  <2>4. PICK groups, more, batch :
          /\ groups = SetToSeq(GroupsFor(c, j)) /\ more = CollectionNodes(c, j, Len(source[c]), groups)
          /\ batch = have[w].batch \o more
    OBVIOUS
  <2>5. IsList(more) /\ ToSet(more) = Raw(j, c)
    BY <1>1, <2>3, <2>4, CollectionNodesAre
  <2>6. IsList(batch) /\ ToSet(batch) = {Root(j)} \cup Branches(j, at - 1) \cup Raw(j, c)
    <3>1. PICK before : before = have[w].batch
      OBVIOUS
    <3>2. IsList(before) /\ batch = before \o more
      BY <2>2, <2>4, <3>1
    <3>3. IsList(batch) /\ ToSet(batch) = ToSet(before) \cup ToSet(more)
      BY <2>5, <3>2, Concatenated, ConcatenatedSet
    <3> QED
      BY <2>2, <2>5, <3>1, <3>3
  <2>7. \/ /\ HasCustomerNodes(w) /\ Goto(w, "customers", [have[w] EXCEPT !.batch = batch]) /\ nodes' = nodes
        \/ ~ HasCustomerNodes(w) /\ NextColumn(w, batch)
    BY <1>9, <2>1, <2>3, <2>4 DEF Collect, Column
  <2>8. HasCustomerNodes(w) <=> Enumerated(c)
    BY <2>1, <2>3 DEF HasCustomerNodes, Enumerated, Column
  <2>9. CASE HasCustomerNodes(w)
    <3>1. PICK had : had = [have[w] EXCEPT !.batch = batch]
      OBVIOUS
    <3>2. had.batch = batch /\ had.at = at /\ had.count = have[w].count
      BY <1>1, <2>1, <3>1 DEF Fields
    <3>3. Goto(w, "customers", had) /\ nodes' = nodes
      BY <2>7, <2>9, <3>1
    <3>4. Planning(j, had, nodes', Branches(j, had.at - 1) \cup Raw(j, j.collections[had.at]))
      BY <1>5, <2>1, <2>2, <2>6, <3>2, <3>3 DEF Planning
    <3>5. Stage(j, "customers", had, nodes')
      BY <2>1, <2>8, <2>9, <3>2, <3>4 DEF Stage
    <3> QED
      BY <3>3, <3>5
  <2>10. CASE ~ HasCustomerNodes(w)
    <3>1. at - 1 \in Nat /\ (at - 1) + 1 = at
      BY <2>2
    <3>2. Branches(j, at) = Branches(j, at - 1) \cup Raw(j, c)
      BY <2>1, <2>8, <2>10, <3>1, BranchesAre DEF Branch
    <3>3. ToSet(batch) = {Root(j)} \cup Branches(j, at)
      BY <2>6, <3>2
    <3> QED
      BY <1>1, <1>5, <2>1, <2>2, <2>6, <2>7, <2>10, <3>3, NextColumnMoves
  <2> QED
    BY <2>9, <2>10
<1>10. CASE Customers(w)
  <2>1. PICK at, c : at = have[w].at /\ c = j.collections[at]
    OBVIOUS
  <2>2. /\ TreeOf(j, nodes) = {} /\ at \in 1 .. n /\ have[w].count = Counts(j, n) /\ Enumerated(c)
        /\ IsList(have[w].batch) /\ ToSet(have[w].batch) = {Root(j)} \cup (Branches(j, at - 1) \cup Raw(j, c))
    BY <1>3, <1>5, <1>10, <2>1 DEF Customers, Stage, Planning
  <2>3. c \in DOMAIN Source /\ have[w].count[at] = Len(source[c])
    BY <1>1, <1>5, <2>1, <2>2, JobAssumption DEF ToSet, Counts
  <2>4. PICK docs, batch, len : docs = Slice(c, j.tenant, 0) /\ batch = have[w].batch /\ len = Len(source[c])
    OBVIOUS
  <2>5. PICK full, rest : full = Recount(batch, c, len) /\ rest = Named(c, j.tenant, docs)
    OBVIOUS
  <2>6. NextColumn(w, full \o rest)
    BY <1>10, <2>1, <2>3, <2>4, <2>5 DEF Customers, Column, Recount, Named
  <2>7. IsList(docs)
    BY <2>3, <2>4, SliceIs DEF Listing
  <2>8. \A x \in Branches(j, at - 1) : x._id # ColId(c)
    BY <1>1, <1>5, <2>1, <2>2, OtherBranches
  <2>9. PICK planned : planned = Branches(j, at - 1)
    OBVIOUS
  <2>10. IsList(full \o rest) /\ ToSet(full \o rest) = {Root(j)} \cup planned \cup Full(j, c)
    <3>1. IsList(batch) /\ ToSet(batch) = {Root(j)} \cup planned \cup Raw(j, c) /\ \A x \in planned : x._id # ColId(c)
      BY <2>2, <2>4, <2>8, <2>9
    <3> QED
      BY <2>4, <2>5, <2>7, <3>1, FullMade
  <2>11. at - 1 \in Nat /\ (at - 1) + 1 = at
    BY <2>2
  <2>12. Branches(j, at) = Branches(j, at - 1) \cup Full(j, c)
    <3>1. Branch(j, c) = Full(j, c)
      BY <2>2 DEF Branch
    <3>2. PICK p \in Nat : p = at - 1 /\ p + 1 = at
      BY <2>11
    <3>3. Branches(j, p + 1) = Branches(j, p) \cup Branch(j, j.collections[p + 1])
      BY ONLY p \in Nat, BranchesAre
    <3> QED
      BY <2>1, <3>1, <3>2, <3>3
  <2>13. ToSet(full \o rest) = {Root(j)} \cup Branches(j, at)
    BY <2>9, <2>10, <2>12
  <2> QED
    BY <1>1, <1>5, <2>1, <2>2, <2>6, <2>10, <2>13, NextColumnMoves
<1>11. CASE InsertNode(w)
  <2>1. PICK batch, x : batch = have[w].batch /\ x = batch[1]
    OBVIOUS
  <2>2. IsList(batch) /\ batch # <<>> /\ TreeOf(j, nodes) \cup ToSet(batch) = Whole(j)
    BY <1>3, <1>11, <2>1 DEF InsertNode, Stage, Inserting
  <2>3. PICK m \in Nat \ {0} : m = Len(batch) /\ DOMAIN batch = 1 .. m
    BY <2>2, ListIs, NotEmpty
  <2>4. x \in ToSet(batch)
    BY <2>1, <2>3 DEF ToSet
  <2>5. x.tenant = j.tenant
    <3>1. x \in Whole(j)
      BY <2>2, <2>4
    <3>2. CASE x = Root(j)
      BY <3>2, RootIs
    <3>3. CASE x \in Branches(j, n)
      BY <3>3, BranchesAre, BranchIs DEF OfBranch
    <3> QED
      BY <1>5, <3>1, <3>2, <3>3 DEF Whole
  <2>6. PICK taken : taken = (\E i \in DOMAIN nodes : nodes[i]._id = x._id)
    OBVIOUS
  <2>7. PICK where, had : /\ where = (IF taken THEN "raised" ELSE IF m = 1 THEN "done" ELSE "insert")
                          /\ had = [have[w] EXCEPT !.batch = Tail(@)]
    OBVIOUS
  <2>8. Goto(w, where, had) /\ nodes' = IF taken THEN nodes ELSE Append(nodes, x)
    BY <1>11, <2>1, <2>3, <2>6, <2>7 DEF InsertNode
  <2>9. had.batch = Tail(batch)
    BY <1>1, <2>1, <2>7 DEF Fields
  <2>10. CASE taken
    <3>1. where = "raised"
      BY <2>7, <2>10
    <3> QED
      BY <2>8, <3>1 DEF Stage
  <2>11. CASE ~ taken
    <3>1. TreeOf(j, nodes') = TreeOf(j, nodes) \cup {x}
      <4>1. nodes' = Append(nodes, x)
        BY <2>8, <2>11
      <4>2. TreeOf(j, Append(nodes, x)) = TreeOf(j, nodes) \cup {x}
        BY <1>3, <2>5, TreeAppended
      <4> QED
        BY <4>1, <4>2
    <3>2. IsList(Tail(batch)) /\ (m # 1 => Tail(batch) # <<>>) /\ ToSet(batch) = {x} \cup ToSet(Tail(batch)) /\ (m = 1 => ToSet(batch) = {x})
      <4>1. IsList(<<>>) /\ ToSet(<<>>) = {}
        BY EmptyIsList DEF ToSet
      <4>2. PICK one : one = Append(<<>>, x)
        OBVIOUS
      <4>3. one = <<x>>
        BY <4>2
      <4>4. /\ IsList(Tail(batch)) /\ (m # 1 => Tail(batch) # <<>>)
            /\ one \o Tail(batch) = <<>> \o batch /\ (m = 1 => one = <<>> \o batch)
        BY <2>1, <2>2, <2>3, <4>1, <4>2, MovedOne
      <4>5. IsList(one) /\ ToSet(one) = {x}
        BY <4>3, Single
      <4>6. ToSet(one \o Tail(batch)) = {x} \cup ToSet(Tail(batch))
        BY <4>4, <4>5, ConcatenatedSet
      <4>7. ToSet(<<>> \o batch) = ToSet(batch)
        BY <2>2, <4>1, ConcatenatedSet
      <4> QED
        BY <4>4, <4>5, <4>6, <4>7
    <3>3. CASE m = 1
      <4>1. where = "done" /\ TreeOf(j, nodes') = Whole(j)
        BY <2>2, <2>7, <2>11, <3>1, <3>2, <3>3
      <4> QED
        BY <2>8, <4>1 DEF Stage
    <3>4. CASE m # 1
      <4>1. where = "insert"
        BY <2>7, <2>11, <3>4
      <4>2. TreeOf(j, nodes') \cup ToSet(Tail(batch)) = Whole(j)
        BY <2>2, <3>1, <3>2
      <4>3. Inserting(j, had, nodes')
        BY <2>9, <3>2, <3>4, <4>2 DEF Inserting
      <4> QED
        BY <2>8, <4>1, <4>3 DEF Stage
    <3> QED
      BY <3>3, <3>4
  <2> QED
    BY <2>6, <2>10, <2>11
<1> QED
  BY <1>4, <1>6, <1>7, <1>8, <1>9, <1>10, <1>11

\* Only the documents make the tree of a build what it is.
LEMMA TreeUnread ==
  ASSUME source' = source, NEW j, NEW n, NEW c
  PROVE  /\ Counts(j, n)' = Counts(j, n) /\ Root(j)' = Root(j)
         /\ Enumerated(c)' <=> Enumerated(c)
         /\ Raw(j, c)' = Raw(j, c) /\ Branches(j, n)' = Branches(j, n) /\ Whole(j)' = Whole(j)
<1>1. \A t, b, x : Slice(x, t, b)' = Slice(x, t, b)
  BY DEF Slice, Filter
<1>2. \A x : GroupsFor(x, j)' = GroupsFor(x, j)
  BY <1>1 DEF GroupsFor
<1>3. \A x : Words(x)' = Words(x)
  BY DEF Words
<1>4. Counts(j, n)' = Counts(j, n) /\ Root(j)' = Root(j)
  BY DEF Counts, Root
<1>5. \A x : Enumerated(x)' <=> Enumerated(x)
  BY DEF Enumerated
<1>6. \A x : Raw(j, x)' = Raw(j, x)
  BY <1>2, <1>3 DEF Raw, ColumnNode, GroupNodes, Groups
<1>7. \A x : Full(j, x)' = Full(j, x)
  BY <1>1, <1>2, <1>3 DEF Full, ColumnNode, GroupNodes, Groups, DocNodes
<1>8. \A x : Branch(j, x)' = Branch(j, x)
  BY <1>5, <1>6, <1>7 DEF Branch
<1>9. \A m : Branches(j, m)' = Branches(j, m)
  BY <1>8 DEF Branches
<1>10. Whole(j)' = Whole(j)
  BY <1>4, <1>9 DEF Whole, Root, Counts
<1> QED
  BY <1>4, <1>5, <1>6, <1>9, <1>10

LEMMA StageStays ==
  ASSUME source' = source, NEW j, NEW where, NEW had, NEW ns, Stage(j, where, had, ns)
  PROVE  Stage(j, where, had, ns)'
<1>1. PICK at, n, c : at = had.at /\ n = Len(j.collections) /\ c = j.collections[at]
  OBVIOUS
<1>2. \A m : Counts(j, m)' = Counts(j, m) /\ Branches(j, m)' = Branches(j, m)
  BY TreeUnread
<1>3. /\ Root(j)' = Root(j) /\ Whole(j)' = Whole(j) /\ Raw(j, c)' = Raw(j, c)
      /\ Enumerated(c)' <=> Enumerated(c)
  BY TreeUnread
<1>4. Counting(j, had, ns) => Counting(j, had, ns)'
  BY <1>2 DEF Counting, TreeOf
<1>5. ASSUME NEW planned, Planning(j, had, ns, planned) PROVE Planning(j, had, ns, planned)'
  BY <1>2, <1>3, <1>5 DEF Planning, TreeOf
<1>6. where = "groups" => Planning(j, had, ns, Branches(j, had.at - 1))'
  <2> SUFFICES ASSUME where = "groups" PROVE Planning(j, had, ns, Branches(j, had.at - 1))'
    OBVIOUS
  <2>1. PICK planned : planned = Branches(j, had.at - 1)
    OBVIOUS
  <2>2. Planning(j, had, ns, planned)'
    BY <1>5, <2>1 DEF Stage
  <2> QED
    BY <1>2, <2>1, <2>2 DEF Planning
<1>7. where = "customers" =>
        /\ Planning(j, had, ns, Branches(j, had.at - 1) \cup Raw(j, j.collections[had.at]))'
        /\ Enumerated(j.collections[had.at])'
  <2> SUFFICES ASSUME where = "customers"
               PROVE  /\ Planning(j, had, ns, Branches(j, had.at - 1) \cup Raw(j, j.collections[had.at]))'
                      /\ Enumerated(j.collections[had.at])'
    OBVIOUS
  <2>1. PICK planned : planned = Branches(j, had.at - 1) \cup Raw(j, c)
    OBVIOUS
  <2>2. Planning(j, had, ns, planned)'
    BY <1>1, <1>5, <2>1 DEF Stage
  <2>3. Enumerated(c)'
    BY <1>1, <1>3 DEF Stage
  <2> QED
    BY <1>1, <1>2, <1>3, <2>1, <2>2, <2>3 DEF Planning
<1>8. Inserting(j, had, ns) => Inserting(j, had, ns)'
  BY <1>3 DEF Inserting, TreeOf
<1>9. where = "done" => TreeOf(j, ns)' = Whole(j)'
  BY <1>3 DEF Stage, TreeOf
<1>10. where = "erase" => Erasing(had)'
  BY DEF Stage, Erasing
<1> QED
  BY <1>4, <1>6, <1>7, <1>8, <1>9, <1>10 DEF Stage

LEMMA BuildInvInit ==
  ASSUME Init
  PROVE  BuildInv
<1>1. nodes = <<>> /\ alone = [w \in Worker |-> FALSE] /\ ended = NoneEnded
  BY DEF Init
<1>2. ended.job.kind = "none"
  BY <1>1, IdleIs DEF NoneEnded, Ended
<1> QED
  BY <1>1, <1>2, EmptyIsList DEF BuildInv, UniqueIds

LEMMA BuildInvNext ==
  ASSUME BuildInv, Control, Control', Documents, [Next]_vars
  PROVE  BuildInv'
<1>1. IsList(nodes') /\ UniqueIds(nodes')
  BY NodesStayList, IdsStayUnique DEF BuildInv
<1>2. CASE UNCHANGED vars
  <2>1. source' = source /\ nodes' = nodes /\ ended' = ended /\ job' = job /\ pc' = pc /\ have' = have /\ alone' = alone
    BY <1>2 DEF vars, worker
  <2>2. ASSUME NEW w \in Worker, alone'[w], Build(w)' PROVE Stage(job[w], pc[w], have[w], nodes)'
    <3>1. PICK j, where, had, ns : j = job[w] /\ where = pc[w] /\ had = have[w] /\ ns = nodes
      OBVIOUS
    <3>2. Stage(j, where, had, ns)
      BY <2>1, <2>2, <3>1 DEF BuildInv, Build
    <3>3. Stage(j, where, had, ns)'
      BY <2>1, <3>2, StageStays
    <3> QED
      BY <2>1, <3>1, <3>3
  <2>3. ASSUME ended'.job.kind = "build" PROVE ended'.job \in Job /\ TreeOf(ended.job, nodes)' = Whole(ended.job)'
    <3>1. PICK j, ns : j = ended.job /\ ns = nodes
      OBVIOUS
    <3>2. TreeOf(j, ns) = Whole(j) /\ j \in Job
      BY <2>1, <2>3, <3>1 DEF BuildInv
    <3>3. Whole(j)' = Whole(j)
      BY <2>1, TreeUnread
    <3>4. TreeOf(j, ns)' = Whole(j)'
      BY <3>2, <3>3 DEF TreeOf
    <3> QED
      BY <2>1, <3>1, <3>2, <3>4
  <2> QED
    BY <1>1, <2>2, <2>3 DEF BuildInv
<1>3. ASSUME NEW w \in Worker, Step(w), Moves(w), alone[w], Build(w) PROVE BuildInv'
  <2>1. PICK j : j = job[w]
    OBVIOUS
  <2>2. ~ Start(w) /\ w \in Running
    BY <1>3 DEF Moves, Start, Running
  <2>3. PICK where, had : Goto(w, where, had) /\ where # "erase" /\ Stage(j, where, had, nodes')
    BY <1>3, <2>1, <2>2, BuildMoves
  <2>4. PICK ns : ns = nodes'
    OBVIOUS
  <2>5. source' = source
    BY <2>3, OthersStay
  <2>6. Stage(j, where, had, ns)'
    BY <2>3, <2>4, <2>5, StageStays
  <2>7. ASSUME NEW v \in Worker, alone'[v] PROVE where \notin Over /\ job'[v] = j /\ pc'[v] = where /\ have'[v] = had
    <3>1. v = w
      BY <2>2, <2>3, <2>7, OthersStay DEF Control
    <3> QED
      BY <2>1, <2>3, <2>7, <3>1, OthersStay
  <2>8. ASSUME NEW v \in Worker, alone'[v] PROVE Stage(job[v], pc[v], have[v], nodes)'
    BY <2>4, <2>6, <2>7, <2>8
  <2>9. ASSUME ended'.job.kind = "build" PROVE ended'.job \in Job /\ TreeOf(ended.job, nodes)' = Whole(ended.job)'
    <3>1. where = "done" /\ ended'.job = j
      BY <2>1, <2>3, <2>9, EndsAlone, IdleIs
    <3>5. j \in Job
      BY <1>3, <2>1, IdleIs DEF Control, Build
    <3>2. TreeOf(j, ns) = Whole(j)
      BY <2>3, <2>4, <3>1 DEF Stage
    <3>3. Whole(j)' = Whole(j)
      BY <2>5, TreeUnread
    <3>4. TreeOf(j, ns)' = Whole(j)'
      BY <3>2, <3>3 DEF TreeOf
    <3> QED
      BY <2>4, <3>1, <3>4, <3>5
  <2> QED
    BY <1>1, <2>8, <2>9 DEF BuildInv
<1>4. ASSUME NEW w \in Worker, Step(w), Moves(w), ~ alone[w] \/ ~ Build(w) PROVE BuildInv'
  <2>1. PICK where, had : Goto(w, where, had)
    BY <1>4 DEF Moves
  <2>2. ended'.job.kind # "build"
    BY <1>4, <2>1, EndsAlone, IdleIs DEF Build
  <2>3. ASSUME NEW v \in Worker, alone'[v], Build(v)' PROVE FALSE
    <3>1. v = w
      BY <1>4, <2>1, <2>3, OthersStay DEF Control, Moves
    <3>2. alone[w] /\ job'[w] = job[w]
      BY <2>1, <2>3, <3>1, OthersStay
    <3> QED
      BY <1>4, <2>3, <3>1, <3>2 DEF Build
  <2> QED
    BY <1>1, <2>2, <2>3 DEF BuildInv
<1>5. ASSUME NEW w \in Worker, Start(w) PROVE BuildInv'
  <2>1. have' = have /\ ended' = NoneEnded /\ alone' = [v \in Worker |-> v = w /\ Running = {}]
    BY <1>5 DEF Start
  <2>2. ended'.job.kind = "none"
    BY <2>1, IdleIs DEF NoneEnded, Ended
  <2>3. have[w] = Nothing
    BY <1>5, KindsAre DEF Start, Control, Fits, PlacesOf, Kinds
  <2>4. PICK j \in Job : pc' = [pc EXCEPT ![w] = IF j.kind = "dirty" THEN "find" ELSE "erase"]
    BY <1>5 DEF Start
  <2>5. pc'[w] \in {"find", "erase"}
    BY <2>4 DEF Control
  <2>6. ASSUME NEW v \in Worker, alone'[v] PROVE have'[v] = Nothing /\ pc'[v] \in {"find", "erase"}
    <3>1. v = w
      BY <2>1, <2>6
    <3> QED
      BY <2>1, <2>3, <2>5, <3>1
  <2>7. ASSUME NEW v \in Worker, alone'[v] PROVE Stage(job[v], pc[v], have[v], nodes)'
    <3>1. have'[v].at = 1 /\ have'[v].count = <<>> /\ pc'[v] \in {"find", "erase"}
      BY <2>6, <2>7 DEF Nothing
    <3> QED
      BY <3>1 DEF Stage, Erasing
  <2> QED
    BY <1>1, <2>2, <2>7 DEF BuildInv
<1>6. CASE EditSource
  <2>1. alone' = [w \in Worker |-> FALSE] /\ ended' = NoneEnded
    BY <1>6 DEF EditSource
  <2>2. ended'.job.kind = "none"
    BY <2>1, IdleIs DEF NoneEnded, Ended
  <2> QED
    BY <1>1, <2>1, <2>2 DEF BuildInv
<1> QED
  BY <1>2, <1>3, <1>4, <1>5, <1>6, StepMoves DEF Next

-----------------------------------------------------------------------------
(* What a whole tree is like.                                              *)

\* The places of nodes.
At(S, tenant) == {i \in Tree(tenant) : nodes[i] \in S}

LEMMA AtIs ==
  ASSUME IsList(nodes), UniqueIds(nodes), NEW j, NEW S \in SUBSET TreeOf(j, nodes)
  PROVE  /\ IsFiniteSet(S) /\ Cardinality(At(S, j.tenant)) = Cardinality(S)
         /\ \A x \in S : \E i \in At(S, j.tenant) : nodes[i] = x
<1>1. PICK P, f, n : P = At(S, j.tenant) /\ f = [i \in P |-> nodes[i]] /\ n = Len(nodes)
  OBVIOUS
<1>2. n \in Nat /\ DOMAIN nodes = 1 .. n
  BY <1>1, ListIs
<1>3. P \subseteq 1 .. n
  BY <1>1, <1>2 DEF At, Tree
<1>4. IsFiniteSet(P)
  <2>1. 1 \in Int /\ n \in Int
    BY <1>2
  <2>2. IsFiniteSet(1 .. n)
    BY ONLY <2>1, FS_Interval
  <2> QED
    BY <1>3, <2>2, FS_Subset
<1>5. \A x \in S : \E i \in P : nodes[i] = x
  BY <1>1 DEF At, TreeOf, Tree
<1>6. S = {f[i] : i \in P}
  <2>1. \A i \in P : f[i] = nodes[i] /\ nodes[i] \in S
    BY <1>1 DEF At
  <2> QED
    BY <1>5, <2>1
<1>7. \A i, k \in P : f[i] = f[k] => i = k
  BY <1>1, <1>2, <1>3 DEF UniqueIds
<1>8. IsFiniteSet(S) /\ Cardinality(S) = Cardinality(P)
  BY ONLY <1>4, <1>6, <1>7, ImageIs
<1> QED
  BY <1>1, <1>5, <1>8

LEMMA IdsApart ==
  ASSUME NEW c, NEW x, NEW y
  PROVE  /\ GroupId(c, x) = GroupId(c, y) => x = y
         /\ DocId(c, x) = DocId(c, y) => x = y
  BY DEF GroupId, DocId

\* The nodes of the groups are as many as the groups.
LEMMA GroupNodesAre ==
  ASSUME NEW j, NEW c, IsFiniteSet(GroupsFor(c, j)), Keyed(GroupsFor(c, j))
  PROVE  IsFiniteSet(GroupNodes(j, c)) /\ Cardinality(GroupNodes(j, c)) = Groups(j, c)
<1>1. PICK G, f : G = GroupsFor(c, j) /\ f = [g \in G |-> GroupNode(c, j.tenant, g)]
  OBVIOUS
<1>2. GroupNodes(j, c) = {f[g] : g \in G}
  BY <1>1 DEF GroupNodes
<1>3. ASSUME NEW g \in G, NEW h \in G, f[g] = f[h] PROVE g = h
  <2>1. PICK n : n = GroupNode(c, j.tenant, g) /\ n = GroupNode(c, j.tenant, h)
    BY <1>1, <1>3
  <2>2. n._id = GroupId(c, g.key) /\ n._id = GroupId(c, h.key)
    <3>1. GroupNode(c, j.tenant, g)._id = GroupId(c, g.key)
      BY GroupNodeIs
    <3>2. GroupNode(c, j.tenant, h)._id = GroupId(c, h.key)
      BY GroupNodeIs
    <3> QED
      BY <2>1, <3>1, <3>2
  <2> QED
    BY <1>1, <2>2, IdsApart DEF Keyed
<1>4. IsFiniteSet(G)
  BY <1>1
<1>5. PICK T : T = GroupNodes(j, c)
  OBVIOUS
<1>6. T = {f[g] : g \in G}
  BY <1>2, <1>5
<1>7. IsFiniteSet(T) /\ Cardinality(T) = Cardinality(G)
  BY ONLY <1>3, <1>4, <1>6, ImageIs
<1> QED
  BY <1>1, <1>5, <1>7 DEF Groups

\* The nodes of the documents are as many as the documents.
LEMMA DocNodesAre ==
  ASSUME Documents, NEW c \in DOMAIN Source, NEW j, \A d \in ToSet(source[c]) : d.tenant = j.tenant
  PROVE  IsFiniteSet(DocNodes(j, c)) /\ Cardinality(DocNodes(j, c)) = Len(source[c])
<1>1. PICK s : s = source[c]
  OBVIOUS
<1>2. Listing(s) /\ IsList(s)
  BY <1>1 DEF Documents, Listing
<1>3. IsFiniteSet(ToSet(s)) /\ Cardinality(ToSet(s)) = Len(s)
  <2>1. Distinct(s)
    BY <1>2 DEF Listing, Distinct
  <2> QED
    BY <1>2, <2>1, DistinctCount
<1>4. ToSet(Slice(c, j.tenant, 0)) = ToSet(s)
  BY <1>1, SliceIs
<1>5. PICK D, f, T : D = ToSet(s) /\ f = [d \in D |-> CustomerNode(c, j.tenant, d)] /\ T = DocNodes(j, c)
  OBVIOUS
<1>6. T = {f[d] : d \in D}
  BY <1>4, <1>5 DEF DocNodes
<1>7. ASSUME NEW d \in D, NEW e \in D, f[d] = f[e] PROVE d = e
  <2>1. PICK n : n = CustomerNode(c, j.tenant, d) /\ n = CustomerNode(c, j.tenant, e)
    BY <1>5, <1>7
  <2>2. n._id = DocId(c, d._id) /\ n._id = DocId(c, e._id)
    <3>1. CustomerNode(c, j.tenant, d)._id = DocId(c, d._id)
      BY CustomerNodeIs
    <3>2. CustomerNode(c, j.tenant, e)._id = DocId(c, e._id)
      BY CustomerNodeIs
    <3> QED
      BY <2>1, <3>1, <3>2
  <2>3. d._id = e._id
    BY <2>2, IdsApart
  <2> QED
    BY <1>2, <1>5, <2>3 DEF Listing, ToSet
<1>8. IsFiniteSet(D)
  BY <1>3, <1>5
<1>9. IsFiniteSet(T) /\ Cardinality(T) = Cardinality(D)
  BY ONLY <1>6, <1>7, <1>8, ImageIs
<1> QED
  BY <1>1, <1>3, <1>5, <1>9

\* The nodes of a whole tree, and where they are.
LEMMA WholeIs ==
  ASSUME NEW j \in Job, j.kind = "build", NEW n \in Whole(j)
  PROVE  n = Root(j) \/ \E c \in ToSet(j.collections) : n \in Branch(j, c)
<1>1. PICK m \in Nat : m = Len(j.collections) /\ DOMAIN j.collections = 1 .. m
  BY JobAssumption, ListIs
<1>2. CASE n \in Branches(j, m)
  <2>1. PICK k \in 1 .. m : n \in Branch(j, j.collections[k])
    BY <1>2, BranchesAre
  <2> QED
    BY <1>1, <2>1 DEF ToSet
<1> QED
  BY <1>1, <1>2 DEF Whole

LEMMA BranchesInWhole ==
  ASSUME NEW j \in Job, j.kind = "build", NEW c \in ToSet(j.collections)
  PROVE  Branch(j, c) \subseteq Whole(j)
<1>1. PICK m \in Nat : m = Len(j.collections) /\ DOMAIN j.collections = 1 .. m
  BY JobAssumption, ListIs
<1>2. PICK k \in 1 .. m : j.collections[k] = c
  BY <1>1 DEF ToSet
<1>3. Branch(j, c) \subseteq Branches(j, m)
  BY <1>2 DEF Branches
<1> QED
  BY <1>1, <1>3 DEF Whole

\* The children of a collection in a branch: groups, and documents.
LEMMA ChildrenAre ==
  ASSUME NEW j, NEW c
  PROVE  /\ \A n \in GroupNodes(j, c) : n \in Branch(j, c) /\ n.type = "group" /\ n.parent = ColId(c)
         /\ \A n \in DocNodes(j, c) : n.type = "document" /\ n.parent = ColId(c)
         /\ Enumerated(c) => DocNodes(j, c) \subseteq Branch(j, c)
         /\ \A n \in Branch(j, c) :
              /\ n.type = "group" => n \in GroupNodes(j, c)
              /\ n.type = "document" => Enumerated(c) /\ n \in DocNodes(j, c)
              /\ n.type = "collection" =>
                   n = ColumnNode(j, c, IF Enumerated(c) THEN Groups(j, c) + Len(source[c]) ELSE Groups(j, c))
<1>1. \A n \in GroupNodes(j, c) : n.type = "group" /\ n.parent = ColId(c)
  BY GroupNodeIs DEF GroupNodes
<1>2. \A n \in DocNodes(j, c) : n.type = "document" /\ n.parent = ColId(c)
  BY CustomerNodeIs DEF DocNodes
<1>3. \A m : ColumnNode(j, c, m).type = "collection"
  BY ColumnNodeIs
<1>4. CASE Enumerated(c)
  <2>1. Branch(j, c) = Full(j, c)
    BY <1>4 DEF Branch
  <2> QED
    BY <1>1, <1>2, <1>3, <1>4, <2>1 DEF Full
<1>5. CASE ~ Enumerated(c)
  <2>1. Branch(j, c) = Raw(j, c)
    BY <1>5 DEF Branch
  <2> QED
    BY <1>1, <1>2, <1>3, <1>5, <2>1 DEF Raw
<1> QED
  BY <1>4, <1>5

LEMMA ColumnInBranch ==
  ASSUME NEW j, NEW c
  PROVE  \E n \in Branch(j, c) : n._id = ColId(c)
<1>1. PICK own, more : own = ColumnNode(j, c, Groups(j, c)) /\ more = ColumnNode(j, c, Groups(j, c) + Len(source[c]))
  OBVIOUS
<1>2. own._id = ColId(c) /\ more._id = ColId(c)
  BY <1>1, ColumnNodeIs
<1>3. own \in Raw(j, c) /\ more \in Full(j, c)
  BY <1>1 DEF Raw, Full
<1> QED
  BY <1>2, <1>3 DEF Branch

\* The groups of a collection in a whole tree: what they select and count.
LEMMA WholeGroups ==
  ASSUME IsList(nodes), UniqueIds(nodes), Documents, NEW j \in Job, j.kind = "build", TreeOf(j, nodes) = Whole(j),
         NEW c \in ToSet(j.collections), NEW groups, groups = Under(j.tenant, ColId(c), "group")
  PROVE  /\ groups = At(GroupNodes(j, c), j.tenant)
         /\ \A d \in Grouped(j, c) : Cardinality({i \in groups : Selects(i, d)}) = 1
         /\ \A i \in groups : nodes[i].count = Cardinality({d \in ToSet(Slice(c, j.tenant, j.below)) : Selects(i, d)})
<1>1. PICK G, docs : G = GroupsFor(c, j) /\ docs = Slice(c, j.tenant, j.below)
  OBVIOUS
<1>2. /\ \A g \in G : g.document_count = Cardinality({d \in ToSet(docs) : OnDocument(g.filter, j.tenant, d)})
      /\ \A d \in Grouped(j, c) : \E g \in G : {h \in G : OnDocument(h.filter, j.tenant, d)} = {g}
  BY <1>1, GroupsForWell DEF Well
<1>3. Branch(j, c) \subseteq TreeOf(j, nodes)
  BY BranchesInWhole
<1>4. GroupNodes(j, c) \subseteq TreeOf(j, nodes)
  BY <1>3, ChildrenAre
<1>5. groups = At(GroupNodes(j, c), j.tenant)
  <2>1. ASSUME NEW i \in groups PROVE i \in At(GroupNodes(j, c), j.tenant)
    <3>1. i \in Tree(j.tenant) /\ nodes[i].parent = ColId(c) /\ nodes[i].type = "group"
      BY <2>1 DEF Under
    <3>2. PICK x : x = nodes[i]
      OBVIOUS
    <3>3. x \in Whole(j)
      BY <3>1, <3>2 DEF TreeOf, Tree
    <3>4. x # Root(j)
      BY <3>1, <3>2, RootIs
    <3>5. PICK e \in ToSet(j.collections) : x \in Branch(j, e)
      BY <3>3, <3>4, WholeIs
    <3>6. x \in GroupNodes(j, e)
      BY <3>1, <3>2, <3>5, ChildrenAre
    <3>7. ColId(e) = ColId(c)
      BY <3>1, <3>2, <3>6, ChildrenAre
    <3> QED
      BY <3>1, <3>2, <3>6, <3>7, IdsDiffer DEF At
  <2>2. ASSUME NEW i \in At(GroupNodes(j, c), j.tenant) PROVE i \in groups
    <3>1. i \in Tree(j.tenant) /\ nodes[i] \in GroupNodes(j, c)
      BY <2>2 DEF At
    <3>2. nodes[i].type = "group" /\ nodes[i].parent = ColId(c)
      BY <3>1, ChildrenAre
    <3> QED
      BY <3>1, <3>2 DEF Under
  <2> QED
    BY <2>1, <2>2
<1>6. ASSUME NEW i \in groups
      PROVE  /\ i \in DOMAIN nodes
             /\ \E g \in G : /\ nodes[i] = GroupNode(c, j.tenant, g)
                             /\ nodes[i].count = g.document_count
                             /\ \A d : Selects(i, d) <=> OnDocument(g.filter, j.tenant, d)
  <2>1. i \in DOMAIN nodes /\ nodes[i] \in GroupNodes(j, c)
    BY <1>5, <1>6 DEF At, Tree
  <2>2. PICK g \in G : nodes[i] = GroupNode(c, j.tenant, g)
    BY <1>1, <2>1 DEF GroupNodes
  <2>3. nodes[i].filter = g.filter /\ nodes[i].tenant = j.tenant /\ nodes[i].count = g.document_count
    BY <2>2, GroupNodeIs
  <2>4. \A d : Selects(i, d) <=> OnDocument(g.filter, j.tenant, d)
    BY <2>3 DEF Selects
  <2> QED
    BY <2>1, <2>2, <2>3, <2>4
<1>7. ASSUME NEW i \in groups
      PROVE  nodes[i].count = Cardinality({d \in ToSet(docs) : Selects(i, d)})
  <2>1. PICK g \in G : /\ nodes[i].count = g.document_count
                       /\ \A d : Selects(i, d) <=> OnDocument(g.filter, j.tenant, d)
    BY <1>6, <1>7
  <2>2. {d \in ToSet(docs) : Selects(i, d)} = {d \in ToSet(docs) : OnDocument(g.filter, j.tenant, d)}
    BY <2>1
  <2> QED
    BY <1>2, <2>1, <2>2
<1>8. ASSUME NEW d \in Grouped(j, c) PROVE Cardinality({i \in groups : Selects(i, d)}) = 1
  <2>1. PICK g \in G : {h \in G : OnDocument(h.filter, j.tenant, d)} = {g}
    BY <1>2
  <2>2. PICK x : x = GroupNode(c, j.tenant, g)
    OBVIOUS
  <2>3. x \in GroupNodes(j, c)
    BY <1>1, <2>2 DEF GroupNodes
  <2>4. PICK i \in groups : nodes[i] = x
    <3>1. PICK S : S = GroupNodes(j, c)
      OBVIOUS
    <3>2. S \in SUBSET TreeOf(j, nodes)
      BY <1>4, <3>1
    <3>3. \A y \in S : \E i \in At(S, j.tenant) : nodes[i] = y
      BY <3>2, AtIs
    <3> QED
      BY <1>5, <2>3, <3>1, <3>3
  <2>5. Selects(i, d)
    <3>1. x.filter = g.filter /\ x.tenant = j.tenant
      BY <2>2, GroupNodeIs
    <3>2. OnDocument(g.filter, j.tenant, d)
      BY <2>1
    <3> QED
      BY <2>4, <3>1, <3>2 DEF Selects
  <2>6. ASSUME NEW k \in groups, Selects(k, d) PROVE k = i
    <3>1. PICK h \in G : nodes[k] = GroupNode(c, j.tenant, h) /\ OnDocument(h.filter, j.tenant, d)
      BY <1>6, <2>6
    <3>2. h = g
      BY <2>1, <3>1
    <3>3. nodes[k] = nodes[i]
      BY <2>2, <2>4, <3>1, <3>2
    <3>4. i \in DOMAIN nodes /\ k \in DOMAIN nodes
      BY <1>6
    <3> QED
      BY <3>3, <3>4 DEF UniqueIds
  <2>7. {k \in groups : Selects(k, d)} = {i}
    BY <2>5, <2>6
  <2> QED
    BY <2>7, FS_Singleton
<1> QED
  BY <1>1, <1>5, <1>7, <1>8

\* A collection of a whole tree counts its children, where all documents are the tenant's.
LEMMA WholeChildren ==
  ASSUME IsList(nodes), UniqueIds(nodes), Documents, NEW j \in Job, j.kind = "build", TreeOf(j, nodes) = Whole(j),
         NEW c \in ToSet(j.collections), \A d \in ToSet(source[c]) : d.tenant = j.tenant,
         NEW i \in Under(j.tenant, DbId, "collection"), nodes[i].coll = c
  PROVE  nodes[i].children = Cardinality({k \in Tree(j.tenant) : nodes[k].parent = ColId(c)})
<1>1. PICK kids : kids = {x \in Whole(j) : x.parent = ColId(c)}
  OBVIOUS
<1>2. {k \in Tree(j.tenant) : nodes[k].parent = ColId(c)} = At(kids, j.tenant)
  <2>1. \A k \in Tree(j.tenant) : nodes[k] \in Whole(j)
    BY DEF TreeOf, Tree
  <2> QED
    BY <1>1, <2>1 DEF At
<1>3. kids \in SUBSET TreeOf(j, nodes)
  BY <1>1
<1>4. IsFiniteSet(kids) /\ Cardinality(At(kids, j.tenant)) = Cardinality(kids)
  BY <1>3, AtIs
<1>5. ASSUME NEW x \in kids PROVE x \in Branch(j, c) /\ x.type \in {"group", "document"}
  <2>1. x \in Whole(j) /\ x.parent = ColId(c)
    BY <1>1
  <2>2. x # Root(j)
    BY <2>1, RootIs, IdsDiffer
  <2>3. PICK e \in ToSet(j.collections) : x \in Branch(j, e)
    BY <2>1, <2>2, WholeIs
  <2>4. OfBranch(j, e, x)
    BY <2>3, BranchIs
  <2>5. ColId(c) # DbId
    BY IdsDiffer
  <2>6. x.type \in {"group", "document"} /\ ColId(e) = ColId(c)
    BY <2>1, <2>4, <2>5 DEF OfBranch
  <2> QED
    BY <2>3, <2>6, IdsDiffer
<1>6. PICK x : x = nodes[i]
  OBVIOUS
<1>7. x \in Branch(j, c) /\ x.type = "collection"
  <2>1. x \in Whole(j) /\ x.type = "collection" /\ x.coll = c
    BY <1>6 DEF Under, TreeOf, Tree
  <2>2. x # Root(j)
    BY <2>1, RootIs
  <2>3. PICK e \in ToSet(j.collections) : x \in Branch(j, e)
    BY <2>1, <2>2, WholeIs
  <2>4. e = c
    BY <2>1, <2>3, BranchIs DEF OfBranch
  <2> QED
    BY <2>1, <2>3, <2>4
<1>8. Branch(j, c) \subseteq Whole(j)
  BY BranchesInWhole
<1>9. IsFiniteSet(GroupNodes(j, c)) /\ Cardinality(GroupNodes(j, c)) = Groups(j, c)
  <2>1. IsFiniteSet(GroupsFor(c, j)) /\ Keyed(GroupsFor(c, j))
    BY GroupsForWell DEF Well
  <2> QED
    BY <2>1, GroupNodesAre
<1>10. CASE ~ Enumerated(c)
  <2>1. kids = GroupNodes(j, c)
    <3>1. \A y \in kids : y \in GroupNodes(j, c)
      BY <1>5, <1>10, ChildrenAre
    <3>2. \A y \in GroupNodes(j, c) : y \in kids
      BY <1>1, <1>8, ChildrenAre
    <3> QED
      BY <3>1, <3>2
  <2>2. x.children = Groups(j, c)
    <3>1. x = ColumnNode(j, c, Groups(j, c))
      BY <1>7, <1>10, ChildrenAre
    <3> QED
      BY <3>1, ColumnNodeIs
  <2> QED
    BY <1>2, <1>4, <1>6, <1>9, <2>1, <2>2
<1>11. CASE Enumerated(c)
  <2>1. kids = GroupNodes(j, c) \cup DocNodes(j, c)
    <3>1. \A y \in kids : y \in GroupNodes(j, c) \cup DocNodes(j, c)
      BY <1>5, ChildrenAre
    <3>2. \A y \in GroupNodes(j, c) : y \in kids
      BY <1>1, <1>8, ChildrenAre
    <3>3. \A y \in DocNodes(j, c) : y \in kids
      BY <1>1, <1>8, <1>11, ChildrenAre
    <3> QED
      BY <3>1, <3>2, <3>3
  <2>2. x.children = Groups(j, c) + Len(source[c])
    <3>1. x = ColumnNode(j, c, Groups(j, c) + Len(source[c]))
      BY <1>7, <1>11, ChildrenAre
    <3> QED
      BY <3>1, ColumnNodeIs
  <2>3. c \in DOMAIN Source
    BY JobAssumption
  <2>4. IsFiniteSet(DocNodes(j, c)) /\ Cardinality(DocNodes(j, c)) = Len(source[c])
    BY <2>3, DocNodesAre
  <2>5. PICK S, T : S = GroupNodes(j, c) /\ T = DocNodes(j, c)
    OBVIOUS
  <2>6. S \cap T = {}
    <3>1. (\A y \in S : y.type = "group") /\ (\A y \in T : y.type = "document")
      BY <2>5, ChildrenAre
    <3> QED
      BY <3>1
  <2>7. Cardinality(S \cup T) = Cardinality(S) + Cardinality(T) - Cardinality(S \cap T)
    BY <1>9, <2>4, <2>5, FS_Union
  <2>8. Cardinality(S \cap T) = 0
    BY <2>6, FS_EmptySet
  <2>9. Cardinality(S) \in Nat /\ Cardinality(T) \in Nat
    BY <1>9, <2>4, <2>5, FS_CardinalityType
  <2>10. Cardinality(S \cup T) = Cardinality(S) + Cardinality(T)
    BY <2>7, <2>8, <2>9
  <2> QED
    BY <1>2, <1>4, <1>6, <1>9, <2>1, <2>2, <2>4, <2>5, <2>10
<1> QED
  BY <1>10, <1>11

\* Whatever the strategies, the documents, the workers and the edits: a build that had the
\* database to itself leaves a whole tree, whatever crashed builds had left.
THEOREM BuildsAreRight == Spec => []BuildsRight
<1>1. Init => Control /\ Documents /\ BuildInv
  BY ControlInit, DocumentsInit, BuildInvInit
<1>2. Control /\ Documents /\ BuildInv /\ [Next]_vars => (Control /\ Documents /\ BuildInv)'
  BY ControlNext, DocumentsNext, BuildInvNext
<1>3. ASSUME BuildInv, Documents PROVE BuildsRight
  <2> SUFFICES ASSUME ended.job.kind = "build" PROVE BuildsRight
    BY DEF BuildsRight
  <2>1. PICK j : j = ended.job
    OBVIOUS
  <2>2. j \in Job /\ j.kind = "build" /\ IsList(nodes) /\ UniqueIds(nodes) /\ TreeOf(j, nodes) = Whole(j)
    BY <1>3, <2>1 DEF BuildInv
  <2>3. PICK tree : tree = Tree(j.tenant)
    OBVIOUS
  <2>4. \A i \in tree : i \in DOMAIN nodes /\ nodes[i] \in Whole(j)
    BY <2>2, <2>3 DEF Tree, TreeOf
  <2>5. ASSUME NEW x \in Whole(j) PROVE \E i \in tree : nodes[i] = x
    BY <2>2, <2>3, <2>5 DEF Tree, TreeOf
  <2>6. \A i \in tree : nodes[i].type = "database" => nodes[i] = Root(j)
    BY <2>2, <2>4, WholeIs, BranchIs DEF OfBranch
  <2>7. \E i \in tree : nodes[i].type = "database" /\ nodes[i].children = Len(j.collections)
    <3>1. Root(j) \in Whole(j)
      BY DEF Whole
    <3>2. PICK i \in tree : nodes[i] = Root(j)
      BY <2>5, <3>1
    <3> QED
      BY <3>2, RootIs
  <2>8. \A i, k \in tree : nodes[i].type = nodes[k].type /\ nodes[i].type = "database" => i = k
    BY <2>2, <2>4, <2>6 DEF UniqueIds
  <2>9. ASSUME NEW i \in tree PROVE nodes[i].type = "database" \/ \E k \in tree : nodes[k]._id = nodes[i].parent
    <3>1. PICK x : x = nodes[i] /\ x \in Whole(j)
      BY <2>4
    <3>2. CASE x = Root(j)
      <4>1. x.type = "database"
        BY <3>2, RootIs
      <4> QED
        BY <3>1, <4>1
    <3>3. ASSUME NEW c \in ToSet(j.collections), x \in Branch(j, c) PROVE \E k \in tree : nodes[k]._id = x.parent
      <4>1. OfBranch(j, c, x)
        BY <3>3, BranchIs
      <4>2. CASE x.parent = DbId
        <5>1. Root(j) \in Whole(j) /\ Root(j)._id = DbId
          BY RootIs DEF Whole
        <5> QED
          BY <2>5, <4>2, <5>1
      <4>3. CASE x.parent = ColId(c)
        <5>1. PICK y \in Branch(j, c) : y._id = ColId(c)
          BY ColumnInBranch
        <5>2. y \in Whole(j)
          BY <2>2, <5>1, BranchesInWhole
        <5> QED
          BY <2>5, <4>3, <5>1, <5>2
      <4> QED
        BY <4>1, <4>2, <4>3 DEF OfBranch
    <3> QED
      BY <2>2, <3>1, <3>2, <3>3, WholeIs
  <2>10. ASSUME NEW c \in ToSet(j.collections)
         PROVE  LET groups == Under(j.tenant, ColId(c), "group")
                    all    == ToSet(source[c])
                IN  /\ \A d \in Grouped(j, c) : Cardinality({i \in groups : Selects(i, d)}) = 1
                    /\ \A i \in groups : nodes[i].count = Cardinality({d \in ToSet(Slice(c, j.tenant, j.below)) : Selects(i, d)})
                    /\ (\A d \in all : d.tenant = j.tenant) =>
                         \A i \in Under(j.tenant, DbId, "collection") : nodes[i].coll = c =>
                           nodes[i].children = Cardinality({k \in tree : nodes[k].parent = ColId(c)})
    <3>1. PICK groups : groups = Under(j.tenant, ColId(c), "group")
      OBVIOUS
    <3>2. /\ \A d \in Grouped(j, c) : Cardinality({i \in groups : Selects(i, d)}) = 1
          /\ \A i \in groups : nodes[i].count = Cardinality({d \in ToSet(Slice(c, j.tenant, j.below)) : Selects(i, d)})
      BY <1>3, <2>2, <3>1, WholeGroups
    <3>3. ASSUME \A d \in ToSet(source[c]) : d.tenant = j.tenant, NEW i \in Under(j.tenant, DbId, "collection"),
                 nodes[i].coll = c
          PROVE  nodes[i].children = Cardinality({k \in tree : nodes[k].parent = ColId(c)})
      BY <1>3, <2>2, <2>3, <3>3, WholeChildren
    <3> QED
      BY <3>1, <3>2, <3>3
  <2> QED
    BY <2>1, <2>3, <2>7, <2>8, <2>9, <2>10 DEF BuildsRight
<1> QED
  BY <1>1, <1>2, <1>3, PTL DEF Spec

-----------------------------------------------------------------------------
(* What the searches return: part of what they were given.                 *)

LEMMA HitsIs ==
  ASSUME NEW words, IsFiniteSet(words), NEW text
  PROVE  Hits(words, text) \in Nat
<1>1. IsFiniteSet(words \cap text)
  BY FS_Intersection
<1> QED
  BY <1>1, FS_CardinalityType DEF Hits

\* t has the elements of s, in another order.
Reordered(t, s) ==
  IsList(t) /\ Len(t) = Len(s) /\ ToSet(t) = ToSet(s) /\ (Distinct(s) => Distinct(t))

LEMMA RelevantNodes ==
  ASSUME NEW s, IsList(s), NEW words, IsFiniteSet(words)
  PROVE  Reordered(Relevance(s, words, NodeText), s)
<1>1. PICK sc : sc = [i \in DOMAIN s |-> Hits(words, NodeText(s[i]))]
  OBVIOUS
<1>2. sc \in [DOMAIN s -> Int]
  BY <1>1, HitsIs
<1>3. Relevance(s, words, NodeText) = Arranged(s, sc)
  BY <1>1 DEF Relevance, SortedBy
<1> QED
  BY <1>2, <1>3, ArrangedSame DEF Reordered

LEMMA RelevantDocuments ==
  ASSUME NEW s, IsList(s), NEW words, IsFiniteSet(words)
  PROVE  Reordered(Relevance(s, words, WordsOf), s)
<1>1. PICK sc : sc = [i \in DOMAIN s |-> Hits(words, WordsOf(s[i]))]
  OBVIOUS
<1>2. sc \in [DOMAIN s -> Int]
  BY <1>1, HitsIs
<1>3. Relevance(s, words, WordsOf) = Arranged(s, sc)
  BY <1>1 DEF Relevance, SortedBy
<1> QED
  BY <1>2, <1>3, ArrangedSame DEF Reordered

LEMMA RelevantHits ==
  ASSUME NEW s, IsList(s), NEW words, IsFiniteSet(words)
  PROVE  Reordered(Relevance(s, words, HitText), s)
<1>1. PICK sc : sc = [i \in DOMAIN s |-> Hits(words, HitText(s[i]))]
  OBVIOUS
<1>2. sc \in [DOMAIN s -> Int]
  BY <1>1, HitsIs
<1>3. Relevance(s, words, HitText) = Arranged(s, sc)
  BY <1>1 DEF Relevance, SortedBy
<1> QED
  BY <1>2, <1>3, ArrangedSame DEF Reordered

LEMMA RelevantChunks ==
  ASSUME NEW s, IsList(s), NEW words, IsFiniteSet(words)
  PROVE  Reordered(Relevance(s, words, ChunkText), s)
<1>1. PICK sc : sc = [i \in DOMAIN s |-> Hits(words, ChunkText(s[i]))]
  OBVIOUS
<1>2. sc \in [DOMAIN s -> Int]
  BY <1>1, HitsIs
<1>3. Relevance(s, words, ChunkText) = Arranged(s, sc)
  BY <1>1 DEF Relevance, SortedBy
<1> QED
  BY <1>2, <1>3, ArrangedSame DEF Reordered

\* What the lexical search lists: nodes of the tenant in the scope.
LEMMA LexicalNodesAre ==
  ASSUME NEW ns, IsList(ns), NEW words, IsFiniteSet(words), NEW tenant, NEW scope, NEW limit \in Nat
  PROVE  LET t == LexicalNodes(ns, words, tenant, scope, limit)
         IN  IsList(t) /\ \A n \in ToSet(t) : n \in ToSet(ns) /\ OnNode(scope, tenant, n)
<1>1. PICK I : I = {i \in DOMAIN ns : OnNode(scope, tenant, ns[i]) /\ Hits(words, NodeText(ns[i])) > 0}
  OBVIOUS
<1>2. PICK f : f = Picked(ns, I)
  OBVIOUS
<1>3. IsList(f) /\ ToSet(f) = {ns[i] : i \in I}
  BY <1>1, <1>2, Kept
<1>4. PICK r : r = Relevance(f, words, NodeText)
  OBVIOUS
<1>5. IsList(r) /\ ToSet(r) = ToSet(f)
  BY <1>3, <1>4, RelevantNodes DEF Reordered
<1>6. LexicalNodes(ns, words, tenant, scope, limit) = Upto(r, limit)
  BY <1>1, <1>2, <1>4 DEF LexicalNodes, LexicalSearch, Filter
<1>7. IsList(Upto(r, limit)) /\ ToSet(Upto(r, limit)) \subseteq ToSet(f)
  BY <1>5, UptoPart
<1>8. \A n \in ToSet(f) : n \in ToSet(ns) /\ OnNode(scope, tenant, n)
  BY <1>1, <1>3 DEF ToSet
<1> QED
  BY <1>6, <1>7, <1>8

LEMMA StructuredIs ==
  ASSUME NEW ns, IsList(ns), NEW tenant, NEW scope, NEW limit \in Nat
  PROVE  LET t == Structured(ns, tenant, scope, limit)
         IN  IsList(t) /\ \A n \in ToSet(t) : n \in ToSet(ns) /\ OnNode(scope, tenant, n)
<1>1. PICK I, f : I = {i \in DOMAIN ns : OnNode(scope, tenant, ns[i])} /\ f = Picked(ns, I)
  OBVIOUS
<1>2. IsList(f) /\ ToSet(f) = {ns[i] : i \in I}
  BY <1>1, Kept
<1>3. Structured(ns, tenant, scope, limit) = Upto(f, limit)
  BY <1>1 DEF Structured, Filter
<1>4. IsList(Upto(f, limit)) /\ ToSet(Upto(f, limit)) \subseteq ToSet(f)
  BY <1>2, UptoPart
<1>5. \A n \in ToSet(f) : n \in ToSet(ns) /\ OnNode(scope, tenant, n)
  BY <1>1, <1>2 DEF ToSet
<1> QED
  BY <1>3, <1>4, <1>5

\* Two lists fused: elements of either, each once.
LEMMA FusedIs ==
  ASSUME NEW a, IsList(a), NEW b, IsList(b), NEW limit \in Nat
  PROVE  LET t == Fused(<<a, b>>, limit)
         IN  IsList(t) /\ ToSet(t) \subseteq ToSet(a) \cup ToSet(b) /\ Distinct(t) /\ Len(t) <= limit
<1>1. PICK lists : lists = <<a, b>>
  OBVIOUS
<1>2. IsList(lists) /\ DOMAIN lists = 1 .. 2 /\ lists[1] = a /\ lists[2] = b /\ lists # <<>>
  <2>1. lists = [i \in 1 .. 2 |-> lists[i]]
    BY <1>1
  <2> QED
    BY <1>1, <2>1, ListOf
<1>3. \A i \in DOMAIN lists : IsList(lists[i])
  BY <1>2
<1>4. Rankings(lists)
  BY <1>2, <1>3 DEF Rankings
<1>5. PICK flat : flat = FlattenSeq(lists)
  OBVIOUS
<1>6. IsList(flat) /\ ToSet(flat) = Elements(lists, DOMAIN lists)
  BY <1>2, <1>3, <1>5, FlattenedIs
<1>7. ToSet(flat) \subseteq ToSet(a) \cup ToSet(b)
  <2>1. ASSUME NEW x \in ToSet(flat) PROVE x \in ToSet(a) \cup ToSet(b)
    <3>1. PICK i \in DOMAIN lists : x \in ToSet(lists[i])
      BY <1>6 DEF Elements
    <3> QED
      BY <1>2, <3>1
  <2> QED
    BY <2>1
<1>8. PICK u : u = Unique(flat)
  OBVIOUS
<1>9. IsList(u) /\ ToSet(u) = ToSet(flat) /\ Distinct(u)
  BY <1>6, <1>8, UniqueIs DEF Distinct
<1>10. PICK sc : sc = [i \in DOMAIN u |-> FusedScore(lists, RrfK, u[i])]
  OBVIOUS
<1>11. sc \in [DOMAIN u -> Int]
  BY <1>4, <1>10, FusedNat, SearchAssumption
<1>12. PICK s : s = Arranged(u, sc)
  OBVIOUS
<1>13. IsList(s) /\ ToSet(s) = ToSet(u) /\ Distinct(s)
  BY <1>9, <1>11, <1>12, ArrangedSame
<1>14. Fused(lists, limit) = Upto(s, limit)
  BY <1>5, <1>8, <1>10, <1>12 DEF Fused, SortedBy
<1>15. /\ IsList(Upto(s, limit)) /\ ToSet(Upto(s, limit)) \subseteq ToSet(s) /\ Distinct(Upto(s, limit))
       /\ Len(Upto(s, limit)) <= limit
  BY <1>13, UptoPart
<1> QED
  BY <1>1, <1>7, <1>9, <1>13, <1>14, <1>15

LEMMA ScopedRaises ==
  ASSUME NEW ns, NEW words, NEW tenant, NEW scope, scope.parent # NoNode, NEW limit
  PROVE  SemanticNodes(ns, words, tenant, scope, limit) = Raised
<1>1. "parent_id" \in FilterFields(scope)
  BY DEF FilterFields
<1>2. "parent_id" \notin VectorFilters
  BY DEF VectorFilters
<1>3. ~ CanFilter(scope)
  BY <1>1, <1>2 DEF CanFilter
<1> QED
  BY <1>3 DEF SemanticNodes

\* Below a node, the hybrid search is the lexical one, fused with nothing.
LEMMA ScopedHybrid ==
  ASSUME NEW ns, IsList(ns), NEW words, IsFiniteSet(words), NEW tenant, NEW scope, scope.parent # NoNode,
         NEW limit \in Nat, NEW strategy
  PROVE  LET t == HybridSearch(ns, words, tenant, scope, limit, strategy)
         IN  \A n \in ToSet(t) : n \in ToSet(ns) /\ OnNode(scope, tenant, n)
<1>1. PICK lex : lex = LexicalNodes(ns, words, tenant, scope, 2 * limit)
  OBVIOUS
<1>2. IsList(lex) /\ \A n \in ToSet(lex) : n \in ToSet(ns) /\ OnNode(scope, tenant, n)
  <2>1. 2 * limit \in Nat
    OBVIOUS
  <2> QED
    BY <1>1, <2>1, LexicalNodesAre
<1>3. RankFusion(ns, words, tenant, scope, limit) = Raised
  BY ScopedRaises DEF RankFusion
<1>4. ReciprocalRankFusion(ns, words, tenant, scope, limit) = Fused(<<lex, <<>>>>, limit)
  BY <1>1, ScopedRaises DEF ReciprocalRankFusion
<1>5. HybridSearch(ns, words, tenant, scope, limit, strategy) = Fused(<<lex, <<>>>>, limit)
  BY <1>3, <1>4 DEF HybridSearch
<1>6. PICK none : none = <<>>
  OBVIOUS
<1>7. IsList(none) /\ ToSet(none) = {}
  BY <1>6, EmptyIsList DEF ToSet
<1>8. ToSet(Fused(<<lex, none>>, limit)) \subseteq ToSet(lex) \cup ToSet(none)
  BY <1>2, <1>7, FusedIs
<1> QED
  BY <1>2, <1>5, <1>6, <1>7, <1>8

LEMMA SearchInside ==
  ASSUME NEW ns, IsList(ns), NEW ask, IsFiniteSet(ask.words), NEW mode, NEW tenant, NEW s, s # NoNode,
         NEW limit \in Nat, NEW strategy
  PROVE  \A n \in ToSet(SearchInformation(ns, ask, mode, tenant, s, limit, strategy).results) :
            n \in ToSet(ns) /\ n.tenant = tenant /\ n.parent = s
<1>1. PICK scope, hits : /\ scope = [AnyScope EXCEPT !.parent = s]
                         /\ hits = NavigationSearch(ns, ask, mode, tenant, scope, limit, strategy)
  OBVIOUS
<1>2. scope.parent = s /\ scope.parent # NoNode
  BY <1>1 DEF AnyScope
<1>3. ASSUME NEW n, OnNode(scope, tenant, n) PROVE n.tenant = tenant /\ n.parent = s
  BY <1>2, <1>3 DEF OnNode
<1>4. hits = Raised \/ \A n \in ToSet(hits) : n \in ToSet(ns) /\ OnNode(scope, tenant, n)
  <2>1. PICK m : m = IF mode = "auto" THEN RecommendMethod(ask) ELSE mode
    OBVIOUS
  <2>2. PICK w : w = ask.words
    OBVIOUS
  <2>3. hits = CASE m = "lexical"     -> LexicalNodes(ns, w, tenant, scope, limit)
                 [] m = "semantic"    -> SemanticNodes(ns, w, tenant, scope, limit)
                 [] m = "mongo_query" -> Structured(ns, tenant, scope, limit)
                 [] OTHER -> HybridSearch(ns, w, tenant, scope, limit, strategy)
    BY <1>1, <2>1, <2>2 DEF NavigationSearch
  <2>4. CASE m = "lexical"
    <3>1. hits = LexicalNodes(ns, w, tenant, scope, limit)
      BY <2>3, <2>4
    <3> QED
      BY <2>2, <3>1, LexicalNodesAre
  <2>5. CASE m = "semantic"
    <3>1. hits = SemanticNodes(ns, w, tenant, scope, limit)
      BY <2>3, <2>5
    <3> QED
      BY <1>2, <3>1, ScopedRaises
  <2>6. CASE m = "mongo_query"
    <3>1. hits = Structured(ns, tenant, scope, limit)
      BY <2>3, <2>6
    <3> QED
      BY <3>1, StructuredIs
  <2>7. CASE m \notin {"lexical", "semantic", "mongo_query"}
    <3>1. hits = HybridSearch(ns, w, tenant, scope, limit, strategy)
      BY <2>3, <2>7
    <3> QED
      BY <1>2, <2>2, <3>1, ScopedHybrid
  <2> QED
    BY <2>4, <2>5, <2>6, <2>7
<1>5. PICK found : found = SearchInformation(ns, ask, mode, tenant, s, limit, strategy)
  OBVIOUS
<1>6. CASE hits = Raised
  <2>1. found.results = <<>>
    BY <1>1, <1>5, <1>6 DEF SearchInformation
  <2> QED
    BY <1>5, <2>1, EmptyIsList DEF ToSet
<1>7. CASE hits # Raised
  <2>1. found.results = hits
    BY <1>1, <1>5, <1>7 DEF SearchInformation
  <2> QED
    BY <1>3, <1>4, <1>5, <1>7, <2>1
<1> QED
  BY <1>6, <1>7

-----------------------------------------------------------------------------
(* Related nodes.                                                          *)

RankOf(n) == 0 - TypeRank[n.type]

LEMMA SelectedFrom ==
  ASSUME NEW pool, IsList(pool), NEW entities, NEW ids, NEW colls,
         \A i \in DOMAIN pool : pool[i].type \in {"database", "collection", "group", "document"}
  PROVE  LET t == SelectRelated(pool, entities, ids, colls)
         IN  IsList(t) /\ \A n \in ToSet(t) : n \in ToSet(pool) /\ n._id \notin ids /\ n.coll \notin colls
<1>1. PICK I : I = {i \in DOMAIN pool :
               /\ pool[i]._id \notin ids /\ pool[i].coll \notin colls \cup {""}
               /\ pool[i].type # "database"
               /\ (({pool[i].filter.customer} \cup ToSet(pool[i].document_ids) \cup pool[i].entities) \cap entities) # {}}
  OBVIOUS
<1>2. PICK fit : fit = Picked(pool, I)
  OBVIOUS
<1>3. IsList(fit) /\ ToSet(fit) = {pool[i] : i \in I}
  BY <1>1, <1>2, Kept
<1>4. \A n \in ToSet(fit) : /\ n \in ToSet(pool) /\ n._id \notin ids /\ n.coll \notin colls
                            /\ RankOf(n) \in Int
  <2>1. ASSUME NEW i \in I PROVE /\ pool[i] \in ToSet(pool) /\ pool[i]._id \notin ids /\ pool[i].coll \notin colls
                                 /\ pool[i].type \in {"group", "document", "collection"}
    BY <1>1 DEF ToSet
  <2>2. ASSUME NEW n, n.type \in {"group", "document", "collection"} PROVE RankOf(n) \in Int
    BY <2>2 DEF RankOf, TypeRank
  <2> QED
    BY <1>3, <2>1, <2>2
<1>5. PICK sc : sc = [i \in DOMAIN fit |-> RankOf(fit[i])]
  OBVIOUS
<1>6. sc \in [DOMAIN fit -> Int]
  BY <1>4, <1>5 DEF ToSet
<1>7. PICK matched : matched = Arranged(fit, sc)
  OBVIOUS
<1>8. IsList(matched) /\ ToSet(matched) = ToSet(fit)
  BY <1>3, <1>6, <1>7, ArrangedSame
<1>9. PICK firsts : firsts = {k \in DOMAIN matched : \A j \in 1 .. k - 1 : matched[j].coll # matched[k].coll}
  OBVIOUS
<1>10. PICK A, B : A = Picked(matched, firsts) /\ B = Picked(matched, DOMAIN matched \ firsts)
  OBVIOUS
<1>11. IsList(A) /\ IsList(B) /\ ToSet(A) \subseteq ToSet(fit) /\ ToSet(B) \subseteq ToSet(fit)
  <2>1. firsts \subseteq DOMAIN matched /\ DOMAIN matched \ firsts \subseteq DOMAIN matched
    BY <1>9
  <2>2. IsList(A) /\ ToSet(A) \subseteq ToSet(matched)
    BY <1>8, <1>10, <2>1, Kept
  <2>3. IsList(B) /\ ToSet(B) \subseteq ToSet(matched)
    BY <1>8, <1>10, <2>1, Kept
  <2> QED
    BY <1>8, <2>2, <2>3
<1>12. IsList(A \o B) /\ ToSet(A \o B) \subseteq ToSet(fit)
  BY <1>11, Concatenated, ConcatenatedSet
<1>13. SelectRelated(pool, entities, ids, colls) = Upto(A \o B, RelatedLimit)
  <2>1. fit = Filter(pool, LAMBDA n :
               /\ n._id \notin ids /\ n.coll \notin colls \cup {""}
               /\ n.type # "database"
               /\ (({n.filter.customer} \cup ToSet(n.document_ids) \cup n.entities) \cap entities) # {})
    BY <1>1, <1>2 DEF Filter
  <2>2. matched = SortedBy(fit, LAMBDA n : 0 - TypeRank[n.type])
    BY <1>5, <1>7 DEF SortedBy, RankOf
  <2> QED
    BY <2>1, <2>2, <1>9, <1>10 DEF SelectRelated
<1>14. PICK t : t = Upto(A \o B, RelatedLimit)
  OBVIOUS
<1>15. IsList(t) /\ ToSet(t) \subseteq ToSet(A \o B)
  BY <1>12, <1>14, UptoPart, SearchAssumption
<1> QED
  BY <1>4, <1>12, <1>13, <1>14, <1>15

LEMMA RelatedFrom ==
  ASSUME NEW ns, IsList(ns), \A i \in DOMAIN ns : ns[i].type \in {"database", "collection", "group", "document"},
         NEW tenant, NEW hits, NEW docs, NEW docColls, NEW skip
  PROVE  LET t == RelatedNodes(ns, tenant, hits, docs, docColls, skip)
         IN  IsList(t) /\ \A n \in ToSet(t) : n.tenant = tenant /\ n.coll \notin skip
<1>1. PICK es : es = ToSet(Upto(EntityOrder(hits, docs), RelatedEntityCap))
  OBVIOUS
<1>2. PICK I, pool : I = {i \in DOMAIN ns : ns[i].tenant = tenant /\ Entities(ns[i]) \cap es # {}} /\ pool = Picked(ns, I)
  OBVIOUS
<1>3. IsList(pool) /\ ToSet(pool) = {ns[i] : i \in I}
  BY <1>2, Kept
<1>4. PICK ids, colls : /\ ids = {hits[i]._id : i \in DOMAIN hits}
                        /\ colls = skip \cup docColls \cup {hits[i].coll : i \in DOMAIN hits}
  OBVIOUS
<1>5. RelatedNodes(ns, tenant, hits, docs, docColls, skip)
        = IF es = {} THEN <<>> ELSE SelectRelated(pool, es, ids, colls)
  BY <1>1, <1>2, <1>4 DEF RelatedNodes, Filter
<1>6. \A n \in ToSet(pool) : n.tenant = tenant /\ n.type \in {"database", "collection", "group", "document"}
  BY <1>2, <1>3
<1>7. \A i \in DOMAIN pool : pool[i].type \in {"database", "collection", "group", "document"}
  BY <1>6 DEF ToSet
<1>8. PICK t : t = SelectRelated(pool, es, ids, colls)
  OBVIOUS
<1>9. IsList(t) /\ \A n \in ToSet(t) : n \in ToSet(pool) /\ n.coll \notin colls
  BY <1>3, <1>7, <1>8, SelectedFrom
<1>10. \A n \in ToSet(t) : n.tenant = tenant /\ n.coll \notin skip
  BY <1>4, <1>6, <1>9
<1>11. IsList(<<>>) /\ ToSet(<<>>) = {}
  BY EmptyIsList DEF ToSet
<1> QED
  BY <1>5, <1>8, <1>9, <1>10, <1>11

-----------------------------------------------------------------------------
(* The documents below a node.                                             *)

\* Collections of documents with ids of their own.
Shelved(src) == \A c \in DOMAIN Source : Listing(src[c])

\* Some of the documents that a tenant has in a collection.
PartOf(t, s, tenant) == IsList(t) /\ \A d \in ToSet(t) : d \in ToSet(s) /\ d.tenant = tenant

LEMMA QueriedAre ==
  ASSUME NEW src, NEW c, IsList(src[c]), NEW filter, NEW tenant, NEW limit \in Nat
  PROVE  LET t == QueryNamespace(src, c, filter, tenant, limit)
         IN  /\ PartOf(t, src[c], tenant) /\ (Distinct(src[c]) => Distinct(t))
             /\ Len(t) = Smaller(limit, CountNamespace(src, c, filter, tenant))
             /\ CountNamespace(src, c, filter, tenant) \in Nat
<1>1. PICK s, I, f : /\ s = src[c] /\ I = {i \in DOMAIN s : OnDocument(filter, tenant, s[i])}
                     /\ f = Picked(s, I)
  OBVIOUS
<1>2. IsList(f) /\ ToSet(f) = {s[i] : i \in I} /\ (Distinct(s) => Distinct(f))
  BY <1>1, Kept
<1>3. PICK t : t = Upto(f, limit)
  OBVIOUS
<1>4. t = QueryNamespace(src, c, filter, tenant, limit) /\ CountNamespace(src, c, filter, tenant) = Len(f)
  BY <1>1, <1>3 DEF QueryNamespace, CountNamespace, Filter
<1>5. /\ IsList(t) /\ ToSet(t) \subseteq ToSet(f) /\ (Distinct(f) => Distinct(t)) /\ Len(t) = Smaller(limit, Len(f))
  BY <1>2, <1>3, UptoPart
<1>6. ASSUME NEW d \in ToSet(f) PROVE d \in ToSet(s) /\ d.tenant = tenant
  BY <1>1, <1>2 DEF ToSet, OnDocument
<1>7. Len(f) \in Nat
  BY <1>2, ListIs
<1> QED
  BY <1>1, <1>2, <1>4, <1>5, <1>6, <1>7 DEF PartOf

LEMMA WithinAre ==
  ASSUME NEW src, NEW node, IsList(src[node.coll]), NEW words, IsFiniteSet(words), NEW tenant,
         NEW limit \in Nat, NEW indexed
  PROVE  PartOf(SearchWithin(src, node, words, tenant, limit, indexed), src[node.coll], tenant)
<1>1. PICK s, I, f : /\ s = src[node.coll]
                     /\ I = {i \in DOMAIN s : OnDocument(node.filter, tenant, s[i]) /\ Hits(words, WordsOf(s[i])) > 0}
                     /\ f = Picked(s, I)
  OBVIOUS
<1>2. IsList(f) /\ ToSet(f) = {s[i] : i \in I}
  BY <1>1, Kept
<1>3. PICK r : r = Relevance(f, words, WordsOf)
  OBVIOUS
<1>4. IsList(r) /\ ToSet(r) = ToSet(f)
  BY <1>2, <1>3, RelevantDocuments DEF Reordered
<1>5. IsList(Upto(r, limit)) /\ ToSet(Upto(r, limit)) \subseteq ToSet(f)
  BY <1>4, UptoPart
<1>6. ASSUME NEW d \in ToSet(f) PROVE d \in ToSet(s) /\ d.tenant = tenant
  BY <1>1, <1>2 DEF ToSet, OnDocument
<1>7. CASE indexed
  <2>1. SearchWithin(src, node, words, tenant, limit, indexed)
          = LexicalSearch(s, words, WordsOf, LAMBDA d : OnDocument(node.filter, tenant, d), limit)
    BY <1>1, <1>7 DEF SearchWithin
  <2>2. LexicalSearch(s, words, WordsOf, LAMBDA d : OnDocument(node.filter, tenant, d), limit) = Upto(r, limit)
    BY <1>1, <1>3 DEF LexicalSearch, Filter
  <2> QED
    BY <1>1, <1>5, <1>6, <2>1, <2>2 DEF PartOf
<1>8. CASE ~ indexed
  BY <1>8, QueriedAre DEF SearchWithin
<1> QED
  BY <1>7, <1>8

LEMMA ReadsAre ==
  ASSUME NEW src, NEW c, IsList(src[c]), NEW ids, NEW tenant
  PROVE  PartOf(ReadNamespace(src, c, ids, tenant), src[c], tenant)
<1>1. PICK s, I, f : /\ s = src[c] /\ I = {i \in DOMAIN s : s[i].tenant = tenant /\ Contains(ids, s[i]._id)}
                     /\ f = Picked(s, I)
  OBVIOUS
<1>2. IsList(f) /\ ToSet(f) = {s[i] : i \in I}
  BY <1>1, Kept
<1>3. f = ReadNamespace(src, c, ids, tenant)
  BY <1>1 DEF ReadNamespace, Filter
<1>4. ASSUME NEW d \in ToSet(f) PROVE d \in ToSet(s) /\ d.tenant = tenant
  BY <1>1, <1>2 DEF ToSet
<1> QED
  BY <1>1, <1>2, <1>3, <1>4 DEF PartOf

\* The documents of a node that has a collection; those of another are none.
LEMMA DocsAre ==
  ASSUME NEW src, NEW node, node.coll # "" => IsList(src[node.coll]), NEW tenant,
         NEW words, IsFiniteSet(words), NEW limit \in Nat, NEW indexed
  PROVE  LET t == DocsForNode(src, node, tenant, words, limit, indexed)
         IN  IF node.coll = "" THEN t = <<>> ELSE PartOf(t, src[node.coll], tenant)
<1>1. CASE node.coll = ""
  BY <1>1 DEF DocsForNode
<1>2. CASE node.coll # ""
  <2>1. PICK within, all, read :
           /\ within = SearchWithin(src, node, words, tenant, limit, indexed)
           /\ all    = QueryNamespace(src, node.coll, node.filter, tenant, limit)
           /\ read   = ReadNamespace(src, node.coll, node.document_ids, tenant)
    OBVIOUS
  <2>2. PartOf(within, src[node.coll], tenant)
    BY <1>2, <2>1, WithinAre
  <2>3. PartOf(all, src[node.coll], tenant)
    BY <1>2, <2>1, QueriedAre
  <2>4. PartOf(read, src[node.coll], tenant)
    BY <1>2, <2>1, ReadsAre
  <2>5. PartOf(<<>>, src[node.coll], tenant)
    BY EmptyIsList DEF PartOf, ToSet
  <2>6. DocsForNode(src, node, tenant, words, limit, indexed) \in {within, all, read, <<>>}
    <3>1. CASE words = {}
      BY <1>2, <2>1, <3>1 DEF DocsForNode
    <3>2. CASE words # {}
      BY <1>2, <2>1, <3>2 DEF DocsForNode
    <3> QED
      BY <3>1, <3>2
  <2> QED
    BY <1>2, <2>2, <2>3, <2>4, <2>5, <2>6
<1> QED
  BY <1>1, <1>2

-----------------------------------------------------------------------------
(* Reading one node after the other.                                       *)

\* A document that the tenant has.
Owned(r, src, tenant) ==
  r.coll \in DOMAIN Source /\ \E d \in ToSet(src[r.coll]) : d._id = r.id /\ d.tenant = tenant

ReadFields == {"documents", "customers", "missing", "hints", "origins", "full"}

Progress(got, cap, src, tenant) ==
  /\ DOMAIN got = ReadFields
  /\ IsList(got.documents) /\ Distinct(got.documents) /\ Len(got.documents) <= cap
  /\ \A r \in ToSet(got.documents) : Owned(r, src, tenant)
  /\ IsList(got.missing) /\ IsList(got.origins)
  /\ got.full => Len(got.documents) >= cap

Answered(got) == ToSet([i \in DOMAIN got.origins |-> got.origins[i]._id]) \cup ToSet(got.missing)

LEMMA OneAnswered ==
  ASSUME NEW s, IsList(s), NEW n
  PROVE  ToSet([i \in DOMAIN Append(s, n) |-> Append(s, n)[i]._id]) = ToSet([i \in DOMAIN s |-> s[i]._id]) \cup {n._id}
<1>1. PICK t : t = Append(s, n)
  OBVIOUS
<1>2. PICK m \in Nat : m = Len(s)
  BY ListIs
<1>3. /\ IsList(t) /\ DOMAIN s = 1 .. m /\ DOMAIN t = 1 .. m + 1
      /\ \A i \in 1 .. m : t[i] = s[i]
      /\ t[m + 1] = n
  BY <1>1, <1>2, Appended, ListIs
<1>4. DOMAIN t = DOMAIN s \cup {m + 1}
  BY <1>3
<1>5. PICK a, b : a = [i \in DOMAIN s |-> s[i]._id] /\ b = [i \in DOMAIN t |-> t[i]._id]
  OBVIOUS
<1>6. \A i \in DOMAIN s : b[i] = a[i]
  BY <1>3, <1>4, <1>5
<1>7. b[m + 1] = n._id
  BY <1>3, <1>4, <1>5
<1>8. DOMAIN a = DOMAIN s /\ DOMAIN b = DOMAIN s \cup {m + 1}
  BY <1>4, <1>5
<1>9. ToSet(b) = ToSet(a) \cup {n._id}
  BY <1>6, <1>7, <1>8 DEF ToSet
<1> QED
  BY <1>1, <1>5, <1>9

\* What a node gives to be read, of the collection it has.
Gives(batch, node, src, tenant) ==
  IF node.coll = "" THEN batch = <<>> ELSE node.coll \in DOMAIN Source /\ PartOf(batch, src[node.coll], tenant)

FreshOf(batch, coll, docs) == Filter(Unique(batch), LAMBDA d : ~ Contains(docs, Ref(coll, d)))
RefsOf(coll, taken) == [k \in DOMAIN taken |-> Ref(coll, taken[k])]

Adds(batch, node, src, tenant, docs, room) ==
  Shelved(src) /\ Gives(batch, node, src, tenant) /\ IsList(docs) /\ room \in Nat

LEMMA FreshAre ==
  ASSUME NEW src, NEW node, NEW tenant, NEW batch, NEW docs, NEW room, Adds(batch, node, src, tenant, docs, room)
  PROVE  LET taken == Upto(FreshOf(batch, node.coll, docs), room)
             refs  == RefsOf(node.coll, taken)
         IN  /\ IsList(refs) /\ Distinct(refs) /\ Len(refs) = Len(taken) /\ Len(taken) \in Nat /\ Len(taken) <= room
             /\ \A r \in ToSet(refs) : r \notin ToSet(docs) /\ Owned(r, src, tenant)
<1>1. Shelved(src) /\ Gives(batch, node, src, tenant) /\ IsList(docs) /\ room \in Nat
  BY DEF Adds
<1>2. PICK u : u = Unique(batch)
  OBVIOUS
<1>3. IsList(batch)
  BY <1>1, EmptyIsList DEF Gives, PartOf
<1>4. IsList(u) /\ ToSet(u) = ToSet(batch) /\ Distinct(u)
  BY <1>2, <1>3, UniqueIs DEF Distinct
<1>5. PICK I, fresh : I = {i \in DOMAIN u : ~ Contains(docs, Ref(node.coll, u[i]))} /\ fresh = Picked(u, I)
  OBVIOUS
<1>6. IsList(fresh) /\ ToSet(fresh) = {u[i] : i \in I} /\ Distinct(fresh)
  BY <1>4, <1>5, Kept
<1>7. PICK taken : taken = Upto(fresh, room)
  OBVIOUS
<1>8. IsList(taken) /\ ToSet(taken) \subseteq ToSet(fresh) /\ Distinct(taken) /\ Len(taken) <= room
  BY <1>1, <1>6, <1>7, UptoPart
<1>9. ASSUME NEW d \in ToSet(taken)
      PROVE  /\ Ref(node.coll, d) \notin ToSet(docs)
             /\ node.coll \in DOMAIN Source /\ d \in ToSet(src[node.coll]) /\ d.tenant = tenant
  <2>1. PICK i \in I : d = u[i]
    BY <1>6, <1>8
  <2>2. ~ Contains(docs, Ref(node.coll, d)) /\ d \in ToSet(batch)
    BY <1>4, <1>5, <2>1 DEF ToSet
  <2>3. Ref(node.coll, d) \notin ToSet(docs)
    <3>1. DOMAIN docs = 1 .. Len(docs)
      BY <1>1, ListIs
    <3> QED
      BY <2>2, <3>1 DEF Contains, ToSet
  <2>4. batch # <<>>
    BY <2>2, EmptyIsList DEF ToSet
  <2> QED
    BY <1>1, <2>2, <2>3, <2>4 DEF Gives, PartOf
<1>10. PICK m \in Nat : m = Len(taken) /\ DOMAIN taken = 1 .. m
  BY <1>8, ListIs
<1>11. PICK refs : refs = [k \in DOMAIN taken |-> Ref(node.coll, taken[k])]
  OBVIOUS
<1>12. IsList(refs) /\ Len(refs) = m /\ DOMAIN refs = DOMAIN taken
  <2>1. refs = [k \in 1 .. m |-> refs[k]]
    BY <1>10, <1>11
  <2> QED
    BY <1>10, <2>1, ListOf
<1>13. ASSUME NEW r \in ToSet(refs) PROVE r \notin ToSet(docs) /\ Owned(r, src, tenant)
  <2>1. PICK d \in ToSet(taken) : r = Ref(node.coll, d)
    BY <1>11, <1>12, <1>13 DEF ToSet
  <2>2. r.coll = node.coll /\ r.id = d._id
    BY <2>1 DEF Ref
  <2> QED
    BY <1>9, <2>1, <2>2 DEF Owned
<1>14. Distinct(refs)
  <2>1. SUFFICES ASSUME NEW k \in DOMAIN taken, NEW l \in DOMAIN taken, refs[k] = refs[l] PROVE k = l
    BY <1>12 DEF Distinct
  <2>2. taken[k]._id = taken[l]._id
    <3>1. Ref(node.coll, taken[k]) = Ref(node.coll, taken[l])
      BY <1>11, <2>1
    <3> QED
      BY <3>1 DEF Ref
  <2>3. taken[k] \in ToSet(taken) /\ taken[l] \in ToSet(taken)
    BY DEF ToSet
  <2>4. PICK s : s = src[node.coll]
    OBVIOUS
  <2>5. Listing(s) /\ taken[k] \in ToSet(s) /\ taken[l] \in ToSet(s)
    BY <1>1, <1>9, <2>3, <2>4 DEF Shelved
  <2>6. PICK i, j \in DOMAIN s : taken[k] = s[i] /\ taken[l] = s[j]
    BY <2>5 DEF ToSet
  <2>7. i = j
    BY <2>2, <2>5, <2>6 DEF Listing
  <2> QED
    BY <1>8, <2>6, <2>7 DEF Distinct
<1> QED
  BY <1>2, <1>5, <1>7, <1>8, <1>10, <1>11, <1>12, <1>13, <1>14 DEF Filter, FreshOf, RefsOf

LEMMA Taken ==
  ASSUME NEW src, Shelved(src), NEW node, NEW tenant, NEW batch, Gives(batch, node, src, tenant),
         NEW cap \in Nat, NEW got, Progress(got, cap, src, tenant), NEW kids
  PROVE  LET t == Take(got, node, cap, batch, kids)
         IN  Progress(t, cap, src, tenant) /\ Answered(t) = Answered(got) \cup {node._id}
<1>1. PICK docs, n : docs = got.documents /\ n = Len(docs)
  OBVIOUS
<1>2. IsList(docs) /\ Distinct(docs) /\ n \in Nat /\ n <= cap /\ cap - n \in Nat
  BY <1>1, ListIs DEF Progress
<1>3. PICK room : room = cap - n
  OBVIOUS
<1>4. PICK fresh, taken, refs :
         /\ fresh = FreshOf(batch, node.coll, docs) /\ taken = Upto(fresh, room) /\ refs = RefsOf(node.coll, taken)
  OBVIOUS
<1>5. /\ IsList(refs) /\ Distinct(refs) /\ Len(refs) = Len(taken) /\ Len(taken) \in Nat /\ Len(taken) <= cap - n
      /\ \A r \in ToSet(refs) : r \notin ToSet(docs) /\ Owned(r, src, tenant)
  <2>1. room \in Nat
    BY <1>2, <1>3
  <2>2. /\ IsList(refs) /\ Distinct(refs) /\ Len(refs) = Len(taken) /\ Len(taken) \in Nat /\ Len(taken) <= room
        /\ \A r \in ToSet(refs) : r \notin ToSet(docs) /\ Owned(r, src, tenant)
    <3>1. Adds(batch, node, src, tenant, docs, room)
      BY <1>2, <2>1 DEF Adds
    <3>2. PICK k, f : k = Upto(FreshOf(batch, node.coll, docs), room) /\ f = RefsOf(node.coll, k)
      OBVIOUS
    <3>3. /\ IsList(f) /\ Distinct(f) /\ Len(f) = Len(k) /\ Len(k) \in Nat /\ Len(k) <= room
          /\ \A r \in ToSet(f) : r \notin ToSet(docs) /\ Owned(r, src, tenant)
      BY ONLY <3>1, <3>2, FreshAre
    <3> QED
      BY <1>4, <3>2, <3>3
  <2> QED
    BY <1>3, <2>2
<1>6. PICK all : all = docs \o refs
  OBVIOUS
<1>7. IsList(all) /\ Len(all) = n + Len(taken) /\ ToSet(all) = ToSet(docs) \cup ToSet(refs) /\ Distinct(all)
  <2>1. ToSet(docs) \cap ToSet(refs) = {}
    BY <1>5
  <2>2. IsList(all) /\ Len(all) = n + Len(taken)
    <3>1. IsList(docs \o refs) /\ Len(docs \o refs) = Len(docs) + Len(refs)
      BY ONLY <1>2, <1>5, Concatenated
    <3> QED
      BY <1>1, <1>5, <1>6, <3>1
  <2>3. ToSet(all) = ToSet(docs) \cup ToSet(refs)
    BY <1>2, <1>5, <1>6, ConcatenatedSet
  <2>4. Distinct(all)
    BY <1>2, <1>5, <1>6, <2>1, ConcatenatedDistinct
  <2> QED
    BY <2>2, <2>3, <2>4
<1>8. PICK t : t = Take(got, node, cap, batch, kids)
  OBVIOUS
<1>9. DOMAIN got = ReadFields
  BY DEF Progress
<1>10. /\ DOMAIN t = ReadFields /\ t.documents = all /\ t.missing = got.missing
      /\ t.origins = Append(got.origins, node) /\ t.full = (n + Len(taken) >= cap)
  <2>1. t = [got EXCEPT !.documents = @ \o refs, !.customers = @ \o taken,
                         !.hints = IF batch = <<>> /\ kids # <<>> THEN Append(@, node._id) ELSE @,
                         !.origins = Append(@, node), !.full = n + Len(taken) >= cap]
    BY <1>1, <1>3, <1>4, <1>8 DEF Take, FreshOf, RefsOf
  <2> QED
    BY <1>1, <1>6, <1>9, <2>1 DEF ReadFields
<1>11. IsList(got.origins) /\ IsList(got.missing) /\ \A r \in ToSet(docs) : Owned(r, src, tenant)
  BY <1>1 DEF Progress
<1>12. IsList(t.origins)
  BY <1>10, <1>11, Appended
<1>13. Progress(t, cap, src, tenant)
  <2>1. Len(all) <= cap /\ (n + Len(taken) >= cap => Len(all) >= cap)
    BY <1>2, <1>5, <1>7
  <2>2. \A r \in ToSet(all) : Owned(r, src, tenant)
    BY <1>5, <1>7, <1>11
  <2> QED
    BY <1>7, <1>10, <1>11, <1>12, <2>1, <2>2 DEF Progress
<1>14. Answered(t) = Answered(got) \cup {node._id}
  <2>1. PICK o, a, b : /\ o = got.origins /\ a = ToSet([i \in DOMAIN o |-> o[i]._id])
                       /\ b = ToSet([i \in DOMAIN Append(o, node) |-> Append(o, node)[i]._id])
    OBVIOUS
  <2>2. b = a \cup {node._id}
    <3>1. IsList(o)
      BY <1>11, <2>1
    <3>2. ToSet([i \in DOMAIN Append(o, node) |-> Append(o, node)[i]._id]) = ToSet([i \in DOMAIN o |-> o[i]._id]) \cup {node._id}
      BY ONLY <3>1, OneAnswered
    <3> QED
      BY <2>1, <3>2
  <2>3. Answered(t) = b \cup ToSet(got.missing) /\ Answered(got) = a \cup ToSet(got.missing)
    BY <1>10, <2>1 DEF Answered
  <2> QED
    BY <2>2, <2>3
<1> QED
  BY <1>8, <1>13, <1>14

\* What every node of a tree has.
WellNode(n) ==
  /\ {"type", "_id", "coll"} \subseteq DOMAIN n /\ n.type \in {"database", "collection", "group", "document"}
  /\ n._id # NoNode
  /\ n.coll = "" \/ n.coll \in DOMAIN Source
WellNodes(ns) == IsList(ns) /\ \A i \in DOMAIN ns : WellNode(ns[i])

\* The state of a reader who has read some of the nodes it was asked for.
ReadsOn(ns, src, tenant, words, cap, got) ==
  WellNodes(ns) /\ Shelved(src) /\ IsFiniteSet(words) /\ cap \in Nat \ {0} /\ Progress(got, cap, src, tenant)

LEMMA ReadsOne ==
  ASSUME NEW ns, NEW src, NEW tenant, NEW words, NEW cap, NEW got, ReadsOn(ns, src, tenant, words, cap, got),
         NEW indexed, NEW id
  PROVE  LET t == ReadNode(ns, src, tenant, words, cap, indexed, got, id)
         IN  /\ Progress(t, cap, src, tenant)
             /\ ~ t.full => ~ got.full /\ Answered(t) = Answered(got) \cup {id}
<1>1. /\ IsList(ns) /\ (\A i \in DOMAIN ns : WellNode(ns[i])) /\ Shelved(src) /\ IsFiniteSet(words)
      /\ cap \in Nat \ {0} /\ Progress(got, cap, src, tenant)
  BY DEF ReadsOn, WellNodes
<1>2. PICK t : t = ReadNode(ns, src, tenant, words, cap, indexed, got, id)
  OBVIOUS
<1>3. PICK I, found : I = {i \in DOMAIN ns : ns[i]._id = id /\ ns[i].tenant = tenant} /\ found = Picked(ns, I)
  OBVIOUS
<1>4. IsList(found) /\ ToSet(found) = {ns[i] : i \in I}
  BY <1>1, <1>3, Kept
<1>5. found = GetNode(ns, id, tenant)
  BY <1>3 DEF GetNode, Filter
<1>6. CASE got.full
  <2>1. t = got
    BY <1>2, <1>6 DEF ReadNode
  <2> QED
    BY <1>1, <1>2, <1>6, <2>1
<1>7. CASE ~ got.full /\ found = <<>>
  <2>1. t = [got EXCEPT !.missing = Append(@, id)]
    BY <1>2, <1>5, <1>7 DEF ReadNode
  <2>2. DOMAIN got = ReadFields /\ IsList(got.missing)
    BY <1>1 DEF Progress
  <2>3. PICK m : m = Append(got.missing, id)
    OBVIOUS
  <2>4. IsList(m) /\ ToSet(m) = ToSet(got.missing) \cup {id}
    <3>1. PICK x, y : x = got.missing /\ y = <<id>>
      OBVIOUS
    <3>2. IsList(x) /\ IsList(y) /\ ToSet(y) = {id}
      BY <2>2, <3>1, Single
    <3>3. IsList(Append(x, id))
      BY <3>2, Appended
    <3>4. Append(x, id) = x \o y
      BY <3>1, <3>2
    <3>5. ToSet(x \o y) = ToSet(x) \cup ToSet(y)
      BY <3>2, ConcatenatedSet
    <3> QED
      BY <2>3, <3>1, <3>2, <3>3, <3>4, <3>5
  <2>5. /\ DOMAIN t = ReadFields /\ t.missing = m /\ t.documents = got.documents
        /\ t.origins = got.origins /\ t.full = got.full
    BY <2>1, <2>2, <2>3 DEF ReadFields
  <2>6. Progress(t, cap, src, tenant)
    BY <1>1, <2>4, <2>5 DEF Progress
  <2>7. Answered(t) = Answered(got) \cup {id}
    BY <2>4, <2>5 DEF Answered
  <2> QED
    BY <1>2, <1>7, <2>6, <2>7
<1>8. CASE ~ got.full /\ found # <<>>
  <2>1. PICK node : node = found[1]
    OBVIOUS
  <2>2. node._id = id /\ WellNode(node)
    <3>1. 1 \in DOMAIN found
      BY <1>4, <1>8, NotEmpty
    <3>2. node \in ToSet(found)
      BY <2>1, <3>1 DEF ToSet
    <3> QED
      BY <1>1, <1>3, <1>4, <3>2
  <2>3. PICK limit, batch, kids :
           /\ limit = Larger(2, Smaller(6, cap))
           /\ batch = DocsForNode(src, node, tenant, words, limit, indexed)
           /\ kids = GetChildren(ns, id, tenant, ChildPreview)
    OBVIOUS
  <2>4. t = Take(got, node, cap, batch, kids)
    BY <1>2, <1>5, <1>8, <2>1, <2>3 DEF ReadNode
  <2>5. limit \in Nat
    BY <1>1, <2>3 DEF Larger, Smaller
  <2>6. node.coll # "" => node.coll \in DOMAIN Source /\ IsList(src[node.coll])
    BY <1>1, <2>2 DEF WellNode, Shelved, Listing
  <2>7. Gives(batch, node, src, tenant)
    <3>1. IF node.coll = "" THEN batch = <<>> ELSE PartOf(batch, src[node.coll], tenant)
      BY <1>1, <2>3, <2>5, <2>6, DocsAre
    <3> QED
      BY <2>6, <3>1 DEF Gives
  <2>8. cap \in Nat
    BY <1>1
  <2>9. Progress(t, cap, src, tenant) /\ Answered(t) = Answered(got) \cup {node._id}
    BY <1>1, <2>4, <2>7, <2>8, Taken
  <2> QED
    BY <1>2, <1>8, <2>2, <2>9
<1> QED
  BY <1>6, <1>7, <1>8

Reading(ns, src, asked, tenant, words, cap, indexed, n, g) ==
  g = [i \in 0 .. n |-> IF i = 0 THEN NothingRead
                        ELSE ReadNode(ns, src, tenant, words, cap, indexed, g[i - 1], asked[i])]

LEMMA ReadingExists ==
  ASSUME NEW ns, NEW src, NEW asked, NEW tenant, NEW words, NEW cap, NEW indexed, NEW n \in Nat
  PROVE  \E g : Reading(ns, src, asked, tenant, words, cap, indexed, n, g)
<1>1. PICK P : P = {m \in Nat : \E g : Reading(ns, src, asked, tenant, words, cap, indexed, m, g)}
  OBVIOUS
<1>2. 0 \in P
  <2>1. PICK g : g = [i \in 0 .. 0 |-> NothingRead]
    OBVIOUS
  <2>2. g = [i \in 0 .. 0 |-> IF i = 0 THEN NothingRead
                              ELSE ReadNode(ns, src, tenant, words, cap, indexed, g[i - 1], asked[i])]
    BY <2>1
  <2> QED
    BY <1>1, <2>2 DEF Reading
<1>3. ASSUME NEW m \in P PROVE m + 1 \in P
  <2>0. m \in Nat
    BY <1>1
  <2>1. PICK g : Reading(ns, src, asked, tenant, words, cap, indexed, m, g)
    BY <1>1
  <2>2. PICK last : last = ReadNode(ns, src, tenant, words, cap, indexed, g[m], asked[m + 1])
    OBVIOUS
  <2>3. PICK h : h = [i \in 0 .. m + 1 |-> IF i = m + 1 THEN last ELSE g[i]]
    OBVIOUS
  <2>4. ASSUME NEW i \in 0 .. m + 1
        PROVE  h[i] = IF i = 0 THEN NothingRead
                      ELSE ReadNode(ns, src, tenant, words, cap, indexed, h[i - 1], asked[i])
    <3>1. CASE i = m + 1
      <4>1. h[i] = last /\ h[i - 1] = g[m] /\ i # 0
        BY <2>0, <2>3, <3>1
      <4> QED
        BY <2>2, <3>1, <4>1
    <3>2. CASE i # m + 1
      <4>1. i \in 0 .. m /\ h[i] = g[i] /\ (i # 0 => h[i - 1] = g[i - 1])
        BY <2>0, <2>3, <3>2
      <4>2. g[i] = IF i = 0 THEN NothingRead
                   ELSE ReadNode(ns, src, tenant, words, cap, indexed, g[i - 1], asked[i])
        BY <2>1, <4>1 DEF Reading
      <4> QED
        BY <4>1, <4>2
    <3> QED
      BY <3>1, <3>2
  <2>5. h = [i \in 0 .. m + 1 |-> IF i = 0 THEN NothingRead
                                  ELSE ReadNode(ns, src, tenant, words, cap, indexed, h[i - 1], asked[i])]
    BY <2>3, <2>4
  <2>6. Reading(ns, src, asked, tenant, words, cap, indexed, m + 1, h)
    BY <2>5 DEF Reading
  <2> QED
    BY <1>1, <2>0, <2>6
<1>4. P = Nat
  BY <1>1, <1>2, <1>3, Induction
<1> QED
  BY <1>1, <1>4

\* A read of several nodes that may end.
Reads(ns, src, tenant, words, cap, asked) ==
  WellNodes(ns) /\ Shelved(src) /\ IsFiniteSet(words) /\ cap \in Nat \ {0} /\ IsList(asked)

LEMMA NothingIsRead ==
  ASSUME NEW src, NEW tenant, NEW cap \in Nat
  PROVE  Progress(NothingRead, cap, src, tenant) /\ Answered(NothingRead) = {}
<1>1. /\ DOMAIN NothingRead = ReadFields /\ NothingRead.documents = <<>> /\ NothingRead.missing = <<>>
      /\ NothingRead.origins = <<>> /\ NothingRead.full = FALSE
  BY DEF NothingRead, ReadFields
<1>2. IsList(<<>>) /\ Len(<<>>) = 0 /\ DOMAIN <<>> = {}
  BY EmptyIsList
<1>3. ToSet(<<>>) = {} /\ Distinct(<<>>) /\ [i \in {} |-> NothingRead.origins[i]._id] = <<>>
  BY <1>2 DEF ToSet, Distinct
<1>4. Progress(NothingRead, cap, src, tenant)
  BY <1>1, <1>2, <1>3 DEF Progress
<1>5. ToSet([i \in {} |-> NothingRead.origins[i]._id]) = {}
  BY DEF ToSet
<1>6. Answered(NothingRead) = {}
  BY <1>1, <1>2, <1>3, <1>5 DEF Answered
<1> QED
  BY <1>4, <1>6

LEMMA AllRead ==
  ASSUME NEW ns, NEW src, NEW tenant, NEW words, NEW cap, NEW asked, Reads(ns, src, tenant, words, cap, asked),
         NEW indexed, NEW ids, asked = Asked(ids)
  PROVE  LET t == ReadAll(ns, src, ids, tenant, words, cap, indexed)
         IN  Progress(t, cap, src, tenant) /\ (~ t.full => Answered(t) = ToSet(asked))
<1>1. WellNodes(ns) /\ Shelved(src) /\ IsFiniteSet(words) /\ cap \in Nat \ {0} /\ cap \in Nat /\ IsList(asked)
  BY DEF Reads
<1>2. PICK n \in Nat : n = Len(asked) /\ DOMAIN asked = 1 .. n
  BY <1>1, ListIs
<1>3. PICK u : u = CHOOSE g : g = [i \in 0 .. n |-> IF i = 0 THEN NothingRead
                        ELSE ReadNode(ns, src, tenant, words, cap, indexed, g[i - 1], asked[i])]
  OBVIOUS
<1>4. u = [i \in 0 .. n |-> IF i = 0 THEN NothingRead
                        ELSE ReadNode(ns, src, tenant, words, cap, indexed, u[i - 1], asked[i])]
  <2>1. PICK g : Reading(ns, src, asked, tenant, words, cap, indexed, n, g)
    BY ReadingExists
  <2>2. g = [i \in 0 .. n |-> IF i = 0 THEN NothingRead
                        ELSE ReadNode(ns, src, tenant, words, cap, indexed, g[i - 1], asked[i])]
    BY <2>1 DEF Reading
  <2> QED
    BY <1>3, <2>2
<1>5. ReadAll(ns, src, ids, tenant, words, cap, indexed) = u[n]
  BY <1>2, <1>3 DEF ReadAll
<1>6. PICK P : P = {m \in Nat : m <= n => /\ Progress(u[m], cap, src, tenant)
                                          /\ ~ u[m].full => Answered(u[m]) = {asked[k] : k \in 1 .. m}}
  OBVIOUS
<1>7. 0 \in P
  <2>1. u[0] = NothingRead
    BY <1>4
  <2>2. {asked[k] : k \in 1 .. 0} = {}
    OBVIOUS
  <2> QED
    BY <1>1, <1>6, <2>1, <2>2, NothingIsRead
<1>8. ASSUME NEW m \in P PROVE m + 1 \in P
  <2>1. m \in Nat
    BY <1>6
  <2>2. SUFFICES ASSUME m + 1 <= n
                 PROVE  /\ Progress(u[m + 1], cap, src, tenant)
                        /\ ~ u[m + 1].full => Answered(u[m + 1]) = {asked[k] : k \in 1 .. m + 1}
    BY <1>6, <2>1
  <2>3. /\ Progress(u[m], cap, src, tenant)
        /\ ~ u[m].full => Answered(u[m]) = {asked[k] : k \in 1 .. m}
    BY <1>2, <1>6, <2>1, <2>2
  <2>4. PICK got, id : got = u[m] /\ id = asked[m + 1]
    OBVIOUS
  <2>5. PICK t : t = ReadNode(ns, src, tenant, words, cap, indexed, got, id)
    OBVIOUS
  <2>6. u[m + 1] = t
    <3>1. m + 1 \in 0 .. n /\ m + 1 # 0 /\ (m + 1) - 1 = m
      BY <1>2, <2>1, <2>2
    <3> QED
      BY <1>4, <2>4, <2>5, <3>1
  <2>7. ReadsOn(ns, src, tenant, words, cap, got)
    BY <1>1, <2>3, <2>4 DEF ReadsOn
  <2>8. Progress(t, cap, src, tenant) /\ (~ t.full => ~ got.full /\ Answered(t) = Answered(got) \cup {id})
    BY <2>5, <2>7, ReadsOne
  <2>9. {asked[k] : k \in 1 .. m + 1} = {asked[k] : k \in 1 .. m} \cup {id}
    <3>1. 1 .. m + 1 = 1 .. m \cup {m + 1}
      BY <2>1
    <3> QED
      BY <2>4, <3>1
  <2> QED
    BY <2>3, <2>4, <2>6, <2>8, <2>9
<1>9. P = Nat
  BY <1>6, <1>7, <1>8, Induction
<1>10. /\ Progress(u[n], cap, src, tenant)
       /\ ~ u[n].full => Answered(u[n]) = {asked[k] : k \in 1 .. n}
  <2>1. n \in P /\ n <= n
    BY <1>2, <1>9
  <2> QED
    BY <1>6, <2>1
<1>11. {asked[k] : k \in 1 .. n} = ToSet(asked)
  BY <1>2 DEF ToSet
<1> QED
  BY <1>5, <1>10, <1>11

\* The state in which a reader finds the database.
Readable == WellNodes(nodes) /\ Documents /\ IsList(chunks)

LEMMA ReadableShelves ==
  ASSUME Documents
  PROVE  Shelved(source) /\ DOMAIN source = DOMAIN Source /\ \A c \in DOMAIN Source : IsList(source[c]) /\ Distinct(source[c])
<1>1. DOMAIN source = DOMAIN Source
  BY DEF Documents
<1>2. \A c \in DOMAIN Source : Listing(source[c])
  BY DEF Documents
<1>3. \A c \in DOMAIN Source : IsList(source[c]) /\ Distinct(source[c])
  BY <1>2 DEF Listing, Distinct
<1> QED
  BY <1>1, <1>2, <1>3 DEF Shelved

LEMMA OwnedBelongs ==
  ASSUME Documents, NEW q, NEW r, Owned(r, source, q.tenant)
  PROVE  Belongs(r, q)
BY DEF Owned, Belongs

-----------------------------------------------------------------------------
(* What each tool answers.                                                 *)

LEMMA AskedIs == ASSUME NEW ids, IsList(ids) PROVE IsList(Asked(ids))
<1>1. PICK I, f : I = {i \in DOMAIN ids : ids[i] # NoNode} /\ f = Picked(ids, I)
  OBVIOUS
<1>2. IsList(f)
  BY <1>1, Kept
<1>3. Asked(ids) = Upto(f, 8)
  BY <1>1 DEF Asked, Filter
<1>4. 8 \in Nat
  OBVIOUS
<1> QED
  BY <1>2, <1>3, <1>4, UptoPart

LEMMA CapIs ==
  ASSUME NEW n \in 1 .. 20, NEW otherwise
  PROVE  CapOf(n, otherwise, 20) = n
BY DEF CapOf, Larger, Smaller

LEMMA EvidenceHolds ==
  ASSUME Readable, NEW q \in Question
  PROVE  EvidenceStaysInside(q)
<1>1. q.cap \in 1 .. 20 /\ IsFiniteSet(q.ask.words) /\ IsList(q.ids)
  BY QuestionAssumption
<1>2. PICK asked : asked = Asked(q.ids)
  OBVIOUS
<1>3. IsList(asked)
  BY <1>1, <1>2, AskedIs
<1>4. WellNodes(nodes) /\ Documents /\ Shelved(source)
  BY ReadableShelves DEF Readable
<1>5. PICK cap, words, tenant, indexed : cap = q.cap /\ words = q.ask.words /\ tenant = q.tenant /\ indexed = q.indexed
  OBVIOUS
<1>6. Reads(nodes, source, tenant, words, cap, asked)
  BY <1>1, <1>3, <1>4, <1>5 DEF Reads
<1>7. PICK t : t = ReadAll(nodes, source, q.ids, tenant, words, cap, indexed)
  OBVIOUS
<1>8. Progress(t, cap, source, tenant) /\ (~ t.full => Answered(t) = ToSet(asked))
  BY <1>2, <1>6, <1>7, AllRead
<1>9. PICK e, related : e = Evidence(nodes, tenant, t) /\ related = e.related
  OBVIOUS
<1>10. RetrieveEvidence(nodes, source, q.ids, q.tenant, q.ask.words, q.cap, q.indexed) = e
  BY <1>1, <1>5, <1>7, <1>9, CapIs DEF RetrieveEvidence
<1>11. /\ e.documents = t.documents /\ e.missing = t.missing
       /\ e.read = [i \in DOMAIN t.origins |-> t.origins[i]._id]
       /\ e.related = RelatedNodes(nodes, tenant, t.origins, t.customers,
                            {t.documents[i].coll : i \in DOMAIN t.documents}, {})
  BY <1>9 DEF Evidence
<1>12. \A n \in ToSet(related) : n.tenant = tenant
  <2>1. IsList(nodes) /\ \A i \in DOMAIN nodes : nodes[i].type \in {"database", "collection", "group", "document"}
    BY <1>4 DEF WellNodes, WellNode
  <2>2. PICK hits, docs, colls : hits = t.origins /\ docs = t.customers /\ colls = {t.documents[i].coll : i \in DOMAIN t.documents}
    OBVIOUS
  <2>3. related = RelatedNodes(nodes, tenant, hits, docs, colls, {})
    BY <1>9, <1>11, <2>2
  <2> QED
    BY <2>1, <2>3, RelatedFrom
<1>13. /\ Len(e.documents) <= q.cap /\ EachOnce(e.documents) /\ \A r \in ToSet(e.documents) : Belongs(r, q)
  <2>1. /\ IsList(t.documents) /\ Distinct(t.documents) /\ Len(t.documents) <= cap
        /\ \A r \in ToSet(t.documents) : Owned(r, source, tenant)
    BY <1>8 DEF Progress
  <2>2. Cardinality(ToSet(t.documents)) = Len(t.documents)
    BY <2>1, DistinctCount
  <2>3. \A r \in ToSet(t.documents) : Belongs(r, q)
    BY <1>4, <1>5, <2>1, OwnedBelongs
  <2> QED
    BY <1>5, <1>11, <2>1, <2>2, <2>3 DEF EachOnce
<1>14. Len(e.documents) < q.cap => ToSet(e.read) \cup ToSet(e.missing) = ToSet(Asked(q.ids))
  <2>1. SUFFICES ASSUME Len(e.documents) < q.cap PROVE Answered(t) = ToSet(asked)
    BY <1>2, <1>11 DEF Answered
  <2>2. t.full => Len(t.documents) >= cap
    BY <1>8 DEF Progress
  <2>3. Len(t.documents) \in Nat /\ cap \in Nat
    <3>1. IsList(t.documents)
      BY <1>8 DEF Progress
    <3>2. Len(t.documents) \in Nat
      BY ONLY <3>1, ListIs
    <3>3. cap = q.cap /\ q.cap \in Nat
      BY <1>1, <1>5
    <3> QED
      BY <3>2, <3>3
  <2>4. Len(t.documents) < cap
    <3>1. t.documents = e.documents /\ q.cap = cap
      BY <1>5, <1>11, Zenon
    <3>2. Len(e.documents) < q.cap
      BY <2>1, Zenon
    <3> QED
      BY ONLY <3>1, <3>2
  <2>5. ~ t.full
    BY ONLY <2>2, <2>3, <2>4
  <2> QED
    BY <1>8, <2>5
<1> QED
  BY <1>5, <1>9, <1>10, <1>12, <1>13, <1>14 DEF EvidenceStaysInside, EvidenceInside

LEMMA QueriesHold ==
  ASSUME Readable, NEW q \in Question
  PROVE  QueriesAgree(q)
<1>1. q.limit \in 1 .. 20 /\ q.coll \in DOMAIN Source /\ q.limit \in Nat
  BY QuestionAssumption
<1>2. WellNodes(nodes) /\ Documents /\ Shelved(source) /\ DOMAIN source = DOMAIN Source
  BY ReadableShelves DEF Readable
<1>3. PICK c, s, tenant, filter, limit :
         c = q.coll /\ s = source[c] /\ tenant = q.tenant /\ filter = q.filter /\ limit = q.limit
  OBVIOUS
<1>4. IsList(s) /\ Distinct(s) /\ Listing(s)
  BY <1>1, <1>2, <1>3, ReadableShelves DEF Shelved
<1>5. CapOf(limit, 10, 20) = limit
  BY <1>1, <1>3, CapIs
<1>6. PICK rows, total : /\ rows = QueryNamespace(source, c, filter, tenant, limit)
                         /\ total = CountNamespace(source, c, filter, tenant)
  OBVIOUS
<1>7. PartOf(rows, s, tenant) /\ Distinct(rows) /\ Len(rows) = Smaller(limit, total)
  <2>1. IsList(source[c]) /\ Distinct(source[c]) /\ limit \in Nat
    BY <1>1, <1>3, <1>4
  <2> QED
    BY <1>3, <1>6, <2>1, QueriedAre
<1>8. PICK m \in Nat : m = Len(rows) /\ DOMAIN rows = 1 .. m
  BY <1>7, ListIs DEF PartOf
<1>9. PICK refs : refs = [k \in DOMAIN rows |-> Ref(c, rows[k])]
  OBVIOUS
<1>10. IsList(refs) /\ Len(refs) = m /\ DOMAIN refs = DOMAIN rows
  <2>1. refs = [k \in 1 .. m |-> refs[k]]
    BY <1>8, <1>9
  <2> QED
    BY <1>8, <2>1, ListOf
<1>11. \A k \in DOMAIN rows : rows[k] \in ToSet(s) /\ rows[k].tenant = tenant /\ refs[k] = Ref(c, rows[k])
  BY <1>7, <1>9 DEF PartOf, ToSet
<1>12. \A r \in ToSet(refs) : Belongs(r, q)
  <2>1. SUFFICES ASSUME NEW k \in DOMAIN rows PROVE Belongs(refs[k], q)
    BY <1>10 DEF ToSet
  <2>2. refs[k].coll = c /\ refs[k].id = rows[k]._id
    <3>1. PICK r, d : r = refs[k] /\ d = rows[k]
      OBVIOUS
    <3>2. r = Ref(c, d)
      BY <1>11, <3>1
    <3>3. r.coll = c /\ r.id = d._id
      BY <3>2 DEF Ref
    <3> QED
      BY <3>1, <3>3
  <2> QED
    BY <1>3, <1>11, <2>2 DEF Belongs
<1>13. Distinct(refs)
  <2>1. SUFFICES ASSUME NEW k \in DOMAIN rows, NEW l \in DOMAIN rows, refs[k] = refs[l] PROVE k = l
    BY <1>10 DEF Distinct
  <2>2. rows[k]._id = rows[l]._id
    <3>1. Ref(c, rows[k]) = Ref(c, rows[l])
      BY <1>11, <2>1
    <3> QED
      BY <3>1 DEF Ref
  <2>3. PICK i, j \in DOMAIN s : rows[k] = s[i] /\ rows[l] = s[j]
    BY <1>11 DEF ToSet
  <2>4. i = j
    BY <1>4, <2>2, <2>3 DEF Listing
  <2> QED
    BY <1>7, <2>3, <2>4 DEF Distinct
<1>14. Cardinality(ToSet(refs)) = Len(refs)
  BY <1>10, <1>13, DistinctCount
<1>15. PICK asked, plain, count : /\ asked = QueryDocuments(nodes, source, q.coll, q.filter, q.tenant, q.limit)
                           /\ plain = Find(source, q.coll, q.filter, q.tenant, q.limit)
                           /\ count = Count(source, q.coll, q.filter, q.tenant).count
  OBVIOUS
<1>16. plain.documents = refs
  BY <1>1, <1>2, <1>3, <1>5, <1>6, <1>9, <1>15 DEF Find
<1>17. count = total
  BY <1>1, <1>2, <1>3, <1>6, <1>15 DEF Count, Unreachable
<1>18. /\ asked.documents = refs
       /\ asked.related = IF Len(rows) > 3 THEN <<>> ELSE RelatedNodes(nodes, tenant, <<>>, rows, {c}, {c})
  BY <1>3, <1>5, <1>6, <1>9, <1>15 DEF QueryDocuments
<1>19. \A n \in ToSet(asked.related) : n.tenant = tenant /\ n.coll # c
  <2>1. IsList(nodes) /\ \A i \in DOMAIN nodes : nodes[i].type \in {"database", "collection", "group", "document"}
    BY <1>2 DEF WellNodes, WellNode
  <2>2. PICK none, skip, related : none = <<>> /\ skip = {c} /\ related = RelatedNodes(nodes, tenant, none, rows, skip, skip)
    OBVIOUS
  <2>3. \A n \in ToSet(related) : n.tenant = tenant /\ n.coll \notin skip
    BY <2>1, <2>2, RelatedFrom
  <2>4. ToSet(<<>>) = {}
    BY EmptyIsList DEF ToSet
  <2> QED
    BY <1>18, <2>2, <2>3, <2>4
<1>20. Len(refs) = Smaller(limit, total)
  BY <1>7, <1>8, <1>10
<1> QED
  BY <1>3, <1>12, <1>14, <1>15, <1>16, <1>17, <1>18, <1>19, <1>20 DEF QueriesAgree, EachOnce

-----------------------------------------------------------------------------
(* Answers from chunks, and the fusion of rankings that memory uses.       *)

LEMMA LexicalHitsAre ==
  ASSUME NEW s, IsList(s), NEW words, IsFiniteSet(words), NEW limit \in Nat
  PROVE  LET t == LexicalSearch(s, words, HitText, LAMBDA hit : TRUE, limit)
         IN  IsList(t) /\ ToSet(t) \subseteq ToSet(s)
<1>1. PICK I, f : I = {i \in DOMAIN s : TRUE /\ Hits(words, HitText(s[i])) > 0} /\ f = Picked(s, I)
  OBVIOUS
<1>2. IsList(f) /\ ToSet(f) \subseteq ToSet(s)
  BY <1>1, Kept
<1>3. PICK r : r = Relevance(f, words, HitText)
  OBVIOUS
<1>4. IsList(r) /\ ToSet(r) = ToSet(f)
  BY <1>2, <1>3, RelevantHits DEF Reordered
<1>5. LexicalSearch(s, words, HitText, LAMBDA hit : TRUE, limit) = Upto(r, limit)
  BY <1>1, <1>3 DEF LexicalSearch, Filter
<1>6. IsList(Upto(r, limit)) /\ ToSet(Upto(r, limit)) \subseteq ToSet(r)
  BY <1>4, UptoPart
<1> QED
  BY <1>2, <1>4, <1>5, <1>6

LEMMA HitsAre ==
  ASSUME NEW chs, IsList(chs), NEW words, IsFiniteSet(words), NEW tenant, NEW k \in Nat, NEW method, NEW strategy
  PROVE  LET t == RagHits(chs, words, tenant, k, method, strategy)
         IN  /\ IsList(t) /\ Len(t) <= k
             /\ \A hit \in ToSet(t) : hit.chunk \in ToSet(chs) /\ hit.chunk.tenant = tenant
<1>1. PICK placed : placed = Placed(chs)
  OBVIOUS
<1>2. IsList(placed) /\ DOMAIN placed = DOMAIN chs /\ \A i \in DOMAIN chs : placed[i].chunk = chs[i]
  <2>1. PICK n \in Nat : n = Len(chs) /\ DOMAIN chs = 1 .. n
    BY ListIs
  <2>2. placed = [i \in 1 .. n |-> [at |-> i, chunk |-> chs[i]]]
    BY <1>1, <2>1 DEF Placed
  <2>3. placed = [i \in 1 .. n |-> placed[i]]
    BY <2>2
  <2> QED
    BY <2>1, <2>2, <2>3, ListOf
<1>3. PICK I, mine : I = {i \in DOMAIN placed : placed[i].chunk.tenant = tenant} /\ mine = Picked(placed, I)
  OBVIOUS
<1>4. IsList(mine) /\ ToSet(mine) = {placed[i] : i \in I}
  BY <1>2, <1>3, Kept
<1>5. \A hit \in ToSet(mine) : hit.chunk \in ToSet(chs) /\ hit.chunk.tenant = tenant
  BY <1>2, <1>3, <1>4 DEF ToSet
<1>6. PICK r : r = Relevance(mine, words, HitText)
  OBVIOUS
<1>7. IsList(r) /\ ToSet(r) = ToSet(mine)
  BY <1>4, <1>6, RelevantHits DEF Reordered
<1>8. PICK two, semk, sem2, lex2, none : /\ two = 2 * k /\ semk = Upto(r, k) /\ sem2 = Upto(r, two)
               /\ lex2 = LexicalSearch(mine, words, HitText, LAMBDA hit : TRUE, two) /\ none = <<>>
  OBVIOUS
<1>9. two \in Nat
  BY <1>8
<1>10. IsList(semk) /\ ToSet(semk) \subseteq ToSet(mine) /\ Len(semk) <= k
  BY <1>7, <1>8, UptoPart
<1>11. IsList(sem2) /\ ToSet(sem2) \subseteq ToSet(mine)
  BY <1>7, <1>8, <1>9, UptoPart
<1>12. IsList(lex2) /\ ToSet(lex2) \subseteq ToSet(mine)
  BY <1>4, <1>8, <1>9, LexicalHitsAre
<1>13. IsList(none) /\ ToSet(none) = {}
  BY <1>8, EmptyIsList DEF ToSet
<1>14. PICK a, b : a = Fused(<<semk, none>>, k) /\ b = Fused(<<lex2, sem2>>, k)
  OBVIOUS
<1>15. IsList(a) /\ ToSet(a) \subseteq ToSet(mine) /\ Len(a) <= k
  <2>1. IsList(a) /\ ToSet(a) \subseteq ToSet(semk) \cup ToSet(none) /\ Len(a) <= k
    BY <1>10, <1>13, <1>14, FusedIs
  <2> QED
    BY <1>10, <1>13, <2>1
<1>16. IsList(b) /\ ToSet(b) \subseteq ToSet(mine) /\ Len(b) <= k
  <2>1. IsList(b) /\ ToSet(b) \subseteq ToSet(lex2) \cup ToSet(sem2) /\ Len(b) <= k
    BY <1>11, <1>12, <1>14, FusedIs
  <2> QED
    BY <1>11, <1>12, <2>1
<1>17. PICK t : t = RagHits(chs, words, tenant, k, method, strategy)
  OBVIOUS
<1>18. t \in {semk, a, b}
  <2>1. t = IF method = "vector" THEN semk ELSE IF strategy = "rank_fusion" THEN a ELSE b
    BY <1>1, <1>3, <1>6, <1>8, <1>14, <1>17 DEF RagHits, Filter
  <2> QED
    BY <2>1
<1>19. IsList(t) /\ ToSet(t) \subseteq ToSet(mine) /\ Len(t) <= k
  BY <1>10, <1>15, <1>16, <1>18
<1> QED
  BY <1>5, <1>17, <1>19

LEMMA RagHolds ==
  ASSUME Readable, NEW q \in Question
  PROVE  RagStaysInside(q)
<1>1. q.limit \in Nat /\ IsFiniteSet(q.ask.words)
  BY QuestionAssumption
<1>2. IsList(chunks)
  BY DEF Readable
<1>3. PICK words, tenant, k, method, strategy :
         /\ words = q.ask.words /\ tenant = q.tenant /\ k = q.limit /\ method = q.mode
         /\ strategy = Capabilities(q.embed, q.fusion).hybrid
  OBVIOUS
<1>4. PICK hits : hits = RagHits(chunks, words, tenant, k, method, strategy)
  OBVIOUS
<1>5. /\ IsList(hits) /\ Len(hits) <= k
      /\ \A hit \in ToSet(hits) : hit.chunk \in ToSet(chunks) /\ hit.chunk.tenant = tenant
  BY <1>1, <1>2, <1>3, <1>4, HitsAre
<1>6. PICK m \in Nat : m = Len(hits) /\ DOMAIN hits = 1 .. m
  BY <1>5, ListIs
<1>7. PICK cited : cited = [i \in DOMAIN hits |-> [coll |-> hits[i].chunk.coll, id |-> hits[i].chunk.id]]
  OBVIOUS
<1>8. IsList(cited) /\ Len(cited) = m /\ DOMAIN cited = DOMAIN hits
  <2>1. cited = [i \in 1 .. m |-> cited[i]]
    BY <1>6, <1>7
  <2> QED
    BY <1>6, <2>1, ListOf
<1>9. PICK docs : docs = Unique(cited)
  OBVIOUS
<1>10. IsList(docs) /\ ToSet(docs) = ToSet(cited) /\ Distinct(docs)
  BY <1>8, <1>9, UniqueIs DEF Distinct
<1>11. EachOnce(docs)
  BY <1>10, DistinctCount DEF EachOnce
<1>12. \A r \in ToSet(cited) : Contains(docs, r)
  <2>1. DOMAIN docs = 1 .. Len(docs)
    BY <1>10, ListIs
  <2> QED
    BY <1>10, <2>1 DEF Contains, ToSet
<1>13. \A r \in ToSet(cited) : \E ch \in ToSet(chunks) : ch.coll = r.coll /\ ch.id = r.id /\ ch.tenant = tenant
  <2>1. SUFFICES ASSUME NEW i \in DOMAIN hits
                 PROVE  \E ch \in ToSet(chunks) : ch.coll = cited[i].coll /\ ch.id = cited[i].id /\ ch.tenant = tenant
    BY <1>8 DEF ToSet
  <2>2. PICK ch : ch = hits[i].chunk
    OBVIOUS
  <2>3. ch \in ToSet(chunks) /\ ch.tenant = tenant
    BY <1>5, <2>2 DEF ToSet
  <2>4. cited[i] = [coll |-> ch.coll, id |-> ch.id]
    BY <1>7, <2>2
  <2>5. cited[i].coll = ch.coll /\ cited[i].id = ch.id
    BY <2>4
  <2> QED
    BY <2>3, <2>5
<1>14. RunRag(chunks, words, tenant, k, method, strategy) = [citations |-> cited, documents |-> docs]
  BY <1>4, <1>7, <1>9 DEF RunRag
<1>15. Len(cited) <= k
  BY <1>5, <1>6, <1>8
<1> QED
  BY <1>3, <1>11, <1>12, <1>13, <1>14, <1>15 DEF RagStaysInside

\* Rankings of all that is held, each once.
Ranks(orders, held) ==
  Rankings(orders) /\ \A l \in DOMAIN orders : ToSet(orders[l]) = ToSet(held)

\* What is put before another by the fusion is before it in one of the rankings.
LEMMA FusedFirst ==
  ASSUME NEW held, IsList(held), NEW orders, Ranks(orders, held), NEW limit \in Nat
  PROVE  LET hits == Upto(FusedOrder(held, orders), limit)
         IN  /\ IsList(hits) /\ Len(hits) = Smaller(limit, Len(held)) /\ (Distinct(held) => Distinct(hits))
             /\ \A h \in ToSet(hits), ch \in ToSet(held) \ ToSet(hits) :
                  \E o \in ToSet(orders) : FirstAt(o, h) < FirstAt(o, ch)
<1>1. Rankings(orders) /\ IsList(orders) /\ \A l \in DOMAIN orders : IsList(orders[l]) /\ ToSet(orders[l]) = ToSet(held)
  BY DEF Ranks, Rankings
<1>2. PICK n \in Nat : n = Len(held) /\ DOMAIN held = 1 .. n
  BY ListIs
<1>3. PICK sc : sc = [i \in DOMAIN held |-> FusedScore(orders, RrfK, held[i])]
  OBVIOUS
<1>4. sc \in [DOMAIN held -> Int]
  BY <1>1, <1>3, FusedNat, SearchAssumption
<1>5. PICK s : s = Arranged(held, sc)
  OBVIOUS
<1>6. s = FusedOrder(held, orders)
  BY <1>3, <1>5 DEF FusedOrder, SortedBy
<1>7. IsList(s) /\ Len(s) = n /\ ToSet(s) = ToSet(held) /\ (Distinct(held) => Distinct(s))
  BY <1>2, <1>4, <1>5, ArrangedSame
<1>8. PICK p : /\ Permutes(s, held, p)
               /\ \A k, l \in DOMAIN held : k < l => sc[p[k]] > sc[p[l]] \/ (sc[p[k]] = sc[p[l]] /\ p[k] < p[l])
  BY <1>4, <1>5, ArrangedIs
<1>9. /\ s = [k \in 1 .. n |-> held[p[k]]] /\ p \in [1 .. n -> 1 .. n]
  BY <1>2, <1>8 DEF Permutes
<1>10. PICK hits, m : hits = Upto(s, limit) /\ m = Smaller(limit, n)
  OBVIOUS
<1>11. IsList(hits) /\ Len(hits) = m /\ (Distinct(s) => Distinct(hits)) /\ \A i \in 1 .. m : hits[i] = s[i]
  BY <1>7, <1>10, UptoPart, UptoIs
<1>12. m \in Nat /\ m <= n /\ DOMAIN hits = 1 .. m
  BY <1>10, <1>11, ListIs DEF Smaller
<1>13. ASSUME NEW h \in ToSet(hits), NEW ch \in ToSet(held), ch \notin ToSet(hits)
       PROVE  \E o \in ToSet(orders) : FirstAt(o, h) < FirstAt(o, ch)
  <2>1. PICK k \in 1 .. m : h = s[k]
    BY <1>11, <1>12, <1>13 DEF ToSet
  <2>2. PICK l \in 1 .. n : ch = s[l]
    BY <1>7, <1>9, <1>13 DEF ToSet
  <2>3. l \notin 1 .. m
    BY <1>11, <1>12, <1>13, <2>2 DEF ToSet
  <2>4. k < l /\ k \in 1 .. n
    BY <1>12, <2>3
  <2>5. PICK i, j : i = p[k] /\ j = p[l]
    OBVIOUS
  <2>6. i \in 1 .. n /\ j \in 1 .. n /\ h = held[i] /\ ch = held[j]
    BY <1>9, <2>1, <2>2, <2>4, <2>5
  <2>7. sc[i] >= sc[j]
    <3>1. sc[i] > sc[j] \/ sc[i] = sc[j]
      BY <1>2, <1>8, <2>4, <2>5
    <3>2. sc[i] \in Int /\ sc[j] \in Int
      BY <1>2, <1>4, <2>6
    <3> QED
      BY <3>1, <3>2
  <2>8. PICK a, b : a = FusedScore(orders, RrfK, h) /\ b = FusedScore(orders, RrfK, ch)
    OBVIOUS
  <2>9. a \in Nat /\ b \in Nat /\ a >= b
    <3>1. sc[i] = a /\ sc[j] = b
      BY <1>2, <1>3, <2>6, <2>8
    <3>2. a \in Nat /\ b \in Nat
      BY <1>1, <2>8, FusedNat, SearchAssumption
    <3> QED
      BY <2>7, <3>1, <3>2
  <2>10. h # ch
    BY <1>13
  <2>11. SUFFICES ASSUME \A o \in ToSet(orders) : ~ (FirstAt(o, h) < FirstAt(o, ch)) PROVE FALSE
    OBVIOUS
  <2>12. h \in ToSet(held)
    BY <1>2, <2>6 DEF ToSet
  <2>13. ASSUME NEW l1 \in DOMAIN orders
         PROVE  /\ h \in ToSet(orders[l1]) /\ ch \in ToSet(orders[l1])
                /\ FirstAt(orders[l1], ch) <= FirstAt(orders[l1], h)
    <3>1. PICK o : o = orders[l1]
      OBVIOUS
    <3>2. o \in ToSet(orders) /\ IsList(o) /\ h \in ToSet(o) /\ ch \in ToSet(o)
      BY <1>1, <1>13, <2>12, <3>1 DEF ToSet
    <3>3. FirstAt(o, h) \in Nat /\ FirstAt(o, ch) \in Nat
      <4>1. FirstAt(o, h) \in 0 .. Len(o) /\ FirstAt(o, ch) \in 0 .. Len(o) /\ Len(o) \in Nat
        BY <3>2, FirstAtIs, ListIs
      <4> QED
        BY <4>1
    <3> QED
      BY <2>11, <3>1, <3>2, <3>3
  <2>14. a < b
    <3>1. RrfK \in Nat
      BY SearchAssumption
    <3>2. FusedScore(orders, RrfK, h) < FusedScore(orders, RrfK, ch)
      BY ONLY <1>1, <2>10, <2>13, <3>1, FusedLess
    <3> QED
      BY <2>8, <3>2
  <2> QED
    BY <2>9, <2>14
<1> QED
  BY <1>2, <1>6, <1>7, <1>10, <1>11, <1>13

\* A chunk held in memory has the list of words of its document.
HeldRight(held) == IsList(held) /\ \A i \in DOMAIN held : IsList(held[i].words)

LEMMA LexicallyRanked ==
  ASSUME NEW held, HeldRight(held), NEW words
  PROVE  IsList(LexicalOrder(words, held)) /\ ToSet(LexicalOrder(words, held)) = ToSet(held)
<1>1. PICK sc : sc = [i \in DOMAIN held |-> Len(Filter(held[i].words, LAMBDA w : w \in words))]
  OBVIOUS
<1>2. ASSUME NEW i \in DOMAIN held PROVE sc[i] \in Int
  <2>1. PICK t, I, f : t = held[i].words /\ I = {k \in DOMAIN t : t[k] \in words} /\ f = Picked(t, I)
    OBVIOUS
  <2>2. IsList(t)
    BY <2>1 DEF HeldRight
  <2>3. IsList(f)
    BY <2>1, <2>2, Kept
  <2>4. f = Filter(held[i].words, LAMBDA w : w \in words)
    BY <2>1 DEF Filter
  <2>5. Len(f) \in Nat
    BY <2>3, ListIs
  <2>6. sc[i] = Len(f)
    BY <1>1, <2>4
  <2> QED
    BY <2>5, <2>6
<1>3. sc \in [DOMAIN held -> Int]
  BY <1>1, <1>2
<1>4. LexicalOrder(words, held) = Arranged(held, sc)
  BY <1>1 DEF LexicalOrder, SortedBy
<1> QED
  BY <1>3, <1>4, ArrangedSame DEF HeldRight

LEMMA OrdersAre ==
  ASSUME NEW held, HeldRight(held), NEW words, IsFiniteSet(words), NEW embedder
  PROVE  Ranks(MemoryOrders(words, held, embedder), held)
<1>1. PICK lex, rel : lex = LexicalOrder(words, held) /\ rel = Relevance(held, words, ChunkText)
  OBVIOUS
<1>2. IsList(lex) /\ ToSet(lex) = ToSet(held)
  BY <1>1, LexicallyRanked
<1>3. IsList(rel) /\ ToSet(rel) = ToSet(held)
  BY <1>1, RelevantChunks DEF HeldRight, Reordered
<1>4. PICK o : o = MemoryOrders(words, held, embedder)
  OBVIOUS
<1>5. o = <<lex>> \/ o = <<lex, rel>>
  <2>1. CASE embedder
    <3>1. o = <<lex>> \o <<rel>>
      BY <1>1, <1>4, <2>1 DEF MemoryOrders
    <3>2. <<lex>> \o <<rel>> = <<lex, rel>>
      <4>1. PICK a, b, t, u : a = <<lex>> /\ b = <<rel>> /\ t = a \o b /\ u = <<lex, rel>>
        OBVIOUS
      <4>2. IsList(a) /\ Len(a) = 1 /\ IsList(b) /\ Len(b) = 1 /\ a[1] = lex /\ b[1] = rel
        BY <4>1, Single
      <4>3. IsList(t) /\ Len(t) = 2 /\ t[1] = lex /\ t[2] = rel
        BY <4>1, <4>2, Concatenated
      <4>4. u = [i \in 1 .. 2 |-> u[i]] /\ u[1] = lex /\ u[2] = rel
        BY <4>1
      <4>5. IsList(u) /\ Len(u) = 2
        BY ONLY <4>4, ListOf
      <4>6. \A i \in 1 .. Len(t) : t[i] = u[i]
        BY <4>3, <4>4
      <4>7. t = u
        BY <4>3, <4>5, <4>6, SameLists
      <4> QED
        BY <4>1, <4>7
    <3> QED
      BY <3>1, <3>2
  <2>2. CASE ~ embedder
    <3>1. o = <<lex>> \o <<>>
      BY <1>1, <1>4, <2>2 DEF MemoryOrders
    <3>2. <<lex>> \o <<>> = <<lex>>
      OBVIOUS
    <3> QED
      BY <3>1, <3>2
  <2> QED
    BY <2>1, <2>2
<1>6. IsList(o) /\ o # <<>> /\ \A l \in DOMAIN o : o[l] \in {lex, rel}
  <2>1. CASE o = <<lex>>
    <3>1. o = [i \in 1 .. 1 |-> o[i]] /\ o[1] = lex
      BY <2>1
    <3> QED
      <4>1. IsList(o) /\ DOMAIN o = 1 .. 1
        BY ONLY <3>1, ListOf
      <4>2. DOMAIN o # {}
        BY <4>1
      <4>3. o # <<>>
        BY <4>2, EmptyIsList
      <4> QED
        BY <3>1, <4>1, <4>3
  <2>2. CASE o = <<lex, rel>>
    <3>1. o = [i \in 1 .. 2 |-> o[i]] /\ o[1] = lex /\ o[2] = rel
      BY <2>2
    <3> QED
      <4>1. IsList(o) /\ DOMAIN o = 1 .. 2
        BY ONLY <3>1, ListOf
      <4>2. DOMAIN o # {}
        BY <4>1
      <4>3. o # <<>>
        BY <4>2, EmptyIsList
      <4> QED
        BY <3>1, <4>1, <4>3
  <2> QED
    BY <1>5, <2>1, <2>2
<1> QED
  BY <1>2, <1>3, <1>4, <1>6 DEF Ranks, Rankings

LEMMA MemoryIs ==
  ASSUME Documents, NEW cs, IsList(cs), ToSet(cs) \subseteq DOMAIN Source, Distinct(cs)
  PROVE  HeldRight(MemoryChunks(source, cs)) /\ Distinct(MemoryChunks(source, cs))
<1>1. PICK n \in Nat : n = Len(cs) /\ DOMAIN cs = 1 .. n
  BY ListIs
<1>2. PICK parts : parts = [i \in DOMAIN cs |->
                      Mapped(source[cs[i]], LAMBDA d : [coll |-> cs[i], id |-> d._id, words |-> d.words])]
  OBVIOUS
<1>3. PICK held : held = MemoryChunks(source, cs)
  OBVIOUS
<1>4. held = FlattenSeq(parts)
  BY <1>2, <1>3 DEF MemoryChunks
<1>5. IsList(parts) /\ DOMAIN parts = 1 .. n
  <2>1. parts = [i \in 1 .. n |-> parts[i]]
    BY <1>1, <1>2
  <2> QED
    BY <2>1, ListOf
<1>6. ASSUME NEW i \in 1 .. n
      PROVE  /\ IsList(parts[i]) /\ Distinct(parts[i])
             /\ \A ch \in ToSet(parts[i]) : ch.coll = cs[i] /\ IsList(ch.words)
  <2>1. PICK c, s, t : c = cs[i] /\ s = source[c] /\ t = parts[i]
    OBVIOUS
  <2>2. c \in DOMAIN Source
    BY <1>1, <2>1 DEF ToSet
  <2>3. Listing(s) /\ IsList(s)
    BY <2>1, <2>2 DEF Documents, Listing
  <2>4. PICK m \in Nat : m = Len(s) /\ DOMAIN s = 1 .. m
    BY <2>3, ListIs
  <2>5. t = [k \in 1 .. m |-> [coll |-> c, id |-> s[k]._id, words |-> s[k].words]]
    BY <1>1, <1>2, <2>1, <2>4 DEF Mapped
  <2>6. IsList(t) /\ DOMAIN t = 1 .. m
    <3>1. t = [k \in 1 .. m |-> t[k]]
      BY <2>5
    <3> QED
      BY <3>1, ListOf
  <2>7. ASSUME NEW k \in 1 .. m PROVE t[k].coll = c /\ t[k].id = s[k]._id /\ IsList(t[k].words)
    <3>1. t[k] = [coll |-> c, id |-> s[k]._id, words |-> s[k].words]
      BY <2>5
    <3>2. s[k] \in Document
      BY <2>3, <2>4 DEF Listing, ToSet
    <3>3. IsList(s[k].words)
      BY <3>2, DocumentAssumption
    <3> QED
      BY <3>1, <3>3
  <2>8. Distinct(t)
    <3>1. SUFFICES ASSUME NEW k \in 1 .. m, NEW l \in 1 .. m, t[k] = t[l] PROVE k = l
      BY <2>6 DEF Distinct
    <3>2. s[k]._id = s[l]._id
      BY <2>7, <3>1
    <3> QED
      BY <2>3, <2>4, <3>2 DEF Listing
  <2> QED
    BY <2>1, <2>6, <2>7, <2>8 DEF ToSet
<1>7. Apart(parts)
  <2>1. ASSUME NEW i \in 1 .. n, NEW k \in 1 .. n, i # k PROVE ToSet(parts[i]) \cap ToSet(parts[k]) = {}
    <3>1. cs[i] # cs[k]
      BY <1>1, <2>1 DEF Distinct
    <3> QED
      BY <1>6, <3>1
  <2> QED
    BY <1>5, <1>6, <2>1 DEF Apart
<1>8. IsList(held) /\ ToSet(held) = Elements(parts, DOMAIN parts) /\ Distinct(held)
  BY <1>4, <1>5, <1>6, <1>7, FlattenedIs
<1>9. ASSUME NEW i \in DOMAIN held PROVE IsList(held[i].words)
  <2>1. held[i] \in ToSet(held)
    BY DEF ToSet
  <2>2. PICK k \in DOMAIN parts : held[i] \in ToSet(parts[k])
    BY <1>8, <2>1 DEF Elements
  <2> QED
    BY <1>5, <1>6, <2>2
<1> QED
  BY <1>3, <1>8, <1>9 DEF HeldRight

LEMMA MemoryRetrievalHolds ==
  ASSUME Documents, NEW q \in Question
  PROVE  MemoryRagHolds(q)
<1>1. /\ q.limit \in Nat /\ IsFiniteSet(q.ask.words) /\ IsList(q.collections)
      /\ ToSet(q.collections) \subseteq DOMAIN Source /\ Distinct(q.collections)
  BY QuestionAssumption DEF Distinct
<1>2. PICK held, words, embedder, limit :
         /\ held = MemoryChunks(source, q.collections) /\ words = q.ask.words
         /\ embedder = (q.embed = "accepted") /\ limit = q.limit
  OBVIOUS
<1>3. HeldRight(held) /\ Distinct(held) /\ IsList(held)
  BY <1>1, <1>2, MemoryIs DEF HeldRight
<1>4. PICK orders : orders = MemoryOrders(words, held, embedder)
  OBVIOUS
<1>5. Ranks(orders, held)
  BY <1>1, <1>2, <1>3, <1>4, OrdersAre
<1>6. PICK hits : hits = Upto(FusedOrder(held, orders), limit)
  OBVIOUS
<1>7. /\ IsList(hits) /\ Len(hits) = Smaller(limit, Len(held)) /\ (Distinct(held) => Distinct(hits))
      /\ \A h \in ToSet(hits), ch \in ToSet(held) \ ToSet(hits) :
            \E o \in ToSet(orders) : FirstAt(o, h) < FirstAt(o, ch)
  BY <1>1, <1>2, <1>3, <1>5, <1>6, FusedFirst
<1>8. EachOnce(hits)
  BY <1>3, <1>7, DistinctCount DEF EachOnce
<1>9. MemoryHolds(q, held, orders, hits)
  BY <1>2, <1>7, <1>8 DEF MemoryHolds
<1>10. hits = MemoryRagSearch(held, words, limit, embedder)
  BY <1>4, <1>6 DEF MemoryRagSearch
<1> QED
  BY <1>2, <1>4, <1>9, <1>10 DEF MemoryRagHolds

-----------------------------------------------------------------------------
(* What a build plans, alone or not, is fit to be read.                    *)

LEMMA WellEach ==
  ASSUME NEW s, IsList(s)
  PROVE  WellNodes(s) <=> \A n \in ToSet(s) : WellNode(n)
BY DEF WellNodes, ToSet

LEMMA WellJoined ==
  ASSUME NEW s, WellNodes(s), NEW t, WellNodes(t)
  PROVE  WellNodes(s \o t)
<1>1. IsList(s) /\ IsList(t)
  BY DEF WellNodes
<1>2. IsList(s \o t) /\ ToSet(s \o t) = ToSet(s) \cup ToSet(t)
  BY <1>1, Concatenated, ConcatenatedSet
<1>3. \A n \in ToSet(s) \cup ToSet(t) : WellNode(n)
  BY <1>1, WellEach
<1> QED
  BY <1>2, <1>3, WellEach

LEMMA JoinedNotEmpty ==
  ASSUME NEW s, IsList(s), s # <<>>, NEW t, IsList(t)
  PROVE  s \o t # <<>>
<1>1. IsList(s \o t) /\ ToSet(s \o t) = ToSet(s) \cup ToSet(t)
  BY Concatenated, ConcatenatedSet
<1>2. ToSet(s) # {}
  BY NotEmpty
<1> QED
  BY <1>1, <1>2, NotEmpty

LEMMA WellPicked ==
  ASSUME NEW s, WellNodes(s), NEW I, I \subseteq DOMAIN s
  PROVE  WellNodes(Picked(s, I))
<1>1. IsList(s)
  BY DEF WellNodes
<1>2. IsList(Picked(s, I)) /\ ToSet(Picked(s, I)) \subseteq ToSet(s)
  BY <1>1, Kept
<1>3. \A n \in ToSet(s) : WellNode(n)
  BY <1>1, WellEach
<1> QED
  BY <1>2, <1>3, WellEach

LEMMA WellOne ==
  ASSUME NEW n, WellNode(n)
  PROVE  WellNodes(<<n>>)
<1>1. IsList(<<n>>) /\ ToSet(<<n>>) = {n}
  BY Single
<1> QED
  BY <1>1, WellEach

LEMMA WellAppended ==
  ASSUME NEW s, WellNodes(s), NEW n, WellNode(n)
  PROVE  WellNodes(Append(s, n))
<1>1. PICK t : t = Append(s, n)
  OBVIOUS
<1>2. PICK m \in Nat : m = Len(s) /\ DOMAIN s = 1 .. m
  BY ListIs DEF WellNodes
<1>3. IsList(t) /\ Len(t) = m + 1 /\ (\A i \in 1 .. m : t[i] = s[i]) /\ t[m + 1] = n
  BY <1>1, <1>2, Appended DEF WellNodes
<1>4. DOMAIN t = 1 .. m + 1
  BY <1>3, ListIs
<1>5. ASSUME NEW i \in 1 .. m + 1 PROVE WellNode(t[i])
  <2>1. CASE i = m + 1
    BY <1>3, <2>1
  <2>2. CASE i # m + 1
    <3>1. i \in 1 .. m
      BY <1>2, <2>2
    <3> QED
      BY <1>2, <1>3, <3>1 DEF WellNodes
  <2> QED
    BY <2>1, <2>2
<1> QED
  BY <1>1, <1>3, <1>4, <1>5 DEF WellNodes

LEMMA WellRest ==
  ASSUME NEW s, WellNodes(s), s # <<>>
  PROVE  WellNode(s[1]) /\ WellNodes(Tail(s)) /\ (Len(s) # 1 => Tail(s) # <<>>)
<1>1. PICK m \in Nat \ {0} : m = Len(s) /\ DOMAIN s = 1 .. m
  BY NotEmpty, ListIs DEF WellNodes
<1>2. PICK t : t = Tail(s)
  OBVIOUS
<1>3. IsList(t) /\ (m # 1 => t # <<>>)
  BY <1>1, <1>2, EmptyIsList, MovedOne DEF WellNodes
<1>4. \A i \in DOMAIN t : \E k \in DOMAIN s : t[i] = s[k]
  <2>1. s \in Seq(ToSet(s))
    BY InSeq DEF WellNodes, ToSet
  <2>2. Len(t) = m - 1 /\ \A i \in 1 .. m - 1 : t[i] = s[i + 1]
    BY <1>1, <1>2, <2>1
  <2>3. DOMAIN t = 1 .. m - 1
    BY <1>3, <2>2, ListIs
  <2>4. \A i \in 1 .. m - 1 : i + 1 \in 1 .. m
    BY <1>1
  <2> QED
    BY <1>1, <2>2, <2>3, <2>4
<1> QED
  BY <1>1, <1>2, <1>3, <1>4 DEF WellNodes

\* The node types, by the ids they come with.
LEMMA WellMade ==
  ASSUME NEW c, c = "" \/ c \in DOMAIN Source, NEW id, id # NoNode,
         NEW type \in {"database", "collection", "group", "document"},
         NEW tenant, NEW parent, NEW ids, NEW filter, NEW entities, NEW count, NEW children, NEW text
  PROVE  WellNode(Node(id, tenant, type, parent, c, ids, filter, entities, count, children, text))
BY DEF WellNode, Node

LEMMA IdsAreNodes ==
  ASSUME NEW c, NEW x
  PROVE  DbId # NoNode /\ ColId(c) # NoNode /\ GroupId(c, x) # NoNode /\ DocId(c, x) # NoNode
BY DEF DbId, ColId, GroupId, DocId, NoNode

LEMMA WellColumn ==
  ASSUME NEW c \in DOMAIN Source, NEW j, NEW count, NEW groups, IsList(groups)
  PROVE  WellNodes(CollectionNodes(c, j, count, groups))
<1>1. PICK own, rest : /\ own = Node(ColId(c), j.tenant, "collection", DbId, c, <<>>, AnyDocument, {}, count, Len(groups), Words(c))
                       /\ rest = [i \in DOMAIN groups |-> GroupNode(c, j.tenant, groups[i])]
  OBVIOUS
<1>2. WellNode(own)
  BY <1>1, IdsAreNodes, WellMade
<1>3. IsList(rest) /\ DOMAIN rest = DOMAIN groups
  <2>1. PICK n \in Nat : n = Len(groups) /\ DOMAIN groups = 1 .. n
    BY ListIs
  <2>2. rest = [i \in 1 .. n |-> rest[i]]
    BY <1>1, <2>1
  <2> QED
    BY <2>1, <2>2, ListOf
<1>4. ASSUME NEW i \in DOMAIN groups PROVE WellNode(rest[i])
  <2>1. rest[i] = GroupNode(c, j.tenant, groups[i])
    BY <1>1
  <2>2. GroupNode(c, j.tenant, groups[i])
          = Node(GroupId(c, groups[i].key), j.tenant, "group", ColId(c), c, groups[i].document_ids, groups[i].filter,
                 groups[i].entities, groups[i].document_count, 0, groups[i].terms)
    BY DEF GroupNode
  <2> QED
    BY <2>1, <2>2, IdsAreNodes, WellMade
<1>5. WellNodes(rest)
  BY <1>3, <1>4 DEF WellNodes
<1>6. WellNodes(<<own>> \o rest)
  BY <1>2, <1>5, WellOne, WellJoined
<1>7. CollectionNodes(c, j, count, groups) = <<own>> \o rest
  BY <1>1 DEF CollectionNodes
<1> QED
  BY <1>6, <1>7

LEMMA WellNamed ==
  ASSUME NEW c \in DOMAIN Source, NEW tenant, NEW docs, IsList(docs)
  PROVE  WellNodes(Named(c, tenant, docs))
<1>1. PICK rest : rest = Named(c, tenant, docs)
  OBVIOUS
<1>2. IsList(rest) /\ DOMAIN rest = DOMAIN docs
  <2>1. PICK n \in Nat : n = Len(docs) /\ DOMAIN docs = 1 .. n
    BY ListIs
  <2>2. rest = [i \in 1 .. n |-> rest[i]]
    BY <1>1, <2>1 DEF Named
  <2> QED
    BY <2>1, <2>2, ListOf
<1>3. ASSUME NEW i \in DOMAIN docs PROVE WellNode(rest[i])
  <2>1. rest[i] = CustomerNode(c, tenant, docs[i])
    BY <1>1 DEF Named
  <2>2. PICK d, f, text : d = docs[i] /\ f = [AnyDocument EXCEPT !.ids = {d._id}] /\ text = WordsOf(d)
    OBVIOUS
  <2>3. CustomerNode(c, tenant, d)
          = Node(DocId(c, d._id), tenant, "document", ColId(c), c, <<d._id>>, f, {d._id}, 1, 0, text)
    BY <2>2 DEF CustomerNode
  <2> QED
    <3>1. rest[i] = CustomerNode(c, tenant, d)
      BY <2>1, <2>2
    <3>2. DocId(c, d._id) # NoNode
      BY IdsAreNodes
    <3>3. PICK id, ids, about : id = DocId(c, d._id) /\ ids = <<d._id>> /\ about = {d._id}
      OBVIOUS
    <3>4. WellNode(Node(id, tenant, "document", ColId(c), c, ids, f, about, 1, 0, text))
      BY <3>2, <3>3, WellMade
    <3> QED
      BY <2>3, <3>1, <3>3, <3>4
<1> QED
  BY <1>1, <1>2, <1>3 DEF WellNodes

LEMMA WellRecount ==
  ASSUME NEW c, NEW batch, WellNodes(batch), NEW len
  PROVE  WellNodes(Recount(batch, c, len)) /\ (batch # <<>> => Recount(batch, c, len) # <<>>)
<1>1. PICK t : t = Recount(batch, c, len)
  OBVIOUS
<1>2. IsList(t) /\ DOMAIN t = DOMAIN batch
  <2>1. PICK n \in Nat : n = Len(batch) /\ DOMAIN batch = 1 .. n
    BY ListIs DEF WellNodes
  <2>2. t = [i \in 1 .. n |-> t[i]]
    BY <1>1, <2>1 DEF Recount
  <2> QED
    BY <2>1, <2>2, ListOf
<1>3. ASSUME NEW k \in DOMAIN batch PROVE WellNode(t[k])
  <2>1. PICK n : n = batch[k]
    OBVIOUS
  <2>2. WellNode(n)
    BY <2>1 DEF WellNodes
  <2>3. PICK u : u = [n EXCEPT !.children = @ + len]
    OBVIOUS
  <2>4. DOMAIN u = DOMAIN n /\ u.type = n.type /\ u._id = n._id /\ u.coll = n.coll
    BY <2>2, <2>3 DEF WellNode
  <2>5. WellNode(u)
    BY <2>2, <2>4 DEF WellNode
  <2>6. t[k] = u \/ t[k] = n
    BY <1>1, <2>1, <2>3 DEF Recount
  <2> QED
    BY <2>2, <2>5, <2>6
<1>4. batch # <<>> => t # <<>>
  <2>1. batch # <<>> => DOMAIN batch # {}
    BY NotEmpty DEF WellNodes
  <2> QED
    BY <1>2, <2>1, EmptyIsList
<1> QED
  BY <1>1, <1>2, <1>3, <1>4 DEF WellNodes

-----------------------------------------------------------------------------
(* The nodes stay fit to be read, whatever the workers and the edits do.   *)

\* What a build has at each of its places.
Sound(j, where, had) ==
  /\ where = "erase" => had.at = 1
  /\ where \in {"discover", "groups", "customers"} => had.at \in 1 .. Len(j.collections)
  /\ where \in {"groups", "customers", "insert"} => WellNodes(had.batch) /\ had.batch # <<>>

ReadersInv ==
  /\ WellNodes(nodes) /\ IsList(chunks)
  /\ \A w \in Worker : Build(w) => Sound(job[w], pc[w], have[w])

LEMMA ReadersInit == Init => ReadersInv
<1>1. SUFFICES ASSUME Init PROVE ReadersInv
  OBVIOUS
<1>2. IsList(<<>>) /\ DOMAIN <<>> = {}
  BY EmptyIsList
<1>3. WellNodes(nodes) /\ IsList(chunks)
  BY <1>1, <1>2 DEF Init, WellNodes
<1>4. \A w \in Worker : ~ Build(w)
  BY <1>1, IdleIs DEF Init, Build
<1> QED
  BY <1>3, <1>4 DEF ReadersInv

\* What a build that has the nodes of a collection does next.
LEMMA SoundColumn ==
  ASSUME NEW w \in Worker, NEW j \in Job, j = job[w], j.kind = "build", DOMAIN have[w] = Fields,
         NEW at, at = have[w].at, at \in 1 .. Len(j.collections), NEW batch, WellNodes(batch), batch # <<>>,
         NextColumn(w, batch)
  PROVE  \E where, had : Goto(w, where, had) /\ Sound(j, where, had)
<1>1. PICK n \in Nat : n = Len(j.collections)
  BY ListIs, JobAssumption
<1>2. PICK where, had : /\ where = (IF at = n THEN "insert" ELSE "groups")
                        /\ had = [have[w] EXCEPT !.batch = batch, !.at = IF at = n THEN 1 ELSE @ + 1]
  OBVIOUS
<1>3. Goto(w, where, had)
  BY <1>1, <1>2 DEF NextColumn
<1>4. had.batch = batch /\ had.at = IF at = n THEN 1 ELSE at + 1
  BY <1>2 DEF Fields
<1>5. where = "groups" => had.at \in 1 .. n
  BY <1>1, <1>2, <1>4
<1>6. Sound(j, where, had)
  BY <1>1, <1>2, <1>4, <1>5 DEF Sound
<1> QED
  BY <1>3, <1>6

\* The next step of a build, and what it has by then.
LEMMA SoundMoves ==
  ASSUME ReadersInv, Control, Documents, NEW w \in Worker, Build(w), Step(w), ~ Start(w), NEW j, j = job[w]
  PROVE  \E where, had : Goto(w, where, had) /\ Sound(j, where, had)
<1>1. j \in Job /\ j.kind = "build" /\ w \in Running /\ DOMAIN have[w] = Fields
  <2>1. j \in Job /\ j.kind = "build" /\ pc[w] \in PlacesOf(j.kind) /\ DOMAIN have[w] = Fields
    BY IdleIs DEF Control, Fits, Build
  <2> QED
    BY <2>1 DEF PlacesOf, Running
<1>2. pc[w] \in {"erase", "discover", "groups", "customers", "insert"}
  BY <1>1 DEF Control, Fits, PlacesOf, Running
<1>3. Sound(j, pc[w], have[w])
  BY DEF ReadersInv
<1>4. Crash(w) \/ EraseTree(w) \/ Discover(w) \/ Collect(w) \/ Customers(w) \/ InsertNode(w)
  BY <1>1, <1>2 DEF Step, FindDirty, ReadMembers, DeleteDirty, EraseChunks, Chunk, InsertChunk, Build
<1>5. PICK n \in Nat \ {0} : n = Len(j.collections) /\ DOMAIN j.collections = 1 .. n
  <2>1. IsList(j.collections) /\ j.collections # <<>>
    BY <1>1, JobAssumption
  <2> QED
    BY <2>1, ListIs, NotEmpty
<1>6. CASE Crash(w)
  BY <1>6 DEF Crash, Sound
<1>7. CASE EraseTree(w)
  <2>1. Goto(w, "discover", have[w]) /\ pc[w] = "erase"
    BY <1>7 DEF EraseTree
  <2>2. have[w].at = 1
    BY <1>3, <2>1 DEF Sound
  <2>3. Sound(j, "discover", have[w])
    BY <1>5, <2>2 DEF Sound
  <2> QED
    BY <2>1, <2>3
<1>8. CASE Discover(w)
  <2>1. PICK at, count : at = have[w].at /\ count = Append(have[w].count, Len(source[j.collections[at]]))
    OBVIOUS
  <2>2. at \in 1 .. n
    BY <1>3, <1>5, <1>8, <2>1 DEF Discover, Sound
  <2>3. PICK where, had :
          /\ where = (IF at = n THEN "groups" ELSE "discover")
          /\ had = [have[w] EXCEPT !.count = count, !.at = IF at = n THEN 1 ELSE @ + 1,
                                  !.batch = IF at = n THEN <<DbNode(j, count)>> ELSE @]
    OBVIOUS
  <2>4. Goto(w, where, had)
    BY <1>5, <1>8, <2>1, <2>3 DEF Discover, Column
  <2>5. had.at \in 1 .. n
    BY <1>1, <1>5, <2>1, <2>2, <2>3 DEF Fields
  <2>6. PICK root : root = DbNode(j, count)
    OBVIOUS
  <2>7. WellNode(root)
    <3>1. PICK sum : sum = SumFunction(count)
      OBVIOUS
    <3>2. root = Node(DbId, j.tenant, "database", NoNode, "", <<>>, AnyDocument, {}, sum, Len(j.collections), {})
      BY <2>6, <3>1 DEF DbNode
    <3> QED
      BY <3>2, IdsAreNodes, WellMade
  <2>8. where = "groups" => WellNodes(had.batch) /\ had.batch # <<>>
    <3>1. where = "groups" => had.batch = <<root>>
      BY <1>1, <2>3, <2>6 DEF Fields
    <3>2. <<root>> # <<>>
      OBVIOUS
    <3> QED
      BY <2>7, <3>1, <3>2, WellOne
  <2>9. Sound(j, where, had)
    BY <1>5, <2>3, <2>5, <2>8 DEF Sound
  <2> QED
    BY <2>4, <2>9
<1>9. CASE Collect(w)
  <2>1. PICK at, c, count, before : /\ at = have[w].at /\ c = j.collections[at] /\ count = have[w].count[at]
                                    /\ before = have[w].batch
    OBVIOUS
  <2>2. at \in 1 .. n /\ WellNodes(before) /\ before # <<>>
    BY <1>3, <1>5, <1>9, <2>1 DEF Collect, Sound
  <2>3. c \in ToSet(j.collections) /\ c \in DOMAIN Source
    <3>1. c \in ToSet(j.collections)
      BY <1>5, <2>1, <2>2 DEF ToSet
    <3> QED
      BY <1>1, <3>1, JobAssumption
  <2>4. PICK groups, more, batch :
          /\ groups = SetToSeq(GroupsFor(c, j)) /\ more = CollectionNodes(c, j, count, groups)
          /\ batch = before \o more
    OBVIOUS
  <2>5. IsList(groups)
    <3>1. IsFiniteSet(GroupsFor(c, j))
      BY <1>1, <2>3, GroupsForWell DEF Well
    <3> QED
      BY <2>4, <3>1, SetToSeqIs
  <2>6. WellNodes(more)
    BY <2>3, <2>4, <2>5, WellColumn
  <2>7. WellNodes(batch)
    BY <2>2, <2>4, <2>6, WellJoined
  <2>8. batch # <<>>
    BY <2>2, <2>4, <2>6, JoinedNotEmpty DEF WellNodes
  <2>9. \/ Goto(w, "customers", [have[w] EXCEPT !.batch = batch])
        \/ NextColumn(w, batch)
    BY <1>9, <2>1, <2>4 DEF Collect, Column
  <2>10. CASE Goto(w, "customers", [have[w] EXCEPT !.batch = batch])
    <3>1. PICK had : had = [have[w] EXCEPT !.batch = batch]
      OBVIOUS
    <3>2. had.batch = batch /\ had.at = at
      BY <1>1, <2>1, <3>1 DEF Fields
    <3>3. Sound(j, "customers", had)
      BY <1>5, <2>2, <2>7, <2>8, <3>2 DEF Sound
    <3> QED
      BY <2>10, <3>1, <3>3
  <2>11. CASE NextColumn(w, batch)
    BY <1>1, <1>5, <2>1, <2>2, <2>7, <2>8, <2>11, SoundColumn
  <2> QED
    BY <2>9, <2>10, <2>11
<1>10. CASE Customers(w)
  <2>1. PICK at, c : at = have[w].at /\ c = j.collections[at]
    OBVIOUS
  <2>2. PICK docs, batch, len : docs = Slice(c, j.tenant, 0) /\ batch = have[w].batch /\ len = have[w].count[at]
    OBVIOUS
  <2>3. at \in 1 .. n /\ WellNodes(batch) /\ batch # <<>>
    BY <1>3, <1>5, <1>10, <2>1, <2>2 DEF Customers, Sound
  <2>4. c \in DOMAIN Source
    <3>1. c \in ToSet(j.collections)
      BY <1>5, <2>1, <2>3 DEF ToSet
    <3> QED
      BY <1>1, <3>1, JobAssumption
  <2>5. PICK full, rest : full = Recount(batch, c, len) /\ rest = Named(c, j.tenant, docs)
    OBVIOUS
  <2>6. NextColumn(w, full \o rest)
    BY <1>10, <2>1, <2>2, <2>5 DEF Customers, Column, Recount, Named
  <2>7. IsList(docs)
    BY <2>2, <2>4, SliceIs DEF Listing
  <2>8. WellNodes(full) /\ full # <<>> /\ WellNodes(rest)
    BY <2>3, <2>4, <2>5, <2>7, WellRecount, WellNamed
  <2>9. WellNodes(full \o rest) /\ full \o rest # <<>>
    BY <2>8, WellJoined, JoinedNotEmpty DEF WellNodes
  <2> QED
    BY <1>1, <1>5, <2>1, <2>3, <2>6, <2>9, SoundColumn
<1>11. CASE InsertNode(w)
  <2>1. PICK batch, where, had :
           /\ batch = have[w].batch
           /\ where \in {"raised", "done", "insert"} /\ (where = "insert" => Len(batch) # 1)
           /\ had = [have[w] EXCEPT !.batch = Tail(@)] /\ Goto(w, where, had)
    BY <1>11 DEF InsertNode
  <2>2. WellNodes(batch) /\ batch # <<>>
    BY <1>3, <1>11, <2>1 DEF InsertNode, Sound
  <2>3. WellNodes(Tail(batch)) /\ (Len(batch) # 1 => Tail(batch) # <<>>)
    BY <2>2, WellRest
  <2>4. had.batch = Tail(batch)
    BY <1>1, <2>1 DEF Fields
  <2>5. Sound(j, where, had)
    BY <2>1, <2>3, <2>4 DEF Sound
  <2> QED
    BY <2>1, <2>5
<1> QED
  BY <1>4, <1>6, <1>7, <1>8, <1>9, <1>10, <1>11

LEMMA NodesStayWell ==
  ASSUME ReadersInv, [Next]_vars
  PROVE  WellNodes(nodes')
<1>1. WellNodes(nodes)
  BY DEF ReadersInv
<1>2. ASSUME NEW I, I \subseteq DOMAIN nodes, nodes' = Picked(nodes, I) PROVE WellNodes(nodes')
  BY <1>1, <1>2, WellPicked
<1>3. CASE EditSource \/ UNCHANGED vars
  BY <1>1, <1>3 DEF EditSource, vars
<1>4. ASSUME NEW w \in Worker, EraseTree(w) PROVE WellNodes(nodes')
  <2>1. PICK I : I = {i \in DOMAIN nodes : nodes[i].tenant # job[w].tenant}
    OBVIOUS
  <2>2. nodes' = Picked(nodes, I)
    BY <1>4, <2>1 DEF EraseTree, Filter
  <2> QED
    BY <1>2, <2>1, <2>2
<1>5. ASSUME NEW w \in Worker, DeleteDirty(w) PROVE WellNodes(nodes')
  <2>1. PICK I : I = {i \in DOMAIN nodes : nodes[i]._id # have[w].dirty[have[w].at]._id}
    OBVIOUS
  <2>2. nodes' = Picked(nodes, I)
    BY <1>5, <2>1 DEF DeleteDirty, Filter
  <2> QED
    BY <1>2, <2>1, <2>2
<1>6. ASSUME NEW w \in Worker, InsertNode(w) PROVE WellNodes(nodes')
  <2>1. PICK batch, n : batch = have[w].batch /\ n = batch[1]
    OBVIOUS
  <2>2. nodes' = nodes \/ nodes' = Append(nodes, n)
    BY <1>6, <2>1 DEF InsertNode
  <2>3. WellNodes(batch) /\ batch # <<>>
    BY <1>6, <2>1 DEF InsertNode, ReadersInv, Sound
  <2>4. WellNode(n)
    BY <2>1, <2>3, WellRest
  <2> QED
    BY <1>1, <2>2, <2>4, WellAppended
<1>7. ASSUME NEW w \in Worker, Step(w), ~ EraseTree(w), ~ DeleteDirty(w), ~ InsertNode(w) PROVE nodes' = nodes
  BY <1>7 DEF Step, Start, Crash, Discover, Collect, NextColumn, Customers, FindDirty, ReadMembers, EraseChunks,
       Chunk, InsertChunk
<1> QED
  BY <1>1, <1>3, <1>4, <1>5, <1>6, <1>7 DEF Next

LEMMA ChunksStayList ==
  ASSUME IsList(chunks), [Next]_vars
  PROVE  IsList(chunks')
<1>1. ASSUME NEW w \in Worker, EraseChunks(w) PROVE IsList(chunks')
  <2>1. PICK I : I = {i \in DOMAIN chunks : ~ Stale(job[w], chunks[i])}
    OBVIOUS
  <2>2. chunks' = Picked(chunks, I)
    BY <1>1, <2>1 DEF EraseChunks, Filter
  <2> QED
    BY <2>1, <2>2, Kept
<1>2. ASSUME NEW w \in Worker, InsertChunk(w) PROVE IsList(chunks')
  <2>1. PICK ch : ch = have[w].batch[1]
    OBVIOUS
  <2>2. chunks' = Append(chunks, ch)
    BY <1>2, <2>1 DEF InsertChunk
  <2>3. IsList(Append(chunks, ch))
    BY Appended
  <2> QED
    BY <2>2, <2>3
<1>3. ASSUME NEW w \in Worker, Step(w), ~ EraseChunks(w), ~ InsertChunk(w) PROVE chunks' = chunks
  BY <1>3 DEF Step, Start, Crash, EraseTree, Discover, Collect, NextColumn, Customers, InsertNode, FindDirty,
       ReadMembers, DeleteDirty, Chunk
<1>4. CASE EditSource \/ UNCHANGED vars
  BY <1>4 DEF EditSource, vars
<1> QED
  BY <1>1, <1>2, <1>3, <1>4 DEF Next

LEMMA ReadersNext ==
  ASSUME ReadersInv, Control, Documents, [Next]_vars
  PROVE  ReadersInv'
<1>1. WellNodes(nodes') /\ IsList(chunks')
  BY NodesStayWell, ChunksStayList DEF ReadersInv
<1>2. CASE EditSource \/ UNCHANGED vars
  <2>1. job' = job /\ pc' = pc /\ have' = have
    BY <1>2 DEF EditSource, vars, worker
  <2> QED
    BY <1>1, <2>1 DEF ReadersInv, Build
<1>3. ASSUME NEW w \in Worker, Start(w) PROVE ReadersInv'
  <2>1. PICK j \in Job : /\ pc[w] = "idle" /\ job' = [job EXCEPT ![w] = j]
                         /\ pc' = [pc EXCEPT ![w] = CASE j.kind = "dirty" -> "find" [] OTHER -> "erase"]
                         /\ have' = have
    BY <1>3 DEF Start
  <2>2. have[w] = Nothing
    BY <2>1, IdleIs DEF Control, Fits, PlacesOf
  <2>3. ASSUME NEW v \in Worker, Build(v)' PROVE Sound(job'[v], pc'[v], have'[v])
    <3>1. CASE v = w
      <4>1. pc'[v] \in {"find", "erase"} /\ have'[v].at = 1
        BY <2>1, <2>2, <3>1 DEF Control, Nothing
      <4> QED
        BY <4>1 DEF Sound
    <3>2. CASE v # w
      <4>1. job'[v] = job[v] /\ pc'[v] = pc[v] /\ have'[v] = have[v]
        BY <2>1, <3>2 DEF Control
      <4> QED
        BY <2>3, <4>1 DEF ReadersInv, Build
    <3> QED
      BY <3>1, <3>2
  <2> QED
    BY <1>1, <2>3 DEF ReadersInv
<1>4. ASSUME NEW w \in Worker, Step(w), ~ Start(w), Moves(w) PROVE ReadersInv'
  <2>1. PICK where, had : Goto(w, where, had) /\ (Build(w) => Sound(job[w], where, had))
    <3>1. CASE Build(w)
      BY <1>4, <3>1, SoundMoves
    <3>2. CASE ~ Build(w)
      BY <1>4, <3>2 DEF Moves
    <3> QED
      BY <3>1, <3>2
  <2>2. ASSUME NEW v \in Worker, Build(v)' PROVE Sound(job'[v], pc'[v], have'[v])
    <3>1. CASE v = w /\ where \in Over
      BY <2>1, <2>2, <3>1, OthersStay, IdleIs DEF Build
    <3>2. CASE v = w /\ where \notin Over
      <4>1. pc'[w] = where /\ job'[w] = job[w] /\ have'[w] = had
        BY <2>1, <3>2, OthersStay
      <4> QED
        BY <2>1, <2>2, <3>2, <4>1 DEF Build
    <3>3. CASE v # w
      <4>1. job'[v] = job[v] /\ pc'[v] = pc[v] /\ have'[v] = have[v]
        BY <2>1, <3>3, OthersStay
      <4> QED
        BY <2>2, <4>1 DEF ReadersInv, Build
    <3> QED
      BY <3>1, <3>2, <3>3
  <2> QED
    BY <1>1, <2>2 DEF ReadersInv
<1> QED
  BY <1>2, <1>3, <1>4, StepMoves DEF Next

\* Whatever state a reader finds the tree, the chunks and the documents in, with any number
\* of workers building, deleting and dying and any edits in between, what each tool of
\* app/retrieval/tools.py and each control returns stays inside what was asked for: the
\* children of the node and the tenant that a search names; documents of the tenant that
\* exist, once each and within the cap, with every node accounted for; the same documents
\* from a query and from the plain find; citations of the tenant's chunks; and from memory
\* the chunks that some ranking prefers to those left out.
THEOREM ReadersStayInside == Spec => []ReadsStayInside
<1>1. Init => Control /\ Documents /\ ReadersInv
  BY ControlInit, DocumentsInit, ReadersInit
<1>2. Control /\ Documents /\ ReadersInv /\ [Next]_vars => (Control /\ Documents /\ ReadersInv)'
  BY ControlNext, DocumentsNext, ReadersNext
<1>3. ASSUME ReadersInv, Documents PROVE ReadsStayInside
  <2>1. Readable
    BY <1>3 DEF ReadersInv, Readable
  <2>2. ASSUME NEW q \in Question PROVE SearchStaysInside(q)
    <3>1. q.limit \in Nat /\ IsFiniteSet(q.ask.words)
      BY QuestionAssumption
    <3>2. PICK strategy, ask, mode, tenant, limit :
             /\ strategy = Capabilities(q.embed, q.fusion).hybrid /\ ask = q.ask /\ mode = q.mode
             /\ tenant = q.tenant /\ limit = q.limit
      OBVIOUS
    <3>3. SUFFICES ASSUME NEW i \in DOMAIN nodes,
                          NEW n \in ToSet(SearchInformation(nodes, ask, mode, tenant, nodes[i]._id, limit, strategy).results)
                   PROVE  n.tenant = tenant /\ n.parent = nodes[i]._id
      BY <3>2 DEF SearchStaysInside
    <3>4. PICK s : s = nodes[i]._id
      OBVIOUS
    <3>5. IsList(nodes) /\ s # NoNode
      BY <2>1, <3>4 DEF Readable, WellNodes, WellNode
    <3> QED
      BY <3>1, <3>2, <3>3, <3>4, <3>5, SearchInside
  <2> QED
    BY <1>3, <2>1, <2>2, EvidenceHolds, QueriesHold, RagHolds, MemoryRetrievalHolds DEF ReadsStayInside
<1> QED
  BY <1>1, <1>2, <1>3, PTL DEF Spec

\* What ended last is a job, and a worker that goes on or dies only names its own.
EndedInv == ended.job \in Job \cup {Idle}

LEMMA EndedNext == Control /\ EndedInv /\ [Next]_vars => EndedInv'
<1>1. SUFFICES ASSUME Control, EndedInv, [Next]_vars PROVE EndedInv'
  OBVIOUS
<1>2. ASSUME ended' = NoneEnded \/ ended' = ended PROVE EndedInv'
  BY <1>1, <1>2 DEF EndedInv, NoneEnded, Ended
<1>3. ASSUME NEW w \in Worker, Step(w), ~ Start(w) PROVE EndedInv'
  <2>1. PICK where, had : Goto(w, where, had)
    BY <1>1, <1>3, StepMoves DEF Moves
  <2>2. job[w] \in Job \cup {Idle}
    BY <1>1 DEF Control
  <2>3. ended' = NoneEnded \/ ended'.job = job[w]
    BY <2>1 DEF Goto, Ended
  <2> QED
    BY <1>2, <2>2, <2>3 DEF EndedInv
<1> QED
  BY <1>1, <1>2, <1>3 DEF Next, vars, EditSource, Start

\* Every variable keeps to its values, whatever the workers, jobs and edits: a worker is
\* at a place of the program, what ended is a job, and no edit adds a collection.
THEOREM TypeCorrect == Spec => []TypeOK
<1>1. Init => Control /\ Documents /\ ReadersInv /\ EndedInv
  BY ControlInit, DocumentsInit, ReadersInit DEF Init, EndedInv, NoneEnded, Ended
<1>2. Control /\ Documents /\ ReadersInv /\ EndedInv /\ [Next]_vars
        => (Control /\ Documents /\ ReadersInv /\ EndedInv)'
  BY ControlNext, DocumentsNext, ReadersNext, EndedNext
<1>3. Control /\ Documents /\ ReadersInv /\ EndedInv => TypeOK
  BY DEF Control, Places, Documents, ReadersInv, WellNodes, WellNode, EndedInv, TypeOK
<1> QED
  BY <1>1, <1>2, <1>3, PTL DEF Spec

=============================================================================
