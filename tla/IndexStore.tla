----------------------------- MODULE IndexStore -----------------------------
(***************************************************************************)
(* Saving and loading the generic index (app/indexing/signals/store.py).   *)
(*                                                                         *)
(* A save stages its rows under a fresh build id, checks that they are     *)
(* stored, points the one catalog row at the build and then deletes the    *)
(* rows of every other build.  MongoDB gives no transaction around these   *)
(* calls: each find, each replace_one and each single row of an            *)
(* insert_many or delete_many is a step here, and a save may fail or its   *)
(* process may die between any two of them.  Readers load the catalog,     *)
(* the cards and the vectors with three separate finds.                    *)
(***************************************************************************)
EXTENDS IndexData

CONSTANTS
  Build,       \* build ids; each call of save_generic_index draws a new one
  Legacy,      \* the id "" of rows written before builds had ids
  Reader,      \* processes that load the saved index
  NoCatalog,   \* the catalog collection has no active row
  Serial,      \* BOOLEAN: operators run at most one save at a time
  LostAck      \* BOOLEAN: replace_one may be applied and still raise

ASSUME StoreAssumption ==
  /\ Legacy \notin Build
  /\ Serial \in BOOLEAN
  /\ LostAck \in BOOLEAN

BuildId == Build \cup {Legacy}

Catalog == [build : BuildId, cols : SUBSET Entry, model : Model \cup {NoModel}]

ASSUME CatalogAssumption == NoCatalog \notin Catalog

VARIABLES
  (* the database *)
  catalog,     \* the active row of generic_catalog, or NoCatalog
  cards,       \* generic_cards: build id -> its card rows
  vectors,     \* generic_nav_vectors: build id -> its vector rows
  (* one save per build id *)
  pc,          \* the save's next step
  index,       \* the index being saved
  model,       \* contract of the save's embedder
  source,      \* the catalog row the save read (to upgrade, to reuse vectors)
  prior,       \* vectors of that build, candidates for reuse
  todo,        \* rows the running insert_many or delete_many has left
  (* readers *)
  rpc,         \* the reader's next step
  bundle       \* what load_generic_bundle has read so far, and the status

store  == <<catalog, cards, vectors>>
job    == <<index, model, source, prior>>
reader == <<rpc, bundle>>
vars   == <<store, pc, job, todo, reader>>

(* The steps of a save, in program order. *)
Loading  == {"loadCards"}
Staging  == {"findPrevious", "readPrevious", "embed", "putVectors",
             "checkVectors", "putCards", "checkCards", "publish"}
Dropping == {"dropCards", "dropVectors"}
Undoing  == {"undoCards", "undoVectors"}
Running  == Loading \cup Staging \cup Dropping \cup Undoing
Ended    == {"done", "failed", "raised", "crashed"}

PC == {"idle"} \cup Running \cup Ended

Statuses == {"none", "missing", "unavailable", "lexical_only", "ready"}

Bundle == [catalog : Catalog \cup {NoCatalog}, cards : SUBSET Entry,
           vectors : SUBSET Vector, model : Model \cup {NoModel},
           status : Statuses]

TypeOK ==
  /\ catalog \in Catalog \cup {NoCatalog}
  /\ cards \in [BuildId -> SUBSET Entry]
  /\ vectors \in [BuildId -> SUBSET Vector]
  /\ pc \in [Build -> PC]
  /\ index \in [BuildId -> Shape]
  /\ model \in [Build -> Model \cup {NoModel}]
  /\ source \in [Build -> Catalog \cup {NoCatalog}]
  /\ prior \in [Build -> SUBSET Vector]
  /\ todo \in [Build -> SUBSET (BuildId \X (Entry \cup Vector))]
  /\ rpc \in [Reader -> {"idle", "readCards", "readVectors", "loaded"}]
  /\ bundle \in [Reader -> Bundle]

NoShape  == [cards |-> {}, cols |-> {}]
NoBundle == [catalog |-> NoCatalog, cards |-> {}, vectors |-> {},
             model |-> NoModel, status |-> "none"]

\* A cluster with no saved index, or with one saved before builds had ids.
Init ==
  /\ \/ /\ catalog = NoCatalog
        /\ index = [b \in BuildId |-> NoShape]
     \/ \E i \in Index :
          /\ catalog = [build |-> Legacy, cols |-> i.cols, model |-> NoModel]
          /\ index = [b \in BuildId |-> IF b = Legacy THEN i ELSE NoShape]
  /\ cards = [b \in BuildId |-> index[b].cards]
  /\ vectors = [b \in BuildId |-> {}]
  /\ pc = [b \in Build |-> "idle"]
  /\ model = [b \in Build |-> NoModel]
  /\ source = [b \in Build |-> NoCatalog]
  /\ prior = [b \in Build |-> {}]
  /\ todo = [b \in Build |-> {}]
  /\ rpc = [r \in Reader |-> "idle"]
  /\ bundle = [r \in Reader |-> NoBundle]

-----------------------------------------------------------------------------
(* Starting a save. *)

Goto(b, from, to) ==
  /\ pc[b] = from
  /\ pc' = [pc EXCEPT ![b] = to]

MayStart(b) ==
  /\ pc[b] = "idle"
  /\ Serial => \A o \in Build : pc[o] \notin Running

CardRows(b, i) == {b} \X i.cards

\* index_database: the collections are read and grouped, then saved.  With no
\* usable embedder the save goes straight to the cards.
IndexDatabase(b, i, m) ==
  /\ MayStart(b)
  /\ pc' = [pc EXCEPT ![b] = IF m = NoModel THEN "putCards" ELSE "findPrevious"]
  /\ index' = [index EXCEPT ![b] = i]
  /\ model' = [model EXCEPT ![b] = m]
  /\ todo' = [todo EXCEPT ![b] = IF m = NoModel THEN CardRows(b, i) ELSE {}]
  /\ UNCHANGED <<store, source, prior, reader>>

\* upgrade_vectors: the saved index is loaded instead of the collections.
\* Without a saved index it raises before anything is written.
UpgradeVectors(b, m) ==
  /\ MayStart(b)
  /\ pc' = [pc EXCEPT ![b] = IF catalog = NoCatalog THEN "failed" ELSE "loadCards"]
  /\ model' = [model EXCEPT ![b] = m]
  /\ source' = [source EXCEPT ![b] = catalog]
  /\ UNCHANGED <<store, index, prior, todo, reader>>

\* load_generic_bundle: the cards of the build the catalog row names.
LoadCards(b) ==
  /\ Goto(b, "loadCards", "findPrevious")
  /\ index' = [index EXCEPT ![b] = [cards |-> cards[source[b].build],
                                    cols  |-> source[b].cols]]
  /\ UNCHANGED <<store, model, source, prior, todo, reader>>

-----------------------------------------------------------------------------
(* Staging the rows: _stage_build. *)

\* Mutant of FindPrevious: the contract is not compared.
FindPreviousAnyModel(b) ==
  /\ pc[b] = "findPrevious"
  /\ pc' = [pc EXCEPT ![b] = IF catalog # NoCatalog /\ catalog.model # NoModel
                             THEN "readPrevious" ELSE "embed"]
  /\ source' = [source EXCEPT ![b] = catalog]
  /\ UNCHANGED <<store, index, model, prior, todo, reader>>

\* _reusable_vectors, first read: vectors of the active build may be reused
\* only if it was embedded under this save's contract.
FindPrevious(b) ==
  /\ pc[b] = "findPrevious"
  /\ pc' = [pc EXCEPT ![b] = IF catalog # NoCatalog /\ catalog.model = model[b]
                             THEN "readPrevious" ELSE "embed"]
  /\ source' = [source EXCEPT ![b] = catalog]
  /\ UNCHANGED <<store, index, model, prior, todo, reader>>

\* _reusable_vectors, second read.
ReadPrevious(b) ==
  /\ Goto(b, "readPrevious", "embed")
  /\ prior' = [prior EXCEPT ![b] = vectors[source[b].build]]
  /\ UNCHANGED <<store, index, model, source, todo, reader>>

\* Mutant of Records: text_hash is not compared.
RecordsIgnoringText(b) ==
  {v \in prior[b] : \E e \in NavNodes(index[b]) : v.node = e.node}
    \cup VectorsOf({e \in NavNodes(index[b]) :
                      ~\E v \in prior[b] : v.node = e.node}, model[b])

\* embed_nav_nodes: a stored vector is kept when node and text are the same,
\* every other node is embedded.
Records(b) ==
  LET kept == {v \in prior[b] :
                 \E e \in NavNodes(index[b]) : v.node = e.node /\ v.text = e.text}
      rest == {e \in NavNodes(index[b]) :
                 ~\E v \in kept : v.node = e.node /\ v.text = e.text}
  IN  kept \cup VectorsOf(rest, model[b])

\* Mutant of Embed: the nodes are inserted instead of their vectors.
EmbedWithoutVectors(b) ==
  /\ Goto(b, "embed", "putVectors")
  /\ todo' = [todo EXCEPT ![b] = {b} \X NavNodes(index[b])]
  /\ prior' = [prior EXCEPT ![b] = {}]
  /\ source' = [source EXCEPT ![b] = NoCatalog]
  /\ UNCHANGED <<store, index, model, reader>>

\* The rows to insert are ready; the previous build's vectors are let go.
Embed(b) ==
  /\ Goto(b, "embed", "putVectors")
  /\ todo' = [todo EXCEPT ![b] = {b} \X Records(b)]
  /\ prior' = [prior EXCEPT ![b] = {}]
  /\ source' = [source EXCEPT ![b] = NoCatalog]
  /\ UNCHANGED <<store, index, model, reader>>

\* One row of insert_many(vector_rows).
PutVector(b) ==
  /\ pc[b] = "putVectors"
  /\ \E row \in todo[b] :
       /\ vectors' = [vectors EXCEPT ![b] = @ \cup {row[2]}]
       /\ todo' = [todo EXCEPT ![b] = @ \ {row}]
  /\ UNCHANGED <<catalog, cards, pc, job, reader>>

PutVectorsEnd(b) ==
  /\ todo[b] = {}
  /\ Goto(b, "putVectors", "checkVectors")
  /\ UNCHANGED <<store, job, todo, reader>>

\* The rows are read back and counted.  A build's rows are among the inserted
\* ones, one per node, so the counts agree when every node has its row.
CheckVectors(b) ==
  /\ {v.node : v \in vectors[b]} = {e.node : e \in NavNodes(index[b])}
  /\ Goto(b, "checkVectors", "putCards")
  /\ todo' = [todo EXCEPT ![b] = CardRows(b, index[b])]
  /\ UNCHANGED <<store, job, reader>>

\* One row of insert_many(card_rows).
PutCard(b) ==
  /\ pc[b] = "putCards"
  /\ \E row \in todo[b] :
       /\ cards' = [cards EXCEPT ![b] = @ \cup {row[2]}]
       /\ todo' = [todo EXCEPT ![b] = @ \ {row}]
  /\ UNCHANGED <<catalog, vectors, pc, job, reader>>

PutCardsEnd(b) ==
  /\ todo[b] = {}
  /\ Goto(b, "putCards", "checkCards")
  /\ UNCHANGED <<store, job, todo, reader>>

CheckCards(b) ==
  /\ {e.node : e \in cards[b]} = {e.node : e \in index[b].cards}
  /\ Goto(b, "checkCards", "publish")
  /\ UNCHANGED <<store, job, todo, reader>>

-----------------------------------------------------------------------------
(* Publishing, and deleting the rows of the losing builds. *)

CatalogRow(b) == [build |-> b, cols |-> index[b].cols, model |-> model[b]]

CardRowsOf(builds)   == UNION {{o} \X cards[o] : o \in builds}
VectorRowsOf(builds) == UNION {{o} \X vectors[o] : o \in builds}

\* Mutant of Publish: only the rows of the build just replaced are deleted.
PublishDroppingPrevious(b) ==
  /\ Goto(b, "publish", "dropCards")
  /\ catalog' = CatalogRow(b)
  /\ todo' = [todo EXCEPT ![b] = IF catalog = NoCatalog THEN {}
                                ELSE CardRowsOf({catalog.build})]
  /\ UNCHANGED <<cards, vectors, job, reader>>

\* catalog.replace_one: one document, so readers see the old row or the new.
Publish(b) ==
  /\ Goto(b, "publish", "dropCards")
  /\ catalog' = CatalogRow(b)
  /\ todo' = [todo EXCEPT ![b] = CardRowsOf(BuildId \ {b})]
  /\ UNCHANGED <<cards, vectors, job, reader>>

\* The server applied replace_one but the call raised (the connection went
\* away): the save treats its build as failed.
PublishUnacknowledged(b) ==
  /\ LostAck
  /\ Goto(b, "publish", "undoCards")
  /\ catalog' = CatalogRow(b)
  /\ todo' = [todo EXCEPT ![b] = CardRowsOf({b})]
  /\ UNCHANGED <<cards, vectors, job, reader>>

\* One row of delete_many on generic_cards, in _drop_other_builds or
\* _drop_build.
DeleteCard(b) ==
  /\ pc[b] \in {"dropCards", "undoCards"}
  /\ \E row \in todo[b] :
       /\ cards' = [cards EXCEPT ![row[1]] = @ \ {row[2]}]
       /\ todo' = [todo EXCEPT ![b] = @ \ {row}]
  /\ UNCHANGED <<catalog, vectors, pc, job, reader>>

\* The delete on generic_cards returned; the one on generic_nav_vectors
\* starts.
DeleteCardsEnd(b) ==
  /\ todo[b] = {}
  /\ \/ /\ Goto(b, "dropCards", "dropVectors")
        /\ todo' = [todo EXCEPT ![b] = VectorRowsOf(BuildId \ {b})]
     \/ /\ Goto(b, "undoCards", "undoVectors")
        /\ todo' = [todo EXCEPT ![b] = VectorRowsOf({b})]
  /\ UNCHANGED <<store, job, reader>>

DeleteVector(b) ==
  /\ pc[b] \in {"dropVectors", "undoVectors"}
  /\ \E row \in todo[b] :
       /\ vectors' = [vectors EXCEPT ![row[1]] = @ \ {row[2]}]
       /\ todo' = [todo EXCEPT ![b] = @ \ {row}]
  /\ UNCHANGED <<catalog, cards, pc, job, reader>>

DeleteVectorsEnd(b) ==
  /\ todo[b] = {}
  /\ \/ Goto(b, "dropVectors", "done")
     \/ Goto(b, "undoVectors", "failed")
  /\ UNCHANGED <<store, job, todo, reader>>

-----------------------------------------------------------------------------
(* Failures and crashes. *)

\* Mutant of StageFails: the clean-up is not limited to the build's own rows.
StageFailsDroppingAll(b) ==
  /\ pc[b] \in Staging
  /\ pc' = [pc EXCEPT ![b] = "undoCards"]
  /\ todo' = [todo EXCEPT ![b] = CardRowsOf(BuildId)]
  /\ UNCHANGED <<store, job, reader>>

\* Any call of _stage_build raises, or a check of it does: save_generic_index
\* deletes the build's own rows.
StageFails(b) ==
  /\ pc[b] \in Staging
  /\ pc' = [pc EXCEPT ![b] = "undoCards"]
  /\ todo' = [todo EXCEPT ![b] = CardRowsOf({b})]
  /\ UNCHANGED <<store, job, reader>>

\* A call outside the try block raises and nothing cleans up: the load of an
\* upgrade, _drop_build itself, or _drop_other_builds of a published build.
CallRaises(b) ==
  /\ pc[b] \in Loading \cup Undoing \cup Dropping
  /\ pc' = [pc EXCEPT ![b] = IF pc[b] \in Dropping THEN "raised" ELSE "failed"]
  /\ todo' = [todo EXCEPT ![b] = {}]
  /\ UNCHANGED <<store, job, reader>>

Crash(b) ==
  /\ pc[b] \in Running
  /\ pc' = [pc EXCEPT ![b] = "crashed"]
  /\ todo' = [todo EXCEPT ![b] = {}]
  /\ UNCHANGED <<store, job, reader>>

-----------------------------------------------------------------------------
(* Loading: load_generic_bundle and _resolve_semantic.  A reader comes with *)
(* its own query embedder.                                                  *)

LoadCatalog(r, m) ==
  /\ rpc[r] \in {"idle", "loaded"}
  /\ rpc' = [rpc EXCEPT ![r] = IF catalog = NoCatalog THEN "loaded" ELSE "readCards"]
  /\ bundle' = [bundle EXCEPT ![r] =
       [NoBundle EXCEPT !.catalog = catalog,
                        !.model = m,
                        !.status = IF catalog = NoCatalog THEN "missing" ELSE "none"]]
  /\ UNCHANGED <<store, pc, job, todo>>

LoadBundleCards(r) ==
  /\ rpc[r] = "readCards"
  /\ rpc' = [rpc EXCEPT ![r] = "readVectors"]
  /\ bundle' = [bundle EXCEPT ![r].cards = cards[bundle[r].catalog.build]]
  /\ UNCHANGED <<store, pc, job, todo>>

BundleNodes(bun) == bun.cards \cup bun.catalog.cols

\* Mutant of Semantic: the asker's embedder is not compared.
SemanticAnyModel(bun) ==
  IF bun.catalog.build = Legacy THEN "unavailable"
  ELSE IF bun.catalog.model = NoModel THEN "lexical_only"
  ELSE IF \A e \in BundleNodes(bun) : \E v \in bun.vectors : v.node = e.node
  THEN "ready" ELSE "unavailable"

\* Saved vectors are used only under the contract they were built with, and
\* only if every node has one.
Semantic(bun) ==
  IF bun.catalog.build = Legacy THEN "unavailable"
  ELSE IF bun.catalog.model = NoModel THEN "lexical_only"
  ELSE IF /\ bun.model = bun.catalog.model
          /\ \A e \in BundleNodes(bun) : \E v \in bun.vectors : v.node = e.node
  THEN "ready" ELSE "unavailable"

LoadBundleVectors(r) ==
  LET bun == [bundle[r] EXCEPT !.vectors = IF bundle[r].catalog.build = Legacy
                                           THEN {}
                                           ELSE vectors[bundle[r].catalog.build]]
  IN  /\ rpc[r] = "readVectors"
      /\ rpc' = [rpc EXCEPT ![r] = "loaded"]
      /\ bundle' = [bundle EXCEPT ![r] = [bun EXCEPT !.status = Semantic(bun)]]
      /\ UNCHANGED <<store, pc, job, todo>>

-----------------------------------------------------------------------------
Stage(b) ==
  \/ FindPrevious(b) \/ ReadPrevious(b) \/ Embed(b)
  \/ PutVector(b) \/ PutVectorsEnd(b) \/ CheckVectors(b)
  \/ PutCard(b) \/ PutCardsEnd(b) \/ CheckCards(b)

Save(b) ==
  \/ \E i \in Index, m \in Model \cup {NoModel} : IndexDatabase(b, i, m)
  \/ \E m \in Model : UpgradeVectors(b, m)
  \/ LoadCards(b)
  \/ Stage(b)
  \/ Publish(b) \/ PublishUnacknowledged(b)
  \/ DeleteCard(b) \/ DeleteCardsEnd(b)
  \/ DeleteVector(b) \/ DeleteVectorsEnd(b)
  \/ StageFails(b) \/ CallRaises(b) \/ Crash(b)

Load(r) ==
  \/ \E m \in Model \cup {NoModel} : LoadCatalog(r, m)
  \/ LoadBundleCards(r)
  \/ LoadBundleVectors(r)

Next ==
  \/ \E b \in Build : Save(b)
  \/ \E r \in Reader : Load(r)

Spec == Init /\ [][Next]_vars

-----------------------------------------------------------------------------
(* Properties. *)

\* The index the catalog points at is whole: every card that was saved, and
\* the vector of every node when it was embedded.  This is what the checks
\* before replace_one, the order publish-then-drop and the clean-up limited
\* to the failed build's own rows are for.
ActiveIndexComplete ==
  catalog # NoCatalog =>
    /\ cards[catalog.build] = index[catalog.build].cards
    /\ catalog.model # NoModel =>
         vectors[catalog.build] =
           VectorsOf(NavNodes(index[catalog.build]), catalog.model)

\* A bundle reported "ready" pairs each node it serves with a vector of that
\* node's own text under the asker's contract - although vectors are reused
\* across builds, and although cards and vectors are read by two finds while
\* saves insert and delete rows.  The code itself only looks up node ids and
\* compares dimensions.
ReadyVectorsMatch ==
  \A r \in Reader : bundle[r].status = "ready" =>
    \A e \in BundleNodes(bundle[r]) : \A v \in bundle[r].vectors :
      v.node = e.node => v.text = e.text /\ v.model = bundle[r].model

\* Build ids never return, so a reader that sees the same catalog row before
\* and after its three finds has read the whole index: a changed catalog row
\* is the only way a load can be torn.
UnchangedCatalogMeansWhole ==
  \A r \in Reader :
    rpc[r] = "loaded" /\ catalog # NoCatalog /\ bundle[r].catalog = catalog =>
      /\ bundle[r].cards = index[catalog.build].cards
      /\ catalog.model # NoModel /\ bundle[r].model = catalog.model =>
           bundle[r].status = "ready"

\* A save that returns leaves no row of any other build: what crashed or
\* failed saves (and legacy builds) left behind is gone.
DoneSavesSweep ==
  [][\A b \in Build : pc[b] # "done" /\ pc'[b] = "done" =>
       \A o \in BuildId \ {b} : cards'[o] = {} /\ vectors'[o] = {}]_vars

\* Readers of the catalog see one index replaced atomically by another whole
\* one: the store implements PublishedIndex.
Visible ==
  IF catalog = NoCatalog THEN NoCatalog
  ELSE [cards   |-> cards[catalog.build],
        cols    |-> catalog.cols,
        model   |-> catalog.model,
        vectors |-> IF catalog.model = NoModel THEN {} ELSE vectors[catalog.build]]

Abstract == INSTANCE PublishedIndex WITH visible <- Visible

\* The specification of PublishedIndex, as a property of this one.
ImplementsPublishedIndex == Abstract!Spec

\* store.py:111, "A failed build leaves the previous active catalog in
\* place": the catalog never names a build that is being undone.
FailedBuildKeepsCatalog ==
  \A b \in Build : pc[b] \in Undoing => (catalog # NoCatalog => catalog.build # b)

\* store.py:1-4, "A later ask loads the cards": a finished load holds the
\* cards of the build its catalog row named.
LoadedBundleIsWhole ==
  \A r \in Reader : rpc[r] = "loaded" /\ bundle[r].catalog # NoCatalog =>
    bundle[r].cards = index[bundle[r].catalog.build].cards
=============================================================================
