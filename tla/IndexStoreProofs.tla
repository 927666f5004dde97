-------------------------- MODULE IndexStoreProofs --------------------------
(***************************************************************************)
(* Proofs about IndexStore, for every set of builds, readers, indexes and  *)
(* embedding contracts.                                                    *)
(***************************************************************************)
EXTENDS IndexStore, TLAPS

-----------------------------------------------------------------------------
(* Data. *)

\* Embedding entries yields vectors.
LEMMA VectorsOfType ==
  ASSUME NEW S \in SUBSET Entry, NEW m \in Model
  PROVE  VectorsOf(S, m) \in SUBSET Vector
BY DEF VectorsOf, Entry, Vector

\* The nodes of an index are entries.
LEMMA NavNodesType ==
  ASSUME NEW i \in Shape
  PROVE  NavNodes(i) \in SUBSET Entry
BY DEF NavNodes, Shape

\* An index the code can build has the shape of one.
LEMMA IndexIsShape == ASSUME NEW i \in Index PROVE i \in Shape
BY IndexAssumption

\* The card rows of a build are rows of entries.
LEMMA CardRowsType ==
  ASSUME TypeOK, NEW B \in SUBSET BuildId
  PROVE  CardRowsOf(B) \in SUBSET (BuildId \X (Entry \cup Vector))
BY DEF TypeOK, CardRowsOf

\* The vector rows of a build are rows of vectors.
LEMMA VectorRowsType ==
  ASSUME TypeOK, NEW B \in SUBSET BuildId
  PROVE  VectorRowsOf(B) \in SUBSET (BuildId \X (Entry \cup Vector))
BY DEF TypeOK, VectorRowsOf

\* What a save inserts are vectors.
LEMMA RecordsType ==
  ASSUME TypeOK, NEW b \in Build, model[b] \in Model
  PROVE  Records(b) \in SUBSET Vector
<1>1. index[b] \in Shape  BY DEF TypeOK, BuildId
<1>2. prior[b] \in SUBSET Vector  BY DEF TypeOK
<1> QED  BY <1>1, <1>2, NavNodesType, VectorsOfType DEF Records

-----------------------------------------------------------------------------
(* Which saves have an embedder.  The rows a save inserts are well typed    *)
(* because a save that embeds has a contract.                               *)

Embedding == {"loadCards", "findPrevious", "readPrevious", "embed",
              "putVectors", "checkVectors"}

\* A row's payload belongs to the collection the running call works on, and
\* a load or a reuse goes through a catalog row that exists.
Shaped ==
  /\ \A b \in Build :
       /\ pc[b] \in Embedding => model[b] \in Model
       /\ pc[b] \in {"loadCards", "readPrevious"} => source[b] # NoCatalog
       /\ pc[b] = "putVectors" => todo[b] \subseteq BuildId \X Vector
       /\ pc[b] = "putCards" => todo[b] \subseteq BuildId \X Entry
  /\ \A r \in Reader :
       rpc[r] \in {"readCards", "readVectors"} => bundle[r].catalog # NoCatalog

Typed == TypeOK /\ Shaped

\* The typing invariant holds of an empty and of a legacy store.
LEMMA InitTyped == Init => Typed
<1> SUFFICES ASSUME Init PROVE Typed  OBVIOUS
<1>1. NoShape \in Shape  BY DEF NoShape, Shape
<1>2. index \in [BuildId -> Shape]
  BY <1>1, IndexIsShape DEF Init, BuildId
<1>3. catalog \in Catalog \cup {NoCatalog}
  <2>1. CASE catalog = NoCatalog  BY <2>1
  <2>2. CASE \E i \in Index :
                catalog = [build |-> Legacy, cols |-> i.cols, model |-> NoModel]
    BY <2>2, IndexIsShape DEF Catalog, BuildId, Shape
  <2> QED  BY <2>1, <2>2 DEF Init
<1>4. cards \in [BuildId -> SUBSET Entry]
  BY <1>2 DEF Init, Shape
<1>5. NoBundle \in Bundle
  BY DEF NoBundle, Bundle, Statuses
<1> QED
  BY <1>2, <1>3, <1>4, <1>5
  DEF Typed, Shaped, Embedding, TypeOK, Init, PC, Running, Ended

\* Every step of a save or of a load keeps the typing invariant.
LEMMA StepTyped == Typed /\ [Next]_vars => Typed'
<1> SUFFICES ASSUME Typed, [Next]_vars PROVE Typed'  OBVIOUS
<1> USE DEF Typed, vars, store, job, reader
<1>0. TypeOK  OBVIOUS
<1>t. /\ catalog \in Catalog \cup {NoCatalog}
      /\ cards \in [BuildId -> SUBSET Entry]
      /\ vectors \in [BuildId -> SUBSET Vector]
      /\ pc \in [Build -> PC]
      /\ index \in [BuildId -> Shape]
      /\ model \in [Build -> Model \cup {NoModel}]
      /\ source \in [Build -> Catalog \cup {NoCatalog}]
      /\ prior \in [Build -> SUBSET Vector]
      /\ todo \in [Build -> SUBSET (BuildId \X (Entry \cup Vector))]
      /\ rpc \in [Reader -> {"idle", "readCards", "readVectors", "loaded"}]
      /\ bundle \in [Reader -> Bundle]
  BY DEF TypeOK
<1>p. PC = {"idle", "loadCards", "findPrevious", "readPrevious", "embed",
            "putVectors", "checkVectors", "putCards", "checkCards", "publish",
            "dropCards", "dropVectors", "undoCards", "undoVectors",
            "done", "failed", "raised", "crashed"}
  BY DEF PC, Running, Loading, Staging, Dropping, Undoing, Ended
<1>1. ASSUME NEW b \in Build, NEW i \in Index, NEW m \in Model \cup {NoModel},
             IndexDatabase(b, i, m)
      PROVE  Typed'
  <2>1. i \in Shape  BY IndexIsShape
  <2>2. CardRows(b, i) \in SUBSET (BuildId \X Entry)
    BY <2>1 DEF CardRows, Shape, BuildId
  <2>3. TypeOK'
    BY <1>1, <1>t, <1>p, <2>1, <2>2 DEF IndexDatabase, TypeOK, BuildId
  <2>4. Shaped'
    BY <1>1, <1>t, <1>p, <2>2 DEF IndexDatabase, Shaped, Embedding
  <2> QED  BY <2>3, <2>4
<1>2. ASSUME NEW b \in Build, NEW m \in Model, UpgradeVectors(b, m)
      PROVE  Typed'
  <2>1. TypeOK'  BY <1>2, <1>t, <1>p DEF UpgradeVectors, TypeOK
  <2>2. Shaped'  BY <1>2, <1>t, <1>p DEF UpgradeVectors, Shaped, Embedding
  <2> QED  BY <2>1, <2>2
<1>3. ASSUME NEW b \in Build, LoadCards(b)
      PROVE  Typed'
  <2>1. source[b] \in Catalog
    BY <1>3, <1>t DEF LoadCards, Goto, Shaped
  <2>2. [cards |-> cards[source[b].build], cols |-> source[b].cols] \in Shape
    BY <2>1, <1>t DEF Catalog, Shape
  <2>3. TypeOK'  BY <1>3, <1>t, <1>p, <2>2 DEF LoadCards, Goto, TypeOK, BuildId
  <2>4. Shaped'  BY <1>3, <1>t, <1>p DEF LoadCards, Goto, Shaped, Embedding
  <2> QED  BY <2>3, <2>4
<1>4. ASSUME NEW b \in Build, FindPrevious(b)
      PROVE  Typed'
  <2>1. TypeOK'  BY <1>4, <1>t, <1>p DEF FindPrevious, TypeOK
  <2>2. Shaped'  BY <1>4, <1>t, <1>p DEF FindPrevious, Shaped, Embedding
  <2> QED  BY <2>1, <2>2
<1>5. ASSUME NEW b \in Build, ReadPrevious(b)
      PROVE  Typed'
  <2>1. source[b].build \in BuildId
    BY <1>5, <1>t DEF ReadPrevious, Goto, Shaped, Catalog
  <2>2. TypeOK'  BY <1>5, <1>t, <1>p, <2>1 DEF ReadPrevious, Goto, TypeOK
  <2>3. Shaped'  BY <1>5, <1>t, <1>p DEF ReadPrevious, Goto, Shaped, Embedding
  <2> QED  BY <2>2, <2>3
<1>6. ASSUME NEW b \in Build, Embed(b)
      PROVE  Typed'
  <2>1. model[b] \in Model  BY <1>6 DEF Embed, Goto, Shaped, Embedding
  <2>2. {b} \X Records(b) \in SUBSET (BuildId \X Vector)
    BY <2>1, <1>0, RecordsType DEF BuildId
  <2>3. TypeOK'  BY <1>6, <1>t, <1>p, <2>2 DEF Embed, Goto, TypeOK
  <2>4. Shaped'  BY <1>6, <1>t, <1>p, <2>2 DEF Embed, Goto, Shaped, Embedding
  <2> QED  BY <2>3, <2>4
<1>7. ASSUME NEW b \in Build, PutVector(b)
      PROVE  Typed'
  <2>1. PICK row \in todo[b] :
          /\ vectors' = [vectors EXCEPT ![b] = @ \cup {row[2]}]
          /\ todo' = [todo EXCEPT ![b] = @ \ {row}]
    BY <1>7 DEF PutVector
  <2>2. row[2] \in Vector  BY <1>7 DEF PutVector, Shaped
  <2>3. TypeOK'  BY <1>7, <1>t, <2>1, <2>2 DEF PutVector, TypeOK, BuildId
  <2>4. Shaped'  BY <1>7, <1>t, <2>1 DEF PutVector, Shaped
  <2> QED  BY <2>3, <2>4
<1>8. ASSUME NEW b \in Build, PutVectorsEnd(b)
      PROVE  Typed'
  <2>1. TypeOK'  BY <1>8, <1>t, <1>p DEF PutVectorsEnd, Goto, TypeOK
  <2>2. Shaped'  BY <1>8, <1>t, <1>p DEF PutVectorsEnd, Goto, Shaped, Embedding
  <2> QED  BY <2>1, <2>2
<1>9. ASSUME NEW b \in Build, CheckVectors(b)
      PROVE  Typed'
  <2>1. CardRows(b, index[b]) \in SUBSET (BuildId \X Entry)
    BY <1>t DEF CardRows, Shape, BuildId
  <2>2. TypeOK'  BY <1>9, <1>t, <1>p, <2>1 DEF CheckVectors, Goto, TypeOK
  <2>3. Shaped'
    BY <1>9, <1>t, <1>p, <2>1 DEF CheckVectors, Goto, Shaped, Embedding
  <2> QED  BY <2>2, <2>3
<1>10. ASSUME NEW b \in Build, PutCard(b)
       PROVE  Typed'
  <2>1. PICK row \in todo[b] :
          /\ cards' = [cards EXCEPT ![b] = @ \cup {row[2]}]
          /\ todo' = [todo EXCEPT ![b] = @ \ {row}]
    BY <1>10 DEF PutCard
  <2>2. row[2] \in Entry  BY <1>10 DEF PutCard, Shaped
  <2>3. TypeOK'  BY <1>10, <1>t, <2>1, <2>2 DEF PutCard, TypeOK, BuildId
  <2>4. Shaped'  BY <1>10, <1>t, <2>1 DEF PutCard, Shaped
  <2> QED  BY <2>3, <2>4
<1>11. ASSUME NEW b \in Build, PutCardsEnd(b) \/ CheckCards(b)
       PROVE  Typed'
  <2>1. TypeOK'  BY <1>11, <1>t, <1>p DEF PutCardsEnd, CheckCards, Goto, TypeOK
  <2>2. Shaped'
    BY <1>11, <1>t, <1>p DEF PutCardsEnd, CheckCards, Goto, Shaped, Embedding
  <2> QED  BY <2>1, <2>2
<1>12. ASSUME NEW b \in Build, Publish(b) \/ PublishUnacknowledged(b)
       PROVE  Typed'
  <2>1. CatalogRow(b) \in Catalog
    BY <1>t DEF CatalogRow, Catalog, BuildId, Shape
  <2>2. /\ CardRowsOf(BuildId \ {b}) \in SUBSET (BuildId \X (Entry \cup Vector))
        /\ CardRowsOf({b}) \in SUBSET (BuildId \X (Entry \cup Vector))
    BY <1>0, CardRowsType DEF BuildId
  <2>3. TypeOK'
    <3>1. CASE Publish(b)
      BY <3>1, <1>t, <1>p, <2>1, <2>2 DEF Publish, Goto, TypeOK
    <3>2. CASE PublishUnacknowledged(b)
      BY <3>2, <1>t, <1>p, <2>1, <2>2 DEF PublishUnacknowledged, Goto, TypeOK
    <3> QED  BY <1>12, <3>1, <3>2
  <2>4. Shaped'
    BY <1>12, <1>t, <1>p DEF Publish, PublishUnacknowledged, Goto, Shaped, Embedding
  <2> QED  BY <2>3, <2>4
<1>13. ASSUME NEW b \in Build, DeleteCard(b)
       PROVE  Typed'
  <2>1. PICK row \in todo[b] :
          /\ cards' = [cards EXCEPT ![row[1]] = @ \ {row[2]}]
          /\ todo' = [todo EXCEPT ![b] = @ \ {row}]
    BY <1>13 DEF DeleteCard
  <2>2. row[1] \in BuildId  BY <1>t
  <2>3. TypeOK'  BY <1>13, <1>t, <2>1, <2>2 DEF DeleteCard, TypeOK
  <2>4. Shaped'  BY <1>13, <1>t, <2>1 DEF DeleteCard, Shaped
  <2> QED  BY <2>3, <2>4
<1>14. ASSUME NEW b \in Build, DeleteVector(b)
       PROVE  Typed'
  <2>1. PICK row \in todo[b] :
          /\ vectors' = [vectors EXCEPT ![row[1]] = @ \ {row[2]}]
          /\ todo' = [todo EXCEPT ![b] = @ \ {row}]
    BY <1>14 DEF DeleteVector
  <2>2. row[1] \in BuildId  BY <1>t
  <2>3. TypeOK'  BY <1>14, <1>t, <2>1, <2>2 DEF DeleteVector, TypeOK
  <2>4. Shaped'  BY <1>14, <1>t, <2>1 DEF DeleteVector, Shaped
  <2> QED  BY <2>3, <2>4
<1>15. ASSUME NEW b \in Build, DeleteCardsEnd(b) \/ DeleteVectorsEnd(b)
       PROVE  Typed'
  <2>1. /\ VectorRowsOf(BuildId \ {b}) \in SUBSET (BuildId \X (Entry \cup Vector))
        /\ VectorRowsOf({b}) \in SUBSET (BuildId \X (Entry \cup Vector))
    BY <1>0, VectorRowsType DEF BuildId
  <2>2. TypeOK'
    <3>1. CASE DeleteCardsEnd(b)
      <4>1. pc' \in [Build -> PC]
        BY <3>1, <1>t, <1>p DEF DeleteCardsEnd, Goto
      <4>2. todo' \in [Build -> SUBSET (BuildId \X (Entry \cup Vector))]
        BY <3>1, <1>t, <2>1 DEF DeleteCardsEnd
      <4> QED  BY <3>1, <1>t, <4>1, <4>2 DEF DeleteCardsEnd, TypeOK
    <3>2. CASE DeleteVectorsEnd(b)
      BY <3>2, <1>t, <1>p DEF DeleteVectorsEnd, Goto, TypeOK
    <3> QED  BY <1>15, <3>1, <3>2
  <2>3. Shaped'
    BY <1>15, <1>t, <1>p DEF DeleteCardsEnd, DeleteVectorsEnd, Goto, Shaped, Embedding
  <2> QED  BY <2>2, <2>3
<1>16. ASSUME NEW b \in Build, StageFails(b) \/ CallRaises(b) \/ Crash(b)
       PROVE  Typed'
  <2>1. CardRowsOf({b}) \in SUBSET (BuildId \X (Entry \cup Vector))
    BY <1>0, CardRowsType DEF BuildId
  <2>2. TypeOK'
    BY <1>16, <1>t, <1>p, <2>1 DEF StageFails, CallRaises, Crash, TypeOK
  <2>3. Shaped'
    BY <1>16, <1>t, <1>p DEF StageFails, CallRaises, Crash, Shaped, Embedding
  <2> QED  BY <2>2, <2>3
<1>17. ASSUME NEW r \in Reader, NEW m \in Model \cup {NoModel}, LoadCatalog(r, m)
       PROVE  Typed'
  <2>1. [NoBundle EXCEPT !.catalog = catalog, !.model = m,
           !.status = IF catalog = NoCatalog THEN "missing" ELSE "none"] \in Bundle
    BY <1>t DEF NoBundle, Bundle, Statuses
  <2>2. TypeOK'  BY <1>17, <1>t, <2>1 DEF LoadCatalog, TypeOK
  <2>3. Shaped'  BY <1>17, <1>t DEF LoadCatalog, Shaped, NoBundle
  <2> QED  BY <2>2, <2>3
<1>18. ASSUME NEW r \in Reader, LoadBundleCards(r)
       PROVE  Typed'
  <2>1. bundle[r].catalog \in Catalog
    BY <1>18, <1>t DEF LoadBundleCards, Shaped, Bundle
  <2>2. cards[bundle[r].catalog.build] \in SUBSET Entry
    BY <2>1, <1>t DEF Catalog
  <2>3. TypeOK'  BY <1>18, <1>t, <2>2 DEF LoadBundleCards, TypeOK, Bundle
  <2>4. Shaped'  BY <1>18, <1>t DEF LoadBundleCards, Shaped, Bundle
  <2> QED  BY <2>3, <2>4
<1>19. ASSUME NEW r \in Reader, LoadBundleVectors(r)
       PROVE  Typed'
  <2> DEFINE found == IF bundle[r].catalog.build = Legacy THEN {}
                      ELSE vectors[bundle[r].catalog.build]
             bun == [bundle[r] EXCEPT !.vectors = found]
  <2>1. bundle[r].catalog \in Catalog
    BY <1>19, <1>t DEF LoadBundleVectors, Shaped, Bundle
  <2>2. found \in SUBSET Vector  BY <2>1, <1>t DEF Catalog
  <2>3. bun \in Bundle  BY <2>2, <1>t DEF Bundle
  <2>4. Semantic(bun) \in Statuses  BY DEF Semantic, Statuses
  <2>5. [bun EXCEPT !.status = Semantic(bun)] \in Bundle
    BY <2>3, <2>4 DEF Bundle
  <2>6. bundle' = [bundle EXCEPT ![r] = [bun EXCEPT !.status = Semantic(bun)]]
    BY <1>19 DEF LoadBundleVectors
  <2>7. TypeOK'  BY <1>19, <1>t, <2>5, <2>6 DEF LoadBundleVectors, TypeOK
  <2>8. Shaped'  BY <1>19, <1>t, <2>6 DEF LoadBundleVectors, Shaped
  <2> QED  BY <2>7, <2>8
<1>20. CASE UNCHANGED vars
  BY <1>20 DEF TypeOK, Shaped
<1> QED
  BY <1>1, <1>2, <1>3, <1>4, <1>5, <1>6, <1>7, <1>8, <1>9, <1>10, <1>11, <1>12,
     <1>13, <1>14, <1>15, <1>16, <1>17, <1>18, <1>19, <1>20
  DEF Next, Save, Stage, Load

\* The typing invariant holds in every state of the store.
LEMMA AlwaysTyped == Spec => []Typed
BY InitTyped, StepTyped, PTL DEF Spec

\* Every variable keeps its type, with any number of saves at once and
\* whatever fails: the state of store.py's collections and callers.
THEOREM TypeCorrect == Spec => []TypeOK
<1>1. Typed => TypeOK  BY DEF Typed
<1> QED  BY <1>1, AlwaysTyped, PTL

-----------------------------------------------------------------------------
(* Where rows come from.  This invariant needs neither Serial nor reliable  *)
(* acknowledgements: it holds with any number of saves at once.             *)

\* Saves that have not fixed the index they will write.
Undecided == {"idle", "loadCards"}

\* A build's rows belong to the index it was given, and were embedded under
\* the contract it was given.
RowsOfBuild ==
  /\ vectors[Legacy] = {}
  /\ \A b \in BuildId : OneTextPerNode(index[b]) /\ cards[b] \subseteq index[b].cards
  /\ \A b \in Build : vectors[b] \subseteq VectorsOf(NavNodes(index[b]), model[b])

FreshBuilds ==
  /\ \A b \in Build : pc[b] \in Undecided => cards[b] = {} /\ vectors[b] = {}
  /\ \A b \in Build : pc[b] = "idle" => prior[b] = {}

\* A catalog row read at any time describes a build whose index is fixed.
Known(c) ==
  c # NoCatalog =>
    /\ c.cols = index[c.build].cols
    /\ c.build = Legacy => c.model = NoModel
    /\ c.build # Legacy => c.model = model[c.build] /\ pc[c.build] \notin Undecided

KnownCatalogs ==
  /\ Known(catalog)
  /\ \A b \in Build : Known(source[b])
  /\ \A r \in Reader : Known(bundle[r].catalog)

\* The rows in flight, and the vectors picked for reuse.
RowsInFlight ==
  \A b \in Build :
    /\ pc[b] = "putVectors" => \A row \in todo[b] :
         row[2] \in VectorsOf(NavNodes(index[b]), model[b])
    /\ pc[b] = "putCards" => \A row \in todo[b] : row[2] \in index[b].cards
    /\ pc[b] = "readPrevious" => source[b].model = model[b]
    /\ \A v \in prior[b] : v.model = model[b]

\* What a reader holds are rows of the build its catalog row names.
Bundles ==
  \A r \in Reader :
    /\ bundle[r].status = "ready" =>
         bundle[r].catalog # NoCatalog /\ bundle[r].model = bundle[r].catalog.model
    /\ bundle[r].catalog # NoCatalog =>
         LET i == index[bundle[r].catalog.build]
         IN  /\ bundle[r].cards \subseteq i.cards
             /\ bundle[r].vectors \subseteq
                  VectorsOf(NavNodes(i), bundle[r].catalog.model)

Provenance ==
  /\ Typed
  /\ RowsOfBuild
  /\ FreshBuilds
  /\ KnownCatalogs
  /\ RowsInFlight
  /\ Bundles

\* A step of save b that leaves the catalog and the readers alone keeps what
\* is known of every catalog row read so far, and what the readers hold.
LEMMA KnownStays ==
  ASSUME TypeOK, TypeOK', KnownCatalogs, NEW b \in Build,
         \A o \in BuildId : o # b \/ pc[b] \notin Undecided => index'[o] = index[o],
         \A o \in Build : o # b \/ pc[b] \notin Undecided => model'[o] = model[o],
         \A o \in Build : pc[o] \notin Undecided => pc'[o] \notin Undecided,
         catalog' = catalog, bundle' = bundle,
         \A o \in Build : source'[o] \in {source[o], catalog, NoCatalog}
  PROVE  KnownCatalogs' /\ (Bundles => Bundles')
<1>1. ASSUME NEW c \in Catalog, Known(c)
      PROVE  /\ Known(c)'
             /\ index'[c.build] = index[c.build]
  <2>1. c # NoCatalog /\ c.build \in BuildId
    BY CatalogAssumption DEF Catalog
  <2>2. c.build = b => pc[b] \notin Undecided
    BY <1>1, <2>1, StoreAssumption DEF Known
  <2>3. index'[c.build] = index[c.build]  BY <2>1, <2>2
  <2>4. c.build \in Build => model'[c.build] = model[c.build]  BY <2>2
  <2> QED  BY <1>1, <2>1, <2>2, <2>3, <2>4 DEF Known, BuildId
<1>2. /\ catalog \in Catalog \cup {NoCatalog}
      /\ \A o \in Build : source[o] \in Catalog \cup {NoCatalog}
      /\ \A r \in Reader : bundle[r].catalog \in Catalog \cup {NoCatalog}
  BY DEF TypeOK, Bundle
<1>3. Known(catalog)'  BY <1>1, <1>2 DEF KnownCatalogs, Known
<1>4. ASSUME NEW o \in Build PROVE Known(source[o])'
  BY <1>1, <1>2 DEF KnownCatalogs, Known
<1>5. ASSUME NEW r \in Reader PROVE Known(bundle[r].catalog)'
  BY <1>1, <1>2 DEF KnownCatalogs, Known
<1>6. \A r \in Reader : bundle[r].catalog # NoCatalog =>
        index'[bundle[r].catalog.build] = index[bundle[r].catalog.build]
  BY <1>1, <1>2 DEF KnownCatalogs
<1> QED  BY <1>3, <1>4, <1>5, <1>6 DEF KnownCatalogs, Bundles

\* Reused vectors and fresh ones alike are vectors of the index's own nodes.
LEMMA RecordsAreOwn ==
  ASSUME TypeOK, NEW b \in Build, \A v \in prior[b] : v.model = model[b]
  PROVE  Records(b) \subseteq VectorsOf(NavNodes(index[b]), model[b])
<1>1. prior[b] \subseteq Vector  BY DEF TypeOK
<1>2. ASSUME NEW v \in prior[b], NEW e \in NavNodes(index[b]),
             v.node = e.node, v.text = e.text
      PROVE  v \in VectorsOf(NavNodes(index[b]), model[b])
  <2>1. v = [node |-> e.node, text |-> e.text, model |-> model[b]]
    BY <1>1, <1>2 DEF Vector
  <2> QED  BY <2>1 DEF VectorsOf
<1> QED  BY <1>2 DEF Records, VectorsOf

\* Every step keeps the origin of vectors: whatever saves run beside each
\* other, a row of a build holds a vector of that build's own text.
LEMMA StepProvenance == Provenance /\ [Next]_vars => Provenance'
<1> SUFFICES ASSUME Provenance, [Next]_vars PROVE Provenance'  OBVIOUS
<1> USE DEF Provenance, vars, store, job, reader
<1>t. TypeOK /\ TypeOK'  BY StepTyped DEF Typed
<1>n. Legacy \notin Build  BY StoreAssumption
<1>1. ASSUME NEW b \in Build, NEW i \in Index, NEW m \in Model \cup {NoModel},
             IndexDatabase(b, i, m)
      PROVE  Provenance'
  <2>i. OneTextPerNode(i)  BY IndexAssumption
  <2>1. RowsOfBuild'
    BY <1>1, <1>t, <1>n, <2>i
    DEF TypeOK, IndexDatabase, MayStart, RowsOfBuild, FreshBuilds, Undecided, BuildId
  <2>2. FreshBuilds'
    BY <1>1, <1>t DEF TypeOK, IndexDatabase, MayStart, FreshBuilds, Undecided
  <2>3. KnownCatalogs' /\ Bundles'
    BY <1>1, <1>t, KnownStays DEF TypeOK, IndexDatabase, MayStart, Undecided
  <2>4. RowsInFlight'
    BY <1>1, <1>t
    DEF TypeOK, IndexDatabase, MayStart, RowsInFlight, FreshBuilds, CardRows
  <2> QED  BY <2>1, <2>2, <2>3, <2>4, StepTyped
<1>2. ASSUME NEW b \in Build, NEW m \in Model, UpgradeVectors(b, m)
      PROVE  Provenance'
  <2>1. RowsOfBuild'
    BY <1>2, <1>t DEF TypeOK, UpgradeVectors, MayStart, RowsOfBuild, FreshBuilds, Undecided
  <2>2. FreshBuilds'
    BY <1>2, <1>t DEF TypeOK, UpgradeVectors, MayStart, FreshBuilds, Undecided
  <2>3. KnownCatalogs' /\ Bundles'
    BY <1>2, <1>t, KnownStays DEF TypeOK, UpgradeVectors, MayStart, Undecided
  <2>4. RowsInFlight'
    BY <1>2, <1>t DEF TypeOK, UpgradeVectors, MayStart, RowsInFlight, FreshBuilds
  <2> QED  BY <2>1, <2>2, <2>3, <2>4, StepTyped
<1>3. ASSUME NEW b \in Build, LoadCards(b)
      PROVE  Provenance'
  <2>k. /\ source[b] \in Catalog
        /\ source[b].cols = index[source[b].build].cols
    BY <1>3, <1>t DEF LoadCards, Goto, Typed, Shaped, KnownCatalogs, Known, TypeOK
  <2>i. OneTextPerNode(index'[b])
    <3>1. /\ OneTextPerNode(index[source[b].build])
          /\ cards[source[b].build] \subseteq index[source[b].build].cards
      BY <2>k DEF RowsOfBuild, Catalog
    <3>2. index'[b] = [cards |-> cards[source[b].build], cols |-> source[b].cols]
      BY <1>3, <1>t DEF LoadCards, TypeOK, BuildId
    <3> QED  BY <2>k, <3>1, <3>2 DEF OneTextPerNode, NavNodes
  <2>1. RowsOfBuild'
    BY <1>3, <1>t, <1>n, <2>i
    DEF TypeOK, LoadCards, Goto, RowsOfBuild, FreshBuilds, Undecided, BuildId
  <2>2. FreshBuilds'
    BY <1>3, <1>t DEF TypeOK, LoadCards, Goto, FreshBuilds, Undecided
  <2>3. KnownCatalogs' /\ Bundles'
    BY <1>3, <1>t, KnownStays DEF TypeOK, LoadCards, Goto, Undecided
  <2>4. RowsInFlight'
    BY <1>3, <1>t DEF TypeOK, LoadCards, Goto, RowsInFlight, FreshBuilds
  <2> QED  BY <2>1, <2>2, <2>3, <2>4, StepTyped
<1>4. ASSUME NEW b \in Build, FindPrevious(b)
      PROVE  Provenance'
  <2>1. RowsOfBuild'
    BY <1>4, <1>t DEF TypeOK, FindPrevious, RowsOfBuild, FreshBuilds, Undecided
  <2>2. FreshBuilds'
    BY <1>4, <1>t DEF TypeOK, FindPrevious, FreshBuilds, Undecided
  <2>3. KnownCatalogs' /\ Bundles'
    BY <1>4, <1>t, KnownStays DEF TypeOK, FindPrevious, Undecided
  <2>4. RowsInFlight'
    BY <1>4, <1>t DEF TypeOK, FindPrevious, RowsInFlight, FreshBuilds
  <2> QED  BY <2>1, <2>2, <2>3, <2>4, StepTyped
<1>5. ASSUME NEW b \in Build, ReadPrevious(b)
      PROVE  Provenance'
  <2>1. RowsOfBuild'
    BY <1>5, <1>t DEF TypeOK, ReadPrevious, Goto, RowsOfBuild, FreshBuilds, Undecided
  <2>2. FreshBuilds'
    BY <1>5, <1>t DEF TypeOK, ReadPrevious, Goto, FreshBuilds, Undecided
  <2>3. KnownCatalogs' /\ Bundles'
    BY <1>5, <1>t, KnownStays DEF TypeOK, ReadPrevious, Goto, Undecided
  <2>k. \A v \in vectors[source[b].build] : v.model = model[b]
    <3>1. /\ source[b] \in Catalog
          /\ source[b].model = model[b]
          /\ source[b].build # Legacy => source[b].model = model[source[b].build]
      BY <1>5, <1>t
      DEF ReadPrevious, Goto, Typed, Shaped, KnownCatalogs, Known, TypeOK, RowsInFlight
    <3> QED  BY <3>1 DEF RowsOfBuild, Catalog, BuildId, VectorsOf
  <2>4. RowsInFlight'
    BY <1>5, <1>t, <2>k DEF TypeOK, ReadPrevious, Goto, RowsInFlight
  <2> QED  BY <2>1, <2>2, <2>3, <2>4, StepTyped
<1>6. ASSUME NEW b \in Build, Embed(b)
      PROVE  Provenance'
  <2>1. RowsOfBuild'
    BY <1>6, <1>t DEF TypeOK, Embed, Goto, RowsOfBuild, FreshBuilds, Undecided
  <2>2. FreshBuilds'
    BY <1>6, <1>t DEF TypeOK, Embed, Goto, FreshBuilds, Undecided
  <2>3. KnownCatalogs' /\ Bundles'
    BY <1>6, <1>t, KnownStays DEF TypeOK, Embed, Goto, Undecided
  <2>k. Records(b) \subseteq VectorsOf(NavNodes(index[b]), model[b])
    BY <1>t, RecordsAreOwn DEF RowsInFlight
  <2>4. RowsInFlight'
    BY <1>6, <1>t, <2>k DEF TypeOK, Embed, Goto, RowsInFlight
  <2> QED  BY <2>1, <2>2, <2>3, <2>4, StepTyped
<1>7. ASSUME NEW b \in Build, PutVector(b)
      PROVE  Provenance'
  <2>k. PICK row \in todo[b] :
          /\ vectors' = [vectors EXCEPT ![b] = @ \cup {row[2]}]
          /\ todo' = [todo EXCEPT ![b] = @ \ {row}]
    BY <1>7 DEF PutVector
  <2>i. row[2] \in VectorsOf(NavNodes(index[b]), model[b])
    BY <1>7, <2>k DEF PutVector, RowsInFlight
  <2>1. RowsOfBuild'
    BY <1>7, <1>t, <1>n, <2>k, <2>i DEF TypeOK, PutVector, RowsOfBuild, BuildId
  <2>2. FreshBuilds'
    BY <1>7, <1>t DEF TypeOK, PutVector, FreshBuilds, Undecided
  <2>3. KnownCatalogs' /\ Bundles'
    BY <1>7, <1>t, KnownStays DEF TypeOK, PutVector, Undecided
  <2>4. RowsInFlight'
    BY <1>7, <1>t DEF TypeOK, PutVector, RowsInFlight, FreshBuilds
  <2> QED  BY <2>1, <2>2, <2>3, <2>4, StepTyped
<1>8. ASSUME NEW b \in Build, PutVectorsEnd(b)
      PROVE  Provenance'
  <2>1. RowsOfBuild'
    BY <1>8, <1>t DEF TypeOK, PutVectorsEnd, Goto, RowsOfBuild, FreshBuilds, Undecided
  <2>2. FreshBuilds'
    BY <1>8, <1>t DEF TypeOK, PutVectorsEnd, Goto, FreshBuilds, Undecided
  <2>3. KnownCatalogs' /\ Bundles'
    BY <1>8, <1>t, KnownStays DEF TypeOK, PutVectorsEnd, Goto, Undecided
  <2>4. RowsInFlight'
    BY <1>8, <1>t DEF TypeOK, PutVectorsEnd, Goto, RowsInFlight, FreshBuilds
  <2> QED  BY <2>1, <2>2, <2>3, <2>4, StepTyped
<1>9. ASSUME NEW b \in Build, CheckVectors(b)
      PROVE  Provenance'
  <2>1. RowsOfBuild'
    BY <1>9, <1>t DEF TypeOK, CheckVectors, Goto, RowsOfBuild, FreshBuilds, Undecided
  <2>2. FreshBuilds'
    BY <1>9, <1>t DEF TypeOK, CheckVectors, Goto, FreshBuilds, Undecided
  <2>3. KnownCatalogs' /\ Bundles'
    BY <1>9, <1>t, KnownStays DEF TypeOK, CheckVectors, Goto, Undecided
  <2>4. RowsInFlight'
    BY <1>9, <1>t DEF TypeOK, CheckVectors, Goto, RowsInFlight, CardRows
  <2> QED  BY <2>1, <2>2, <2>3, <2>4, StepTyped
<1>10. ASSUME NEW b \in Build, PutCard(b)
       PROVE  Provenance'
  <2>k. PICK row \in todo[b] :
          /\ cards' = [cards EXCEPT ![b] = @ \cup {row[2]}]
          /\ todo' = [todo EXCEPT ![b] = @ \ {row}]
    BY <1>10 DEF PutCard
  <2>i. row[2] \in index[b].cards
    BY <1>10, <2>k DEF PutCard, RowsInFlight
  <2>1. RowsOfBuild'
    BY <1>10, <1>t, <1>n, <2>k, <2>i DEF TypeOK, PutCard, RowsOfBuild, BuildId
  <2>2. FreshBuilds'
    BY <1>10, <1>t DEF TypeOK, PutCard, FreshBuilds, Undecided
  <2>3. KnownCatalogs' /\ Bundles'
    BY <1>10, <1>t, KnownStays DEF TypeOK, PutCard, Undecided
  <2>4. RowsInFlight'
    BY <1>10, <1>t DEF TypeOK, PutCard, RowsInFlight, FreshBuilds
  <2> QED  BY <2>1, <2>2, <2>3, <2>4, StepTyped
<1>11. ASSUME NEW b \in Build, PutCardsEnd(b) \/ CheckCards(b)
       PROVE  Provenance'
  <2>1. RowsOfBuild'
    BY <1>11, <1>t DEF TypeOK, PutCardsEnd, CheckCards, Goto, RowsOfBuild, FreshBuilds, Undecided
  <2>2. FreshBuilds'
    BY <1>11, <1>t DEF TypeOK, PutCardsEnd, CheckCards, Goto, FreshBuilds, Undecided
  <2>3. KnownCatalogs' /\ Bundles'
    BY <1>11, <1>t, KnownStays DEF TypeOK, PutCardsEnd, CheckCards, Goto, Undecided
  <2>4. RowsInFlight'
    BY <1>11, <1>t DEF TypeOK, PutCardsEnd, CheckCards, Goto, RowsInFlight, FreshBuilds
  <2> QED  BY <2>1, <2>2, <2>3, <2>4, StepTyped
<1>12. ASSUME NEW b \in Build, Publish(b) \/ PublishUnacknowledged(b)
       PROVE  Provenance'
  <2>1. RowsOfBuild'
    BY <1>12, <1>t DEF TypeOK, Publish, PublishUnacknowledged, Goto, CatalogRow, RowsOfBuild, FreshBuilds, Undecided
  <2>2. FreshBuilds'
    BY <1>12, <1>t DEF TypeOK, Publish, PublishUnacknowledged, Goto, CatalogRow, FreshBuilds, Undecided
  <2>k. Known(catalog)'
    BY <1>12, <1>t, <1>n
    DEF TypeOK, Publish, PublishUnacknowledged, Goto, CatalogRow, Known, Undecided
  <2>i. /\ \A o \in Build : pc[o] \notin Undecided => pc'[o] \notin Undecided
        /\ index' = index /\ model' = model /\ source' = source /\ bundle' = bundle
    BY <1>12, <1>t
    DEF TypeOK, Publish, PublishUnacknowledged, Goto, Undecided
  <2>j. /\ \A o \in Build : source[o] \in Catalog \cup {NoCatalog}
        /\ \A r \in Reader : bundle[r].catalog \in Catalog \cup {NoCatalog}
    BY <1>t DEF TypeOK, Bundle
  <2>3. KnownCatalogs'
    BY <2>i, <2>j, <2>k DEF KnownCatalogs, Known, Catalog, BuildId
  <2>4. RowsInFlight'
    BY <1>12, <1>t DEF TypeOK, Publish, PublishUnacknowledged, Goto, CatalogRow, RowsInFlight, FreshBuilds
  <2>5. Bundles'
    BY <1>12, <1>t DEF TypeOK, Publish, PublishUnacknowledged, Goto, CatalogRow, Bundles, KnownCatalogs, Known, Undecided
  <2> QED  BY <2>1, <2>2, <2>3, <2>4, <2>5, StepTyped
<1>13. ASSUME NEW b \in Build, DeleteCard(b)
       PROVE  Provenance'
  <2>1. RowsOfBuild'
    BY <1>13, <1>t DEF TypeOK, DeleteCard, RowsOfBuild, FreshBuilds, Undecided
  <2>2. FreshBuilds'
    BY <1>13, <1>t DEF TypeOK, DeleteCard, FreshBuilds, Undecided
  <2>3. KnownCatalogs' /\ Bundles'
    BY <1>13, <1>t, KnownStays DEF TypeOK, DeleteCard, Undecided
  <2>4. RowsInFlight'
    BY <1>13, <1>t DEF TypeOK, DeleteCard, RowsInFlight, FreshBuilds
  <2> QED  BY <2>1, <2>2, <2>3, <2>4, StepTyped
<1>14. ASSUME NEW b \in Build, DeleteVector(b)
       PROVE  Provenance'
  <2>1. RowsOfBuild'
    BY <1>14, <1>t DEF TypeOK, DeleteVector, RowsOfBuild, FreshBuilds, Undecided
  <2>2. FreshBuilds'
    BY <1>14, <1>t DEF TypeOK, DeleteVector, FreshBuilds, Undecided
  <2>3. KnownCatalogs' /\ Bundles'
    BY <1>14, <1>t, KnownStays DEF TypeOK, DeleteVector, Undecided
  <2>4. RowsInFlight'
    BY <1>14, <1>t DEF TypeOK, DeleteVector, RowsInFlight, FreshBuilds
  <2> QED  BY <2>1, <2>2, <2>3, <2>4, StepTyped
<1>15. ASSUME NEW b \in Build, DeleteCardsEnd(b) \/ DeleteVectorsEnd(b)
       PROVE  Provenance'
  <2>1. RowsOfBuild'
    BY <1>15, <1>t DEF TypeOK, DeleteCardsEnd, DeleteVectorsEnd, Goto, RowsOfBuild, FreshBuilds, Undecided
  <2>2. FreshBuilds'
    BY <1>15, <1>t DEF TypeOK, DeleteCardsEnd, DeleteVectorsEnd, Goto, FreshBuilds, Undecided
  <2>3. KnownCatalogs' /\ Bundles'
    BY <1>15, <1>t, KnownStays DEF TypeOK, DeleteCardsEnd, DeleteVectorsEnd, Goto, Undecided
  <2>4. RowsInFlight'
    BY <1>15, <1>t DEF TypeOK, DeleteCardsEnd, DeleteVectorsEnd, Goto, RowsInFlight, FreshBuilds
  <2> QED  BY <2>1, <2>2, <2>3, <2>4, StepTyped
<1>16. ASSUME NEW b \in Build, StageFails(b) \/ CallRaises(b) \/ Crash(b)
       PROVE  Provenance'
  <2>1. RowsOfBuild'
    BY <1>16, <1>t DEF TypeOK, StageFails, CallRaises, Crash, Staging, Loading, Undoing, Dropping, Running, RowsOfBuild, FreshBuilds, Undecided
  <2>2. FreshBuilds'
    BY <1>16, <1>t DEF TypeOK, StageFails, CallRaises, Crash, Staging, Loading, Undoing, Dropping, Running, FreshBuilds, Undecided
  <2>3. KnownCatalogs' /\ Bundles'
    BY <1>16, <1>t, KnownStays DEF TypeOK, StageFails, CallRaises, Crash, Staging, Loading, Undoing, Dropping, Running, Undecided
  <2>4. RowsInFlight'
    BY <1>16, <1>t DEF TypeOK, StageFails, CallRaises, Crash, Staging, Loading, Undoing, Dropping, Running, RowsInFlight, FreshBuilds
  <2> QED  BY <2>1, <2>2, <2>3, <2>4, StepTyped
<1>17. ASSUME NEW r \in Reader, NEW m \in Model \cup {NoModel}, LoadCatalog(r, m)
       PROVE  Provenance'
  <2>1. RowsOfBuild'
    BY <1>17, <1>t DEF TypeOK, LoadCatalog, NoBundle, RowsOfBuild, FreshBuilds, Undecided
  <2>2. FreshBuilds'
    BY <1>17, <1>t DEF TypeOK, LoadCatalog, NoBundle, FreshBuilds, Undecided
  <2>3. KnownCatalogs'
    BY <1>17, <1>t DEF TypeOK, LoadCatalog, NoBundle, KnownCatalogs, Known, Undecided
  <2>4. RowsInFlight'
    BY <1>17, <1>t DEF TypeOK, LoadCatalog, NoBundle, RowsInFlight, FreshBuilds
  <2>5. Bundles'
    BY <1>17, <1>t DEF TypeOK, LoadCatalog, NoBundle, Bundles, KnownCatalogs, Known, Undecided
  <2> QED  BY <2>1, <2>2, <2>3, <2>4, <2>5, StepTyped
<1>18. ASSUME NEW r \in Reader, LoadBundleCards(r)
       PROVE  Provenance'
  <2>1. RowsOfBuild'
    BY <1>18, <1>t DEF TypeOK, LoadBundleCards, RowsOfBuild, FreshBuilds, Undecided
  <2>2. FreshBuilds'
    BY <1>18, <1>t DEF TypeOK, LoadBundleCards, FreshBuilds, Undecided
  <2>3. KnownCatalogs'
    BY <1>18, <1>t DEF TypeOK, LoadBundleCards, KnownCatalogs, Known, Undecided
  <2>4. RowsInFlight'
    BY <1>18, <1>t DEF TypeOK, LoadBundleCards, RowsInFlight, FreshBuilds
  <2>k. /\ bundle[r].catalog \in Catalog
        /\ bundle[r].catalog # NoCatalog
        /\ bundle' = [bundle EXCEPT ![r].cards = cards[bundle[r].catalog.build]]
    BY <1>18, <1>t DEF LoadBundleCards, Typed, Shaped, TypeOK, Bundle
  <2>i. cards[bundle[r].catalog.build] \subseteq index[bundle[r].catalog.build].cards
    BY <2>k DEF RowsOfBuild, Catalog
  <2>5. Bundles'
    BY <1>18, <1>t, <2>k, <2>i DEF TypeOK, LoadBundleCards, Bundles, Bundle
  <2> QED  BY <2>1, <2>2, <2>3, <2>4, <2>5, StepTyped
<1>19. ASSUME NEW r \in Reader, LoadBundleVectors(r)
       PROVE  Provenance'
  <2>1. RowsOfBuild'
    BY <1>19, <1>t DEF TypeOK, LoadBundleVectors, RowsOfBuild, FreshBuilds, Undecided
  <2>2. FreshBuilds'
    BY <1>19, <1>t DEF TypeOK, LoadBundleVectors, FreshBuilds, Undecided
  <2>k. /\ bundle[r].catalog \in Catalog
        /\ bundle[r].catalog # NoCatalog
    BY <1>19, <1>t DEF LoadBundleVectors, Typed, Shaped, TypeOK, Bundle
  <2> DEFINE found == IF bundle[r].catalog.build = Legacy THEN {}
                      ELSE vectors[bundle[r].catalog.build]
             bun == [bundle[r] EXCEPT !.vectors = found]
             new == [bun EXCEPT !.status = Semantic(bun)]
  <2>b. bundle' = [bundle EXCEPT ![r] = new]
    BY <1>19 DEF LoadBundleVectors
  <2>c. /\ new.catalog = bundle[r].catalog
        /\ new.cards = bundle[r].cards
        /\ new.model = bundle[r].model
        /\ new.vectors = found
        /\ new.status = Semantic(bun)
        /\ bun.catalog = bundle[r].catalog
        /\ bun.model = bundle[r].model
    BY <1>t DEF TypeOK, Bundle
  <2>d. Semantic(bun) = "ready" => bun.model = bun.catalog.model
    BY DEF Semantic
  <2>e. found \subseteq VectorsOf(NavNodes(index[bundle[r].catalog.build]),
                                 bundle[r].catalog.model)
    BY <2>k DEF RowsOfBuild, KnownCatalogs, Known, Catalog, BuildId
  <2> HIDE DEF new, bun, found
  <2>f. /\ bundle'[r] = new
        /\ \A x \in Reader : x # r => bundle'[x] = bundle[x]
        /\ \A x \in Reader : bundle'[x].catalog = bundle[x].catalog
    BY <1>t, <2>b, <2>c DEF TypeOK
  <2>g. UNCHANGED <<store, pc, job, todo>>
    BY <1>19 DEF LoadBundleVectors
  <2>3. KnownCatalogs'
    BY <2>f, <2>g DEF KnownCatalogs, Known
  <2>4. RowsInFlight'
    BY <1>19, <1>t DEF TypeOK, LoadBundleVectors, RowsInFlight, FreshBuilds
  <2>5. Bundles'
    <3>1. \A x \in Reader : x = r \/ bundle'[x] = bundle[x]  BY <2>f
    <3>2. index' = index  BY <2>g
    <3> QED  BY <2>c, <2>d, <2>e, <2>f, <2>k, <3>1, <3>2 DEF Bundles
  <2> QED  BY <2>1, <2>2, <2>3, <2>4, <2>5, StepTyped
<1>20. CASE UNCHANGED vars
  BY <1>20, StepTyped
  DEF RowsOfBuild, FreshBuilds, KnownCatalogs, Known, RowsInFlight, Bundles
<1> QED
  BY <1>1, <1>2, <1>3, <1>4, <1>5, <1>6, <1>7, <1>8, <1>9, <1>10, <1>11, <1>12, <1>13, <1>14, <1>15, <1>16, <1>17, <1>18, <1>19, <1>20
  DEF Next, Save, Stage, Load

\* The provenance invariant holds of an empty and of a legacy store.
LEMMA InitProvenance == Init => Provenance
<1> SUFFICES ASSUME Init PROVE Provenance  OBVIOUS
<1>1. Typed  BY InitTyped
<1>2. ASSUME NEW b \in BuildId PROVE OneTextPerNode(index[b])
  <2>1. OneTextPerNode(NoShape)  BY DEF OneTextPerNode, NavNodes, NoShape
  <2>2. index[b] \in Index \cup {NoShape}  BY <1>2 DEF Init
  <2> QED  BY <2>1, <2>2, IndexAssumption
<1>3. RowsOfBuild
  BY <1>2 DEF Init, RowsOfBuild, BuildId
<1>4. FreshBuilds
  BY StoreAssumption DEF Init, FreshBuilds, BuildId, NoShape
<1>5. Known(catalog)
  BY StoreAssumption DEF Init, Known, BuildId
<1>6. KnownCatalogs
  BY <1>5 DEF Init, KnownCatalogs, Known, NoBundle
<1>7. RowsInFlight  BY DEF Init, RowsInFlight
<1>8. Bundles  BY DEF Init, Bundles, NoBundle
<1> QED  BY <1>1, <1>3, <1>4, <1>6, <1>7, <1>8 DEF Provenance

\* The provenance invariant holds in every state of the store.
LEMMA AlwaysProvenance == Spec => []Provenance
BY InitProvenance, StepProvenance, PTL DEF Spec

\* _resolve_semantic compares node ids and dimensions only, yet no reader is
\* ever told "ready" over a vector of another text or another contract: with
\* any number of concurrent saves and readers, torn loads, reused vectors,
\* failures, crashes and lost acknowledgements.
THEOREM ReadyVectorsAlwaysMatch == Spec => []ReadyVectorsMatch
<1>1. Provenance => ReadyVectorsMatch
  <2> SUFFICES ASSUME Provenance, NEW r \in Reader, bundle[r].status = "ready",
                      NEW e \in BundleNodes(bundle[r]),
                      NEW v \in bundle[r].vectors, v.node = e.node
               PROVE  v.text = e.text /\ v.model = bundle[r].model
    BY DEF ReadyVectorsMatch
  <2> DEFINE i == index[bundle[r].catalog.build]
  <2>1. /\ bundle[r].catalog \in Catalog
        /\ bundle[r].catalog # NoCatalog
        /\ bundle[r].model = bundle[r].catalog.model
    BY DEF Provenance, Bundles, Typed, TypeOK, Bundle
  <2>2. /\ bundle[r].cards \subseteq i.cards
        /\ bundle[r].vectors \subseteq VectorsOf(NavNodes(i), bundle[r].catalog.model)
    BY <2>1 DEF Provenance, Bundles
  <2>3. bundle[r].catalog.cols = i.cols
    BY <2>1 DEF Provenance, KnownCatalogs, Known
  <2>4. OneTextPerNode(i)
    BY <2>1 DEF Provenance, RowsOfBuild, Catalog
  <2>5. e \in NavNodes(i)
    BY <2>2, <2>3 DEF BundleNodes, NavNodes
  <2>6. PICK f \in NavNodes(i) :
          v = [node |-> f.node, text |-> f.text, model |-> bundle[r].catalog.model]
    BY <2>2 DEF VectorsOf
  <2>7. f = e  BY <2>4, <2>5, <2>6 DEF OneTextPerNode
  <2> QED  BY <2>1, <2>6, <2>7
<1> QED  BY <1>1, AlwaysProvenance, PTL

-----------------------------------------------------------------------------
(***************************************************************************)
(* What the store guarantees when operators run one save at a time and     *)
(* replace_one never raises after it was applied: the catalog always names *)
(* a whole index, a finished save leaves no other rows, and the store      *)
(* implements PublishedIndex.  What is proved above needs neither          *)
(* assumption.                                                             *)
(***************************************************************************)

\* The catalog names save b's build.
Active(b) == catalog # NoCatalog /\ catalog.build = b

Alone == \A a, b \in Build : pc[a] \in Running /\ pc[b] \in Running => a = b

\* A build is published before any row of another build is dropped, and never
\* while its own rows are being staged or undone.
Roles ==
  \A b \in Build :
    /\ Active(b) => pc[b] \in Dropping \cup Ended
    /\ pc[b] \in Dropping => Active(b) /\ \A row \in todo[b] : row[1] # b
    /\ pc[b] \in Undoing => \A row \in todo[b] : row[1] = b
    /\ pc[b] = "loadCards" => source[b] = catalog

\* What the checks of _stage_build have established stays true until the
\* catalog is replaced.
Stored ==
  \A b \in Build :
    /\ pc[b] \in {"putCards", "checkCards", "publish"} /\ model[b] # NoModel =>
         vectors[b] = VectorsOf(NavNodes(index[b]), model[b])
    /\ pc[b] = "publish" => cards[b] = index[b].cards

\* An upgrade loads a whole index, so every staged index is one that
\* build_generic_index returned.
Sources ==
  /\ catalog # NoCatalog => index[catalog.build] \in Index
  /\ \A b \in Build : pc[b] \in Staging => index[b] \in Index

\* The running delete_many covers every row of the other builds.
Swept ==
  \A b \in Build :
    /\ pc[b] = "dropCards" =>
         \A o \in BuildId \ {b} : \A e \in cards[o] : <<o, e>> \in todo[b]
    /\ pc[b] = "dropVectors" =>
         \A o \in BuildId \ {b} :
           cards[o] = {} /\ \A v \in vectors[o] : <<o, v>> \in todo[b]

SerialInv ==
  /\ Provenance
  /\ Alone
  /\ Roles
  /\ Stored
  /\ Sources
  /\ Swept
  /\ ActiveIndexComplete

\* The serial invariant holds of an empty and of a legacy store.
LEMMA InitSerial == Init => SerialInv
<1> SUFFICES ASSUME Init PROVE SerialInv  OBVIOUS
<1>1. Provenance  BY InitProvenance
<1>2. \A b \in Build : pc[b] = "idle"  BY DEF Init
<1>3. "idle" \notin Running \cup Dropping \cup Undoing \cup Staging
  BY DEF Running, Dropping, Undoing, Staging, Loading
<1>4. Alone /\ Roles /\ Stored /\ Swept
  BY <1>2, <1>3, StoreAssumption DEF Alone, Roles, Stored, Swept, Active, Init
<1>5. Sources
  BY <1>2, <1>3 DEF Sources, Init, BuildId
<1>6. ActiveIndexComplete
  BY DEF ActiveIndexComplete, Init, BuildId
<1> QED  BY <1>1, <1>4, <1>5, <1>6 DEF SerialInv

\* The checks compare counts: with one row per node and no foreign rows, a
\* row for every node is every row.
LEMMA EveryNodeEveryVector ==
  ASSUME NEW i, OneTextPerNode(i), NEW m,
         NEW S, S \subseteq VectorsOf(NavNodes(i), m),
         {v.node : v \in S} = {e.node : e \in NavNodes(i)}
  PROVE  S = VectorsOf(NavNodes(i), m)
<1>1. ASSUME NEW e \in NavNodes(i)
      PROVE  [node |-> e.node, text |-> e.text, model |-> m] \in S
  <2>1. PICK v \in S : v.node = e.node
    <3>1. e.node \in {v.node : v \in S}  OBVIOUS
    <3> QED  BY <3>1
  <2>2. PICK f \in NavNodes(i) : v = [node |-> f.node, text |-> f.text, model |-> m]
    BY DEF VectorsOf
  <2>3. f = e  BY <2>1, <2>2 DEF OneTextPerNode
  <2> QED  BY <2>2, <2>3
<1> QED  BY <1>1 DEF VectorsOf

\* When every node of an index has a card of that index, all cards are there.
LEMMA EveryNodeEveryCard ==
  ASSUME NEW i, OneTextPerNode(i), NEW S, S \subseteq i.cards,
         {e.node : e \in S} = {e.node : e \in i.cards}
  PROVE  S = i.cards
<1>1. ASSUME NEW e \in i.cards PROVE e \in S
  <2>1. PICK f \in S : f.node = e.node
    <3>1. e.node \in {x.node : x \in S}  OBVIOUS
    <3> QED  BY <3>1
  <2>2. f = e  BY <2>1 DEF OneTextPerNode, NavNodes
  <2> QED  BY <2>2
<1> QED  BY <1>1

\* When saves run one at a time and no acknowledgement is lost, every step
\* keeps the serial invariant.
LEMMA StepSerial ==
  ASSUME Serial, ~LostAck
  PROVE  SerialInv /\ [Next]_vars => SerialInv'
<1> SUFFICES ASSUME SerialInv, [Next]_vars PROVE SerialInv'  OBVIOUS
<1> USE DEF vars, store, job, reader
<1>t. TypeOK /\ TypeOK' /\ Provenance'
  BY StepProvenance DEF SerialInv, Provenance, Typed
<1>n. Legacy \notin Build  BY StoreAssumption
<1>r. /\ Dropping = {"dropCards", "dropVectors"}
      /\ Undoing = {"undoCards", "undoVectors"}
      /\ Staging = {"findPrevious", "readPrevious", "embed", "putVectors",
                    "checkVectors", "putCards", "checkCards", "publish"}
      /\ Running = {"loadCards"} \cup Staging \cup Dropping \cup Undoing
      /\ Ended = {"done", "failed", "raised", "crashed"}
  BY DEF Dropping, Undoing, Staging, Running, Loading, Ended
<1>a. \A a, b \in Build : pc[a] \in Running /\ pc[b] \in Running => a = b
  BY DEF SerialInv, Alone
<1>1. ASSUME NEW b \in Build, NEW i \in Index, NEW m \in Model \cup {NoModel},
             IndexDatabase(b, i, m)
      PROVE  SerialInv'
  <2>1. Alone'
    BY <1>1, <1>t, <1>n, <1>r, <1>a
    DEF SerialInv, TypeOK, IndexDatabase, MayStart, Alone
  <2>2. Roles'
    BY <1>1, <1>t, <1>n, <1>r, <1>a
    DEF SerialInv, TypeOK, IndexDatabase, MayStart, Roles, Active
  <2>3. Stored'
    BY <1>1, <1>t, <1>n, <1>r, <1>a
    DEF SerialInv, TypeOK, IndexDatabase, MayStart, Stored
  <2>4. Sources'
    BY <1>1, <1>t, <1>n, <1>r, <1>a
    DEF SerialInv, TypeOK, IndexDatabase, MayStart, Sources, KnownCatalogs, Known
  <2>5. Swept'
    BY <1>1, <1>t, <1>n, <1>r, <1>a
    DEF SerialInv, TypeOK, IndexDatabase, MayStart, Swept
  <2>6. ActiveIndexComplete'
    BY <1>1, <1>t, <1>n, <1>r, <1>a
    DEF SerialInv, TypeOK, IndexDatabase, MayStart, ActiveIndexComplete, Roles, Active
  <2> QED  BY <1>t, <2>1, <2>2, <2>3, <2>4, <2>5, <2>6 DEF SerialInv
<1>2. ASSUME NEW b \in Build, NEW m \in Model, UpgradeVectors(b, m)
      PROVE  SerialInv'
  <2>1. Alone'
    BY <1>2, <1>t, <1>n, <1>r, <1>a
    DEF SerialInv, TypeOK, UpgradeVectors, MayStart, Alone
  <2>2. Roles'
    BY <1>2, <1>t, <1>n, <1>r, <1>a
    DEF SerialInv, TypeOK, UpgradeVectors, MayStart, Roles, Active
  <2>3. Stored'
    BY <1>2, <1>t, <1>n, <1>r, <1>a
    DEF SerialInv, TypeOK, UpgradeVectors, MayStart, Stored
  <2>4. Sources'
    BY <1>2, <1>t, <1>n, <1>r, <1>a
    DEF SerialInv, TypeOK, UpgradeVectors, MayStart, Sources, KnownCatalogs, Known
  <2>5. Swept'
    BY <1>2, <1>t, <1>n, <1>r, <1>a
    DEF SerialInv, TypeOK, UpgradeVectors, MayStart, Swept
  <2>6. ActiveIndexComplete'
    BY <1>2, <1>t, <1>n, <1>r, <1>a
    DEF SerialInv, TypeOK, UpgradeVectors, MayStart, ActiveIndexComplete, Roles, Active
  <2> QED  BY <1>t, <2>1, <2>2, <2>3, <2>4, <2>5, <2>6 DEF SerialInv
<1>3. ASSUME NEW b \in Build, LoadCards(b)
      PROVE  SerialInv'
  <2>1. Alone'
    BY <1>3, <1>t, <1>n, <1>r, <1>a
    DEF SerialInv, TypeOK, LoadCards, Goto, Alone
  <2>2. Roles'
    BY <1>3, <1>t, <1>n, <1>r, <1>a
    DEF SerialInv, TypeOK, LoadCards, Goto, Roles, Active
  <2>3. Stored'
    BY <1>3, <1>t, <1>n, <1>r, <1>a
    DEF SerialInv, TypeOK, LoadCards, Goto, Stored
  <2>k. /\ source[b] = catalog
        /\ catalog \in Catalog
        /\ catalog # NoCatalog
    BY <1>3, <1>t, <1>r
    DEF LoadCards, Goto, SerialInv, Roles, Provenance, Typed, Shaped, TypeOK
  <2>i. [cards |-> cards[catalog.build], cols |-> catalog.cols]
          = index[catalog.build]
    <3>1. index[catalog.build] \in Shape  BY <1>t, <2>k DEF TypeOK, Catalog
    <3>2. /\ catalog.cols = index[catalog.build].cols
          /\ cards[catalog.build] = index[catalog.build].cards
      BY <2>k DEF SerialInv, Provenance, KnownCatalogs, Known, ActiveIndexComplete
    <3> QED  BY <3>1, <3>2 DEF Shape
  <2>j. index' = [index EXCEPT ![b] = index[catalog.build]]
    BY <1>3, <2>k, <2>i DEF LoadCards
  <2>4. Sources'
    BY <1>3, <1>t, <1>r, <1>a, <2>k, <2>j
    DEF LoadCards, Goto, SerialInv, Sources, TypeOK, BuildId
  <2>5. Swept'
    BY <1>3, <1>t, <1>n, <1>r, <1>a
    DEF SerialInv, TypeOK, LoadCards, Goto, Swept
  <2>6. ActiveIndexComplete'
    BY <1>3, <1>t, <1>n, <1>r, <1>a
    DEF SerialInv, TypeOK, LoadCards, Goto, ActiveIndexComplete, Roles, Active
  <2> QED  BY <1>t, <2>1, <2>2, <2>3, <2>4, <2>5, <2>6 DEF SerialInv
<1>4. ASSUME NEW b \in Build, FindPrevious(b)
      PROVE  SerialInv'
  <2>1. Alone'
    BY <1>4, <1>t, <1>n, <1>r, <1>a
    DEF SerialInv, TypeOK, FindPrevious, Alone
  <2>2. Roles'
    BY <1>4, <1>t, <1>n, <1>r, <1>a
    DEF SerialInv, TypeOK, FindPrevious, Roles, Active
  <2>3. Stored'
    BY <1>4, <1>t, <1>n, <1>r, <1>a
    DEF SerialInv, TypeOK, FindPrevious, Stored
  <2>4. Sources'
    BY <1>4, <1>t, <1>n, <1>r, <1>a
    DEF SerialInv, TypeOK, FindPrevious, Sources, KnownCatalogs, Known
  <2>5. Swept'
    BY <1>4, <1>t, <1>n, <1>r, <1>a
    DEF SerialInv, TypeOK, FindPrevious, Swept
  <2>6. ActiveIndexComplete'
    BY <1>4, <1>t, <1>n, <1>r, <1>a
    DEF SerialInv, TypeOK, FindPrevious, ActiveIndexComplete, Roles, Active
  <2> QED  BY <1>t, <2>1, <2>2, <2>3, <2>4, <2>5, <2>6 DEF SerialInv
<1>5. ASSUME NEW b \in Build, ReadPrevious(b)
      PROVE  SerialInv'
  <2>1. Alone'
    BY <1>5, <1>t, <1>n, <1>r, <1>a
    DEF SerialInv, TypeOK, ReadPrevious, Goto, Alone
  <2>2. Roles'
    BY <1>5, <1>t, <1>n, <1>r, <1>a
    DEF SerialInv, TypeOK, ReadPrevious, Goto, Roles, Active
  <2>3. Stored'
    BY <1>5, <1>t, <1>n, <1>r, <1>a
    DEF SerialInv, TypeOK, ReadPrevious, Goto, Stored
  <2>4. Sources'
    BY <1>5, <1>t, <1>n, <1>r, <1>a
    DEF SerialInv, TypeOK, ReadPrevious, Goto, Sources, KnownCatalogs, Known
  <2>5. Swept'
    BY <1>5, <1>t, <1>n, <1>r, <1>a
    DEF SerialInv, TypeOK, ReadPrevious, Goto, Swept
  <2>6. ActiveIndexComplete'
    BY <1>5, <1>t, <1>n, <1>r, <1>a
    DEF SerialInv, TypeOK, ReadPrevious, Goto, ActiveIndexComplete, Roles, Active
  <2> QED  BY <1>t, <2>1, <2>2, <2>3, <2>4, <2>5, <2>6 DEF SerialInv
<1>6. ASSUME NEW b \in Build, Embed(b)
      PROVE  SerialInv'
  <2>1. Alone'
    BY <1>6, <1>t, <1>n, <1>r, <1>a
    DEF SerialInv, TypeOK, Embed, Goto, Alone
  <2>2. Roles'
    BY <1>6, <1>t, <1>n, <1>r, <1>a
    DEF SerialInv, TypeOK, Embed, Goto, Roles, Active
  <2>3. Stored'
    BY <1>6, <1>t, <1>n, <1>r, <1>a
    DEF SerialInv, TypeOK, Embed, Goto, Stored
  <2>4. Sources'
    BY <1>6, <1>t, <1>n, <1>r, <1>a
    DEF SerialInv, TypeOK, Embed, Goto, Sources, KnownCatalogs, Known
  <2>5. Swept'
    BY <1>6, <1>t, <1>n, <1>r, <1>a
    DEF SerialInv, TypeOK, Embed, Goto, Swept
  <2>6. ActiveIndexComplete'
    BY <1>6, <1>t, <1>n, <1>r, <1>a
    DEF SerialInv, TypeOK, Embed, Goto, ActiveIndexComplete, Roles, Active
  <2> QED  BY <1>t, <2>1, <2>2, <2>3, <2>4, <2>5, <2>6 DEF SerialInv
<1>7. ASSUME NEW b \in Build, PutVector(b)
      PROVE  SerialInv'
  <2>1. Alone'
    BY <1>7, <1>t, <1>n, <1>r, <1>a
    DEF SerialInv, TypeOK, PutVector, Alone
  <2>2. Roles'
    BY <1>7, <1>t, <1>n, <1>r, <1>a
    DEF SerialInv, TypeOK, PutVector, Roles, Active
  <2>3. Stored'
    BY <1>7, <1>t, <1>n, <1>r, <1>a
    DEF SerialInv, TypeOK, PutVector, Stored
  <2>4. Sources'
    BY <1>7, <1>t, <1>n, <1>r, <1>a
    DEF SerialInv, TypeOK, PutVector, Sources, KnownCatalogs, Known
  <2>5. Swept'
    BY <1>7, <1>t, <1>n, <1>r, <1>a
    DEF SerialInv, TypeOK, PutVector, Swept
  <2>6. ActiveIndexComplete'
    BY <1>7, <1>t, <1>n, <1>r, <1>a
    DEF SerialInv, TypeOK, PutVector, ActiveIndexComplete, Roles, Active
  <2> QED  BY <1>t, <2>1, <2>2, <2>3, <2>4, <2>5, <2>6 DEF SerialInv
<1>8. ASSUME NEW b \in Build, PutVectorsEnd(b)
      PROVE  SerialInv'
  <2>1. Alone'
    BY <1>8, <1>t, <1>n, <1>r, <1>a
    DEF SerialInv, TypeOK, PutVectorsEnd, Goto, Alone
  <2>2. Roles'
    BY <1>8, <1>t, <1>n, <1>r, <1>a
    DEF SerialInv, TypeOK, PutVectorsEnd, Goto, Roles, Active
  <2>3. Stored'
    BY <1>8, <1>t, <1>n, <1>r, <1>a
    DEF SerialInv, TypeOK, PutVectorsEnd, Goto, Stored
  <2>4. Sources'
    BY <1>8, <1>t, <1>n, <1>r, <1>a
    DEF SerialInv, TypeOK, PutVectorsEnd, Goto, Sources, KnownCatalogs, Known
  <2>5. Swept'
    BY <1>8, <1>t, <1>n, <1>r, <1>a
    DEF SerialInv, TypeOK, PutVectorsEnd, Goto, Swept
  <2>6. ActiveIndexComplete'
    BY <1>8, <1>t, <1>n, <1>r, <1>a
    DEF SerialInv, TypeOK, PutVectorsEnd, Goto, ActiveIndexComplete, Roles, Active
  <2> QED  BY <1>t, <2>1, <2>2, <2>3, <2>4, <2>5, <2>6 DEF SerialInv
<1>9. ASSUME NEW b \in Build, CheckVectors(b)
      PROVE  SerialInv'
  <2>1. Alone'
    BY <1>9, <1>t, <1>n, <1>r, <1>a
    DEF SerialInv, TypeOK, CheckVectors, Goto, Alone
  <2>2. Roles'
    BY <1>9, <1>t, <1>n, <1>r, <1>a
    DEF SerialInv, TypeOK, CheckVectors, Goto, Roles, Active
  <2>k. vectors[b] = VectorsOf(NavNodes(index[b]), model[b])
    <3>1. /\ OneTextPerNode(index[b])
          /\ vectors[b] \subseteq VectorsOf(NavNodes(index[b]), model[b])
      BY DEF SerialInv, Provenance, RowsOfBuild, BuildId
    <3> QED  BY <1>9, <3>1, EveryNodeEveryVector DEF CheckVectors
  <2>3. Stored'
    BY <1>9, <1>t, <1>r, <1>a, <2>k DEF CheckVectors, Goto, SerialInv, TypeOK, Stored
  <2>4. Sources'
    BY <1>9, <1>t, <1>n, <1>r, <1>a
    DEF SerialInv, TypeOK, CheckVectors, Goto, Sources, KnownCatalogs, Known
  <2>5. Swept'
    BY <1>9, <1>t, <1>n, <1>r, <1>a
    DEF SerialInv, TypeOK, CheckVectors, Goto, Swept
  <2>6. ActiveIndexComplete'
    BY <1>9, <1>t, <1>n, <1>r, <1>a
    DEF SerialInv, TypeOK, CheckVectors, Goto, ActiveIndexComplete, Roles, Active
  <2> QED  BY <1>t, <2>1, <2>2, <2>3, <2>4, <2>5, <2>6 DEF SerialInv
<1>10. ASSUME NEW b \in Build, PutCard(b)
       PROVE  SerialInv'
  <2>1. Alone'
    BY <1>10, <1>t, <1>n, <1>r, <1>a
    DEF SerialInv, TypeOK, PutCard, Alone
  <2>2. Roles'
    BY <1>10, <1>t, <1>n, <1>r, <1>a
    DEF SerialInv, TypeOK, PutCard, Roles, Active
  <2>3. Stored'
    BY <1>10, <1>t, <1>n, <1>r, <1>a
    DEF SerialInv, TypeOK, PutCard, Stored
  <2>4. Sources'
    BY <1>10, <1>t, <1>n, <1>r, <1>a
    DEF SerialInv, TypeOK, PutCard, Sources, KnownCatalogs, Known
  <2>5. Swept'
    BY <1>10, <1>t, <1>n, <1>r, <1>a
    DEF SerialInv, TypeOK, PutCard, Swept
  <2>6. ActiveIndexComplete'
    BY <1>10, <1>t, <1>n, <1>r, <1>a
    DEF SerialInv, TypeOK, PutCard, ActiveIndexComplete, Roles, Active
  <2> QED  BY <1>t, <2>1, <2>2, <2>3, <2>4, <2>5, <2>6 DEF SerialInv
<1>11. ASSUME NEW b \in Build, PutCardsEnd(b)
       PROVE  SerialInv'
  <2>1. Alone'
    BY <1>11, <1>t, <1>n, <1>r, <1>a
    DEF SerialInv, TypeOK, PutCardsEnd, Goto, Alone
  <2>2. Roles'
    BY <1>11, <1>t, <1>n, <1>r, <1>a
    DEF SerialInv, TypeOK, PutCardsEnd, Goto, Roles, Active
  <2>3. Stored'
    BY <1>11, <1>t, <1>n, <1>r, <1>a
    DEF SerialInv, TypeOK, PutCardsEnd, Goto, Stored
  <2>4. Sources'
    BY <1>11, <1>t, <1>n, <1>r, <1>a
    DEF SerialInv, TypeOK, PutCardsEnd, Goto, Sources, KnownCatalogs, Known
  <2>5. Swept'
    BY <1>11, <1>t, <1>n, <1>r, <1>a
    DEF SerialInv, TypeOK, PutCardsEnd, Goto, Swept
  <2>6. ActiveIndexComplete'
    BY <1>11, <1>t, <1>n, <1>r, <1>a
    DEF SerialInv, TypeOK, PutCardsEnd, Goto, ActiveIndexComplete, Roles, Active
  <2> QED  BY <1>t, <2>1, <2>2, <2>3, <2>4, <2>5, <2>6 DEF SerialInv
<1>12. ASSUME NEW b \in Build, CheckCards(b)
       PROVE  SerialInv'
  <2>1. Alone'
    BY <1>12, <1>t, <1>n, <1>r, <1>a
    DEF SerialInv, TypeOK, CheckCards, Goto, Alone
  <2>2. Roles'
    BY <1>12, <1>t, <1>n, <1>r, <1>a
    DEF SerialInv, TypeOK, CheckCards, Goto, Roles, Active
  <2>k. cards[b] = index[b].cards
    <3>1. OneTextPerNode(index[b]) /\ cards[b] \subseteq index[b].cards
      BY DEF SerialInv, Provenance, RowsOfBuild, BuildId
    <3> QED  BY <1>12, <3>1, EveryNodeEveryCard DEF CheckCards
  <2>3. Stored'
    BY <1>12, <1>t, <1>r, <1>a, <2>k DEF CheckCards, Goto, SerialInv, TypeOK, Stored
  <2>4. Sources'
    BY <1>12, <1>t, <1>n, <1>r, <1>a
    DEF SerialInv, TypeOK, CheckCards, Goto, Sources, KnownCatalogs, Known
  <2>5. Swept'
    BY <1>12, <1>t, <1>n, <1>r, <1>a
    DEF SerialInv, TypeOK, CheckCards, Goto, Swept
  <2>6. ActiveIndexComplete'
    BY <1>12, <1>t, <1>n, <1>r, <1>a
    DEF SerialInv, TypeOK, CheckCards, Goto, ActiveIndexComplete, Roles, Active
  <2> QED  BY <1>t, <2>1, <2>2, <2>3, <2>4, <2>5, <2>6 DEF SerialInv
<1>13. ASSUME NEW b \in Build, Publish(b)
       PROVE  SerialInv'
  <2>1. Alone'
    BY <1>13, <1>t, <1>n, <1>r, <1>a
    DEF SerialInv, TypeOK, Publish, Goto, CatalogRow, CardRowsOf, Alone
  <2>k. /\ catalog' = [build |-> b, cols |-> index[b].cols, model |-> model[b]]
        /\ pc[b] = "publish" /\ pc' = [pc EXCEPT ![b] = "dropCards"]
        /\ todo' = [todo EXCEPT ![b] = CardRowsOf(BuildId \ {b})]
        /\ UNCHANGED <<cards, vectors, index, model, source>>
    BY <1>13 DEF Publish, Goto, CatalogRow
  <2>j. catalog' # NoCatalog /\ catalog'.build = b
    BY <1>t, <2>k, CatalogAssumption DEF TypeOK, Catalog, BuildId, Shape
  <2>i. \A row \in CardRowsOf(BuildId \ {b}) : row[1] # b
    BY DEF CardRowsOf
  <2>o. \A o \in Build : o # b => pc'[o] = pc[o] /\ pc[o] \notin Running
    BY <1>t, <1>r, <1>a, <2>k DEF TypeOK
  <2>p. pc'[b] = "dropCards" /\ todo'[b] = CardRowsOf(BuildId \ {b})
    BY <1>t, <2>k DEF TypeOK
  <2>2. Roles'
    <3>1. ASSUME NEW o \in Build, o # b
          PROVE  /\ ~Active(o)'
                 /\ pc'[o] \notin Dropping \cup Undoing \cup {"loadCards"}
      BY <1>r, <2>j, <2>o, <3>1 DEF Active
    <3> QED  BY <1>r, <2>i, <2>j, <2>p, <3>1 DEF Roles, Active
  <2>3. Stored'
    BY <1>13, <1>t, <1>n, <1>r, <1>a
    DEF SerialInv, TypeOK, Publish, Goto, CatalogRow, CardRowsOf, Stored
  <2>4. Sources'
    BY <1>13, <1>t, <1>n, <1>r, <1>a
    DEF SerialInv, TypeOK, Publish, Goto, CatalogRow, CardRowsOf, Sources, KnownCatalogs, Known
  <2>5. Swept'
    BY <1>13, <1>t, <1>n, <1>r, <1>a
    DEF SerialInv, TypeOK, Publish, Goto, CatalogRow, CardRowsOf, Swept
  <2>6. ActiveIndexComplete'
    <3>1. /\ cards[b] = index[b].cards
          /\ model[b] # NoModel =>
               vectors[b] = VectorsOf(NavNodes(index[b]), model[b])
      BY <2>k DEF SerialInv, Stored
    <3> QED  BY <2>k, <3>1 DEF ActiveIndexComplete
  <2> QED  BY <1>t, <2>1, <2>2, <2>3, <2>4, <2>5, <2>6 DEF SerialInv
<1>14. ASSUME NEW b \in Build, DeleteCard(b)
       PROVE  SerialInv'
  <2>1. Alone'
    BY <1>14, <1>t, <1>n, <1>r, <1>a
    DEF SerialInv, TypeOK, DeleteCard, Alone
  <2>2. Roles'
    BY <1>14, <1>t, <1>n, <1>r, <1>a
    DEF SerialInv, TypeOK, DeleteCard, Roles, Active
  <2>3. Stored'
    BY <1>14, <1>t, <1>n, <1>r, <1>a
    DEF SerialInv, TypeOK, DeleteCard, Stored
  <2>4. Sources'
    BY <1>14, <1>t, <1>n, <1>r, <1>a
    DEF SerialInv, TypeOK, DeleteCard, Sources, KnownCatalogs, Known
  <2>5. Swept'
    BY <1>14, <1>t, <1>n, <1>r, <1>a
    DEF SerialInv, TypeOK, DeleteCard, Swept
  <2>6. ActiveIndexComplete'
    BY <1>14, <1>t, <1>n, <1>r, <1>a
    DEF SerialInv, TypeOK, DeleteCard, ActiveIndexComplete, Roles, Active
  <2> QED  BY <1>t, <2>1, <2>2, <2>3, <2>4, <2>5, <2>6 DEF SerialInv
<1>15. ASSUME NEW b \in Build, DeleteVector(b)
       PROVE  SerialInv'
  <2>1. Alone'
    BY <1>15, <1>t, <1>n, <1>r, <1>a
    DEF SerialInv, TypeOK, DeleteVector, Alone
  <2>2. Roles'
    BY <1>15, <1>t, <1>n, <1>r, <1>a
    DEF SerialInv, TypeOK, DeleteVector, Roles, Active
  <2>3. Stored'
    BY <1>15, <1>t, <1>n, <1>r, <1>a
    DEF SerialInv, TypeOK, DeleteVector, Stored
  <2>4. Sources'
    BY <1>15, <1>t, <1>n, <1>r, <1>a
    DEF SerialInv, TypeOK, DeleteVector, Sources, KnownCatalogs, Known
  <2>5. Swept'
    BY <1>15, <1>t, <1>n, <1>r, <1>a
    DEF SerialInv, TypeOK, DeleteVector, Swept
  <2>6. ActiveIndexComplete'
    BY <1>15, <1>t, <1>n, <1>r, <1>a
    DEF SerialInv, TypeOK, DeleteVector, ActiveIndexComplete, Roles, Active
  <2> QED  BY <1>t, <2>1, <2>2, <2>3, <2>4, <2>5, <2>6 DEF SerialInv
<1>16. ASSUME NEW b \in Build, DeleteCardsEnd(b)
       PROVE  SerialInv'
  <2>1. Alone'
    BY <1>16, <1>t, <1>n, <1>r, <1>a
    DEF SerialInv, TypeOK, DeleteCardsEnd, Goto, VectorRowsOf, Alone
  <2>2. Roles'
    BY <1>16, <1>t, <1>n, <1>r, <1>a
    DEF SerialInv, TypeOK, DeleteCardsEnd, Goto, VectorRowsOf, Roles, Active
  <2>3. Stored'
    BY <1>16, <1>t, <1>n, <1>r, <1>a
    DEF SerialInv, TypeOK, DeleteCardsEnd, Goto, VectorRowsOf, Stored
  <2>4. Sources'
    BY <1>16, <1>t, <1>n, <1>r, <1>a
    DEF SerialInv, TypeOK, DeleteCardsEnd, Goto, VectorRowsOf, Sources, KnownCatalogs, Known
  <2>5. Swept'
    <3>o. \A o \in Build : o # b => pc'[o] = pc[o] /\ pc[o] \notin Running
      BY <1>16, <1>t, <1>r, <1>a DEF TypeOK, DeleteCardsEnd, Goto
    <3>1. ASSUME pc[b] = "dropCards", NEW o \in BuildId \ {b}
          PROVE  cards[o] = {} /\ \A v \in vectors[o] :
                   <<o, v>> \in VectorRowsOf(BuildId \ {b})
      <4>1. todo[b] = {}  BY <1>16 DEF DeleteCardsEnd
      <4>2. \A e \in cards[o] : <<o, e>> \in todo[b]
        BY <3>1 DEF SerialInv, Swept
      <4>3. cards[o] = {}  BY <4>1, <4>2
      <4> QED  BY <4>3 DEF VectorRowsOf
    <3>2. pc'[b] = "dropVectors" =>
            pc[b] = "dropCards" /\ todo'[b] = VectorRowsOf(BuildId \ {b})
      BY <1>16, <1>t DEF TypeOK, DeleteCardsEnd, Goto
    <3>3. pc'[b] # "dropCards"
      BY <1>16, <1>t DEF TypeOK, DeleteCardsEnd, Goto
    <3>4. cards' = cards /\ vectors' = vectors
      BY <1>16 DEF DeleteCardsEnd
    <3> QED  BY <1>r, <3>o, <3>1, <3>2, <3>3, <3>4 DEF Swept
  <2>6. ActiveIndexComplete'
    BY <1>16, <1>t, <1>n, <1>r, <1>a
    DEF SerialInv, TypeOK, DeleteCardsEnd, Goto, VectorRowsOf, ActiveIndexComplete, Roles, Active
  <2> QED  BY <1>t, <2>1, <2>2, <2>3, <2>4, <2>5, <2>6 DEF SerialInv
<1>17. ASSUME NEW b \in Build, DeleteVectorsEnd(b)
       PROVE  SerialInv'
  <2>1. Alone'
    BY <1>17, <1>t, <1>n, <1>r, <1>a
    DEF SerialInv, TypeOK, DeleteVectorsEnd, Goto, Alone
  <2>2. Roles'
    BY <1>17, <1>t, <1>n, <1>r, <1>a
    DEF SerialInv, TypeOK, DeleteVectorsEnd, Goto, Roles, Active
  <2>3. Stored'
    BY <1>17, <1>t, <1>n, <1>r, <1>a
    DEF SerialInv, TypeOK, DeleteVectorsEnd, Goto, Stored
  <2>4. Sources'
    BY <1>17, <1>t, <1>n, <1>r, <1>a
    DEF SerialInv, TypeOK, DeleteVectorsEnd, Goto, Sources, KnownCatalogs, Known
  <2>5. Swept'
    BY <1>17, <1>t, <1>n, <1>r, <1>a
    DEF SerialInv, TypeOK, DeleteVectorsEnd, Goto, Swept
  <2>6. ActiveIndexComplete'
    BY <1>17, <1>t, <1>n, <1>r, <1>a
    DEF SerialInv, TypeOK, DeleteVectorsEnd, Goto, ActiveIndexComplete, Roles, Active
  <2> QED  BY <1>t, <2>1, <2>2, <2>3, <2>4, <2>5, <2>6 DEF SerialInv
<1>18. ASSUME NEW b \in Build, StageFails(b)
       PROVE  SerialInv'
  <2>1. Alone'
    BY <1>18, <1>t, <1>n, <1>r, <1>a
    DEF SerialInv, TypeOK, StageFails, CardRowsOf, Alone
  <2>2. Roles'
    BY <1>18, <1>t, <1>n, <1>r, <1>a
    DEF SerialInv, TypeOK, StageFails, CardRowsOf, Roles, Active
  <2>3. Stored'
    BY <1>18, <1>t, <1>n, <1>r, <1>a
    DEF SerialInv, TypeOK, StageFails, CardRowsOf, Stored
  <2>4. Sources'
    BY <1>18, <1>t, <1>n, <1>r, <1>a
    DEF SerialInv, TypeOK, StageFails, CardRowsOf, Sources, KnownCatalogs, Known
  <2>5. Swept'
    BY <1>18, <1>t, <1>n, <1>r, <1>a
    DEF SerialInv, TypeOK, StageFails, CardRowsOf, Swept
  <2>6. ActiveIndexComplete'
    BY <1>18, <1>t, <1>n, <1>r, <1>a
    DEF SerialInv, TypeOK, StageFails, CardRowsOf, ActiveIndexComplete, Roles, Active
  <2> QED  BY <1>t, <2>1, <2>2, <2>3, <2>4, <2>5, <2>6 DEF SerialInv
<1>19. ASSUME NEW b \in Build, CallRaises(b) \/ Crash(b)
       PROVE  SerialInv'
  <2>1. Alone'
    BY <1>19, <1>t, <1>n, <1>r, <1>a
    DEF SerialInv, TypeOK, CallRaises, Crash, Alone
  <2>2. Roles'
    BY <1>19, <1>t, <1>n, <1>r, <1>a
    DEF SerialInv, TypeOK, CallRaises, Crash, Roles, Active
  <2>3. Stored'
    BY <1>19, <1>t, <1>n, <1>r, <1>a
    DEF SerialInv, TypeOK, CallRaises, Crash, Stored
  <2>4. Sources'
    BY <1>19, <1>t, <1>n, <1>r, <1>a
    DEF SerialInv, TypeOK, CallRaises, Crash, Sources, KnownCatalogs, Known
  <2>5. Swept'
    BY <1>19, <1>t, <1>n, <1>r, <1>a
    DEF SerialInv, TypeOK, CallRaises, Crash, Swept
  <2>6. ActiveIndexComplete'
    BY <1>19, <1>t, <1>n, <1>r, <1>a
    DEF SerialInv, TypeOK, CallRaises, Crash, ActiveIndexComplete, Roles, Active
  <2> QED  BY <1>t, <2>1, <2>2, <2>3, <2>4, <2>5, <2>6 DEF SerialInv
<1>20. CASE UNCHANGED <<store, pc, job, todo>>
  BY <1>20, <1>t
  DEF SerialInv, Alone, Roles, Active, Stored, Sources, Swept, ActiveIndexComplete
<1>21. ASSUME NEW r \in Reader, Load(r)
       PROVE  UNCHANGED <<store, pc, job, todo>>
  BY <1>21 DEF Load, LoadCatalog, LoadBundleCards, LoadBundleVectors
<1>22. ASSUME NEW b \in Build, PublishUnacknowledged(b)
       PROVE  FALSE
  BY <1>22 DEF PublishUnacknowledged
<1> QED
  BY <1>1, <1>2, <1>3, <1>4, <1>5, <1>6, <1>7, <1>8, <1>9, <1>10, <1>11, <1>12, <1>13, <1>14, <1>15, <1>16, <1>17, <1>18, <1>19, <1>20, <1>21, <1>22
  DEF Next, Save, Stage

\* The serial invariant holds in every state of such a store.
LEMMA AlwaysSerial ==
  ASSUME Serial, ~LostAck
  PROVE  Spec => []SerialInv
<1>1. SerialInv /\ [Next]_vars => SerialInv'  BY StepSerial
<1> QED  BY InitSerial, <1>1, PTL DEF Spec

\* With saves one at a time, the catalog never names an index with a missing
\* card or vector - through failures and crashes of any step.
THEOREM ActiveIndexAlwaysComplete ==
  ASSUME Serial, ~LostAck
  PROVE  Spec => []ActiveIndexComplete
<1>1. SerialInv => ActiveIndexComplete  BY DEF SerialInv
<1> QED  BY <1>1, AlwaysSerial, PTL

\* A save that returns has removed every row of every other build, the ones
\* crashed and failed saves left behind included.
THEOREM FinishedSavesSweep ==
  ASSUME Serial, ~LostAck
  PROVE  Spec => DoneSavesSweep
<1>1. SerialInv /\ [Next]_vars =>
        [\A b \in Build : pc[b] # "done" /\ pc'[b] = "done" =>
           \A o \in BuildId \ {b} : cards'[o] = {} /\ vectors'[o] = {}]_vars
  <2> SUFFICES ASSUME SerialInv, [Next]_vars, NEW b \in Build,
                      pc[b] # "done", pc'[b] = "done", NEW o \in BuildId \ {b}
               PROVE  cards'[o] = {} /\ vectors'[o] = {}
    OBVIOUS
  <2>t. TypeOK  BY DEF SerialInv, Provenance, Typed
  <2>1. DeleteVectorsEnd(b) /\ pc[b] = "dropVectors"
    <3> USE <2>t DEF TypeOK, vars, store, job, reader
    <3>1. ASSUME NEW r \in Reader, Load(r) PROVE FALSE
      BY <3>1 DEF Load, LoadCatalog, LoadBundleCards, LoadBundleVectors
    <3>2. ASSUME NEW a \in Build, Save(a) PROVE DeleteVectorsEnd(a) /\ a = b
      <4>1. CASE \E i \in Index, m \in Model \cup {NoModel} : IndexDatabase(a, i, m)
        BY <4>1 DEF IndexDatabase
      <4>2. CASE (\E m \in Model : UpgradeVectors(a, m)) \/ LoadCards(a)
        BY <4>2 DEF UpgradeVectors, LoadCards, Goto
      <4>3. CASE Stage(a)
        BY <4>3 DEF Stage, FindPrevious, ReadPrevious, Embed, PutVector,
                    PutVectorsEnd, CheckVectors, PutCard, PutCardsEnd,
                    CheckCards, Goto
      <4>4. CASE Publish(a) \/ PublishUnacknowledged(a)
        BY <4>4 DEF Publish, PublishUnacknowledged, Goto
      <4>5. CASE DeleteCard(a) \/ DeleteCardsEnd(a) \/ DeleteVector(a)
        BY <4>5 DEF DeleteCard, DeleteCardsEnd, DeleteVector, Goto
      <4>6. CASE StageFails(a) \/ CallRaises(a) \/ Crash(a)
        BY <4>6 DEF StageFails, CallRaises, Crash
      <4>7. CASE DeleteVectorsEnd(a)
        BY <4>7 DEF DeleteVectorsEnd, Goto
      <4> QED  BY <3>2, <4>1, <4>2, <4>3, <4>4, <4>5, <4>6, <4>7 DEF Save
    <3>3. DeleteVectorsEnd(b)  BY <3>1, <3>2 DEF Next
    <3> QED  BY <3>3 DEF DeleteVectorsEnd, Goto
  <2>2. cards' = cards /\ vectors' = vectors /\ todo[b] = {}
    BY <2>1 DEF DeleteVectorsEnd, store
  <2> QED  BY <2>1, <2>2 DEF SerialInv, Swept
<1> QED  BY <1>1, AlwaysSerial, PTL DEF Spec, DoneSavesSweep

-----------------------------------------------------------------------------
(* What readers hold. *)

\* No reader has seen the catalog row of a build that is not published yet.
Unseen ==
  \A b \in Build : pc[b] \in {"idle"} \cup Loading \cup Staging =>
    \A r \in Reader : bundle[r].catalog # NoCatalog => bundle[r].catalog.build # b

\* While the catalog is the one it began with, a load has read whole rows.
ReadWhole ==
  \A r \in Reader :
    rpc[r] \in {"readVectors", "loaded"} /\ catalog # NoCatalog /\ bundle[r].catalog = catalog =>
      /\ bundle[r].cards = index[catalog.build].cards
      /\ rpc[r] = "loaded" /\ catalog.model # NoModel /\ bundle[r].model = catalog.model =>
           bundle[r].status = "ready"

ReaderInv == SerialInv /\ Unseen /\ ReadWhole

\* Nobody has read anything at the start.
LEMMA InitReaders == Init => ReaderInv
BY InitSerial DEF Init, ReaderInv, Unseen, ReadWhole, NoBundle

\* A step of a save that leaves the catalog, the index it names and the readers alone.
LEMMA QuietReaders ==
  ASSUME Unseen, ReadWhole, UNCHANGED <<catalog, reader>>,
         catalog # NoCatalog => index'[catalog.build] = index[catalog.build],
         \A o \in Build : pc'[o] \in {"idle"} \cup Loading \cup Staging =>
                          pc[o] \in {"idle"} \cup Loading \cup Staging
  PROVE  Unseen' /\ ReadWhole'
BY DEF Unseen, ReadWhole, reader

\* A vector for every node of a whole index makes its bundle ready.
LEMMA WholeIsReady ==
  ASSUME NEW c, NEW i, NEW m, NEW bun, bun.catalog = c, bun.model = m, c.model = m,
         m # NoModel, c.build # Legacy, c.cols = i.cols, bun.cards = i.cards,
         bun.vectors = VectorsOf(NavNodes(i), m)
  PROVE  Semantic(bun) = "ready"
<1>1. BundleNodes(bun) = NavNodes(i)
  BY DEF BundleNodes, NavNodes
<1>2. ASSUME NEW e \in NavNodes(i) PROVE \E v \in bun.vectors : v.node = e.node
  <2>1. [node |-> e.node, text |-> e.text, model |-> m] \in bun.vectors
    BY DEF VectorsOf
  <2> QED  BY <2>1
<1> QED  BY <1>1, <1>2 DEF Semantic

\* Every step keeps what readers hold whole: a save changes no published index, a
\* published build is a new one to every reader, and a find under the same catalog row
\* returns all of its rows.
LEMMA StepReaders ==
  ASSUME Serial, ~LostAck
  PROVE  ReaderInv /\ [Next]_vars => ReaderInv'
<1> SUFFICES ASSUME ReaderInv, [Next]_vars PROVE ReaderInv'  OBVIOUS
<1> USE DEF vars, store, job, reader
<1>t. /\ SerialInv /\ SerialInv' /\ Unseen /\ ReadWhole /\ TypeOK /\ TypeOK'
      /\ KnownCatalogs /\ Roles /\ ActiveIndexComplete
  BY StepSerial DEF ReaderInv, SerialInv, Provenance, Typed
<1>p. /\ Loading = {"loadCards"} /\ Dropping = {"dropCards", "dropVectors"}
      /\ Staging = {"findPrevious", "readPrevious", "embed", "putVectors",
                    "checkVectors", "putCards", "checkCards", "publish"}
      /\ Ended = {"done", "failed", "raised", "crashed"}
  BY DEF Loading, Staging, Dropping, Ended
<1>1. ASSUME NEW b \in Build, NEW i,
             pc[b] \in Undecided, index' = [index EXCEPT ![b] = i], UNCHANGED catalog
      PROVE  catalog # NoCatalog => index'[catalog.build] = index[catalog.build]
  <2>1. catalog # NoCatalog => catalog.build # b /\ catalog.build \in BuildId
    BY <1>1, <1>t, StoreAssumption DEF KnownCatalogs, Known, TypeOK, Catalog
  <2> QED  BY <1>1, <1>t, <2>1 DEF TypeOK
<1>2. ASSUME NEW b \in Build, NEW i \in Index, NEW m \in Model \cup {NoModel}, IndexDatabase(b, i, m)
      PROVE  Unseen' /\ ReadWhole'
  <2>1. catalog # NoCatalog => index'[catalog.build] = index[catalog.build]
    <3>1. pc[b] \in Undecided /\ index' = [index EXCEPT ![b] = i] /\ UNCHANGED catalog
      BY <1>2 DEF IndexDatabase, MayStart, Undecided
    <3> QED  BY <1>1, <3>1
  <2>2. \A o \in Build : pc'[o] = pc[o] \/ pc[o] = "idle"
    BY <1>2, <1>t DEF IndexDatabase, MayStart, TypeOK
  <2> QED  BY <1>2, <1>t, <2>1, <2>2, QuietReaders DEF IndexDatabase
<1>3. ASSUME NEW b \in Build, LoadCards(b) PROVE Unseen' /\ ReadWhole'
  <2>1. catalog # NoCatalog => index'[catalog.build] = index[catalog.build]
    <3> DEFINE i == [cards |-> cards[source[b].build], cols |-> source[b].cols]
    <3>1. pc[b] \in Undecided /\ index' = [index EXCEPT ![b] = i] /\ UNCHANGED catalog
      BY <1>3 DEF LoadCards, Goto, Undecided
    <3> HIDE DEF i
    <3> QED  BY <1>1, <3>1
  <2>2. \A o \in Build : pc'[o] = pc[o] \/ pc[o] = "loadCards"
    BY <1>3, <1>t DEF LoadCards, Goto, TypeOK
  <2> QED  BY <1>3, <1>t, <1>p, <2>1, <2>2, QuietReaders DEF LoadCards
<1>4. ASSUME NEW b \in Build, Publish(b) PROVE Unseen' /\ ReadWhole'
  <2>1. /\ catalog' = CatalogRow(b) /\ UNCHANGED <<index, reader>>
        /\ pc[b] = "publish" /\ pc' = [pc EXCEPT ![b] = "dropCards"]
    BY <1>4 DEF Publish, Goto
  <2>2. \A r \in Reader : bundle[r].catalog # NoCatalog => bundle[r].catalog.build # b
    BY <1>t, <1>p, <2>1 DEF Unseen
  <2>3. \A r \in Reader : catalog' # NoCatalog => bundle'[r].catalog # catalog'
    BY <2>1, <2>2 DEF CatalogRow
  <2>4. \A o \in Build : pc'[o] = pc[o] \/ pc'[o] = "dropCards"
    BY <2>1, <1>t DEF TypeOK
  <2>5. Unseen'  BY <1>t, <1>p, <2>1, <2>4 DEF Unseen
  <2>6. ReadWhole'  BY <2>3 DEF ReadWhole
  <2> QED  BY <2>5, <2>6
<1>5. ASSUME NEW b \in Build, PublishUnacknowledged(b) PROVE FALSE
  BY <1>5 DEF PublishUnacknowledged
<1>6. ASSUME NEW b \in Build,
             \/ \E m \in Model : UpgradeVectors(b, m)
             \/ Stage(b)
             \/ DeleteCard(b) \/ DeleteCardsEnd(b)
             \/ DeleteVector(b) \/ DeleteVectorsEnd(b)
             \/ StageFails(b) \/ CallRaises(b) \/ Crash(b)
      PROVE  Unseen' /\ ReadWhole'
  <2>1. UNCHANGED <<catalog, index, reader>>
    BY <1>6
    DEF UpgradeVectors, Stage, FindPrevious, ReadPrevious, Embed, PutVector,
        PutVectorsEnd, CheckVectors, PutCard, PutCardsEnd, CheckCards, DeleteCard,
        DeleteCardsEnd, DeleteVector, DeleteVectorsEnd, StageFails, CallRaises, Crash
  <2>2. \A o \in Build : \/ pc'[o] = pc[o]
                        \/ pc[o] \in {"idle"} \cup Loading \cup Staging
                        \/ pc'[o] \in Dropping \cup Undoing \cup Ended
    <3> USE <1>t, <1>p DEF TypeOK, Goto, Undoing
    <3>1. CASE \E m \in Model : UpgradeVectors(b, m)
      BY <3>1 DEF UpgradeVectors, MayStart
    <3>2. CASE Stage(b)
      BY <3>2 DEF Stage, FindPrevious, ReadPrevious, Embed, PutVector,
                  PutVectorsEnd, CheckVectors, PutCard, PutCardsEnd, CheckCards
    <3>3. CASE DeleteCard(b) \/ DeleteCardsEnd(b) \/ DeleteVector(b) \/ DeleteVectorsEnd(b)
      BY <3>3 DEF DeleteCard, DeleteCardsEnd, DeleteVector, DeleteVectorsEnd
    <3>4. CASE StageFails(b) \/ CallRaises(b) \/ Crash(b)
      BY <3>4 DEF StageFails, CallRaises, Crash
    <3> QED  BY <1>6, <3>1, <3>2, <3>3, <3>4
  <2>3. \A x \in Dropping \cup Undoing \cup Ended : x \notin {"idle"} \cup Loading \cup Staging
    BY <1>p DEF Undoing
  <2> QED  BY <1>t, <2>1, <2>2, <2>3, QuietReaders
<1>7. ASSUME NEW r \in Reader, NEW m \in Model \cup {NoModel}, LoadCatalog(r, m)
      PROVE  Unseen' /\ ReadWhole'
  <2>1. UNCHANGED <<catalog, pc, index>>
    BY <1>7 DEF LoadCatalog
  <2>2. \A q \in Reader : q # r => rpc'[q] = rpc[q] /\ bundle'[q] = bundle[q]
    BY <1>7, <1>t DEF LoadCatalog, TypeOK
  <2>3. /\ bundle'[r].catalog = catalog
        /\ catalog # NoCatalog => rpc'[r] = "readCards"
    BY <1>7, <1>t DEF LoadCatalog, TypeOK, NoBundle
  <2>4. Unseen'
    <3>1. \A b \in Build : pc[b] \in {"idle"} \cup Loading \cup Staging /\ catalog # NoCatalog =>
            catalog.build # b
      BY <1>t, <1>p DEF Roles, Active
    <3> QED  BY <1>t, <2>1, <2>2, <2>3, <3>1 DEF Unseen
  <2>5. ReadWhole'  BY <1>t, <2>1, <2>2, <2>3 DEF ReadWhole
  <2> QED  BY <2>4, <2>5
<1>8. ASSUME NEW r \in Reader, LoadBundleCards(r) PROVE Unseen' /\ ReadWhole'
  <2>1. UNCHANGED <<catalog, pc, index>>
    BY <1>8 DEF LoadBundleCards
  <2>2. \A q \in Reader : q # r => rpc'[q] = rpc[q] /\ bundle'[q] = bundle[q]
    BY <1>8, <1>t DEF LoadBundleCards, TypeOK
  <2>3. /\ bundle'[r].catalog = bundle[r].catalog /\ rpc'[r] = "readVectors"
        /\ bundle'[r].cards = cards[bundle[r].catalog.build]
    BY <1>8, <1>t DEF LoadBundleCards, TypeOK, Bundle
  <2>4. Unseen'  BY <1>t, <2>1, <2>2, <2>3 DEF Unseen
  <2>5. ReadWhole'
    <3>1. catalog # NoCatalog /\ bundle[r].catalog = catalog =>
            bundle'[r].cards = index[catalog.build].cards
      BY <1>t, <2>3 DEF ActiveIndexComplete
    <3> QED  BY <1>t, <2>1, <2>2, <2>3, <3>1 DEF ReadWhole
  <2> QED  BY <2>4, <2>5
<1>9. ASSUME NEW r \in Reader, LoadBundleVectors(r) PROVE Unseen' /\ ReadWhole'
  <2> DEFINE bun == [bundle[r] EXCEPT !.vectors = IF bundle[r].catalog.build = Legacy
                                                  THEN {}
                                                  ELSE vectors[bundle[r].catalog.build]]
  <2>1. UNCHANGED <<catalog, pc, index>> /\ rpc[r] = "readVectors"
    BY <1>9 DEF LoadBundleVectors
  <2>2. \A q \in Reader : q # r => rpc'[q] = rpc[q] /\ bundle'[q] = bundle[q]
    BY <1>9, <1>t DEF LoadBundleVectors, TypeOK
  <2>3. bundle'[r] = [bun EXCEPT !.status = Semantic(bun)] /\ bundle[r] \in Bundle
    BY <1>9, <1>t DEF LoadBundleVectors, TypeOK
  <2>4. /\ bun.catalog = bundle[r].catalog /\ bun.cards = bundle[r].cards /\ bun.model = bundle[r].model
        /\ bundle[r].catalog.build # Legacy => bun.vectors = vectors[bundle[r].catalog.build]
    BY <2>3 DEF Bundle
  <2>5. /\ bundle'[r].catalog = bundle[r].catalog /\ bundle'[r].cards = bundle[r].cards
        /\ bundle'[r].model = bundle[r].model /\ bundle'[r].status = Semantic(bun)
    <3>1. bun = [bundle[r] EXCEPT !.vectors = bun.vectors] /\ DOMAIN bun = DOMAIN bundle[r]
      BY <2>3 DEF Bundle
    <3>2. {"catalog", "cards", "model", "status"} \subseteq DOMAIN bun
      BY <2>3, <3>1 DEF Bundle
    <3> HIDE DEF bun
    <3> QED  BY <2>3, <2>4, <3>2
  <2>6. Unseen'  BY <1>t, <2>1, <2>2, <2>5 DEF Unseen
  <2>7. ASSUME catalog # NoCatalog, bundle[r].catalog = catalog
        PROVE  /\ bundle'[r].cards = index[catalog.build].cards
               /\ catalog.model # NoModel /\ bundle[r].model = catalog.model =>
                    bundle'[r].status = "ready"
    <3>1. bundle[r].cards = index[catalog.build].cards
      BY <1>t, <2>1, <2>7 DEF ReadWhole
    <3>2. ASSUME catalog.model # NoModel, bundle[r].model = catalog.model
          PROVE  Semantic(bun) = "ready"
      <4>1. catalog.cols = index[catalog.build].cols /\ catalog.build # Legacy
        BY <1>t, <2>7, <3>2 DEF KnownCatalogs, Known
      <4>2. vectors[catalog.build] = VectorsOf(NavNodes(index[catalog.build]), catalog.model)
        BY <1>t, <2>7, <3>2 DEF ActiveIndexComplete
      <4> HIDE DEF bun
      <4> QED  BY <2>4, <2>7, <3>1, <3>2, <4>1, <4>2, WholeIsReady
    <3> QED  BY <2>5, <3>1, <3>2
  <2>8. ReadWhole'
    <3> SUFFICES ASSUME NEW q \in Reader, rpc'[q] \in {"readVectors", "loaded"},
                        catalog # NoCatalog, bundle'[q].catalog = catalog
                 PROVE  /\ bundle'[q].cards = index[catalog.build].cards
                        /\ rpc'[q] = "loaded" /\ catalog.model # NoModel
                             /\ bundle'[q].model = catalog.model => bundle'[q].status = "ready"
      BY <2>1 DEF ReadWhole
    <3>1. CASE q = r
      BY <2>5, <2>7, <3>1
    <3>2. CASE q # r
      <4>1. rpc'[q] = rpc[q] /\ bundle'[q] = bundle[q]
        BY <2>2, <3>2
      <4>2. /\ bundle[q].cards = index[catalog.build].cards
            /\ rpc[q] = "loaded" /\ catalog.model # NoModel /\ bundle[q].model = catalog.model =>
                 bundle[q].status = "ready"
        BY <1>t, <4>1 DEF ReadWhole
      <4> QED  BY <4>1, <4>2
    <3> QED  BY <3>1, <3>2
  <2> QED  BY <2>6, <2>8
<1>10. ASSUME UNCHANGED vars PROVE Unseen' /\ ReadWhole'
  BY <1>10, <1>t, QuietReaders
<1> QED
  BY <1>t, <1>2, <1>3, <1>4, <1>5, <1>6, <1>7, <1>8, <1>9, <1>10 DEF ReaderInv, Next, Save, Load

\* A reader that finds the catalog row it began with has read the whole index: the one
\* check a load would need not to be torn.
THEOREM UnchangedCatalogIsEnough ==
  ASSUME Serial, ~LostAck
  PROVE  Spec => []UnchangedCatalogMeansWhole
<1>1. ReaderInv /\ [Next]_vars => ReaderInv'  BY StepReaders
<1>2. ReaderInv => UnchangedCatalogMeansWhole
  BY DEF ReaderInv, ReadWhole, UnchangedCatalogMeansWhole
<1> QED  BY InitReaders, <1>1, <1>2, PTL DEF Spec

-----------------------------------------------------------------------------
(* Refinement. *)

\* Readers of the catalog see whole indexes replaced in one step: the store
\* implements PublishedIndex.
THEOREM StoreImplementsPublishedIndex ==
  ASSUME Serial, ~LostAck
  PROVE  Spec => ImplementsPublishedIndex
<1>1. Init => Abstract!Init
  <2> SUFFICES ASSUME Init PROVE Abstract!Init  OBVIOUS
  <2>1. CASE catalog = NoCatalog
    BY <2>1 DEF Abstract!Init, Visible
  <2>2. CASE catalog # NoCatalog
    <3>1. PICK i \in Index :
            /\ catalog = [build |-> Legacy, cols |-> i.cols, model |-> NoModel]
            /\ index = [b \in BuildId |-> IF b = Legacy THEN i ELSE NoShape]
      BY <2>2 DEF Init
    <3>2. cards[Legacy] = i.cards  BY <3>1 DEF Init, BuildId
    <3>3. Visible = Abstract!Whole(i, NoModel)
      BY <2>2, <3>1, <3>2 DEF Visible, Abstract!Whole
    <3> QED  BY <3>3 DEF Abstract!Init
  <2> QED  BY <2>1, <2>2
<1>2. SerialInv /\ SerialInv' /\ [Next]_vars => [Abstract!Publish]_Visible
  <2> SUFFICES ASSUME SerialInv, SerialInv', [Next]_vars
               PROVE  Abstract!Publish \/ Visible' = Visible
    OBVIOUS
  <2> USE DEF vars, store, job, reader
  <2>t. /\ TypeOK /\ TypeOK' /\ KnownCatalogs /\ KnownCatalogs'
        /\ ActiveIndexComplete /\ ActiveIndexComplete' /\ Sources'
    BY DEF SerialInv, Provenance, Typed
  <2>1. ASSUME NEW b \in Build, Publish(b) PROVE Abstract!Publish
    <3>1. /\ catalog' = [build |-> b, cols |-> index[b].cols, model |-> model[b]]
          /\ index' = index /\ model' = model
      BY <2>1 DEF Publish, CatalogRow
    <3>2. catalog' # NoCatalog /\ catalog'.build = b /\ catalog'.model = model[b]
      BY <2>t, <3>1, CatalogAssumption DEF TypeOK, Catalog, BuildId, Shape
    <3>3. Visible' = Abstract!Whole(index[b], model[b])
      BY <2>t, <3>1, <3>2
      DEF Visible, Abstract!Whole, Abstract!NavNodes, Abstract!VectorsOf,
          NavNodes, VectorsOf, ActiveIndexComplete
    <3>4. index[b] \in Index /\ model[b] \in Model \cup {NoModel}
      BY <2>t, <3>1, <3>2 DEF Sources, TypeOK
    <3> QED  BY <3>3, <3>4 DEF Abstract!Publish
  <2>2. ASSUME catalog' = catalog,
               catalog # NoCatalog => index'[catalog.build] = index[catalog.build]
        PROVE  Visible' = Visible
    BY <2>2, <2>t DEF Visible, ActiveIndexComplete
  <2>3. ASSUME NEW b \in Build, NEW i \in Shape,
               pc[b] \in Undecided, index' = [index EXCEPT ![b] = i], catalog' = catalog
        PROVE  Visible' = Visible
    <3>1. catalog # NoCatalog => catalog.build # b /\ catalog.build \in BuildId
      BY <2>3, <2>t, StoreAssumption DEF KnownCatalogs, Known, TypeOK, Catalog
    <3> QED  BY <2>2, <2>3, <2>t, <3>1 DEF TypeOK
  <2>4. ASSUME NEW b \in Build, NEW i \in Index, NEW m \in Model \cup {NoModel},
               IndexDatabase(b, i, m)
        PROVE  Visible' = Visible
    BY <2>3, <2>4, IndexIsShape DEF IndexDatabase, MayStart, Undecided
  <2>5. ASSUME NEW b \in Build, LoadCards(b) PROVE Visible' = Visible
    <3>1. source[b] \in Catalog
      BY <2>5, <2>t DEF LoadCards, Goto, SerialInv, Provenance, Typed, Shaped, TypeOK
    <3>2. [cards |-> cards[source[b].build], cols |-> source[b].cols] \in Shape
      BY <2>t, <3>1 DEF TypeOK, Catalog, Shape
    <3> QED  BY <2>3, <2>5, <3>2 DEF LoadCards, Goto, Undecided
  <2>6. ASSUME NEW b \in Build, PublishUnacknowledged(b) PROVE FALSE
    BY <2>6 DEF PublishUnacknowledged
  <2>7. ASSUME NEW b \in Build,
               \/ \E m \in Model : UpgradeVectors(b, m)
               \/ Stage(b)
               \/ DeleteCard(b) \/ DeleteCardsEnd(b)
               \/ DeleteVector(b) \/ DeleteVectorsEnd(b)
               \/ StageFails(b) \/ CallRaises(b) \/ Crash(b)
        PROVE  catalog' = catalog /\ index' = index
    BY <2>7
    DEF UpgradeVectors, Stage, FindPrevious, ReadPrevious, Embed, PutVector,
        PutVectorsEnd, CheckVectors, PutCard, PutCardsEnd, CheckCards, DeleteCard,
        DeleteCardsEnd, DeleteVector, DeleteVectorsEnd, StageFails, CallRaises, Crash
  <2>8. ASSUME NEW r \in Reader, Load(r) PROVE catalog' = catalog /\ index' = index
    BY <2>8 DEF Load, LoadCatalog, LoadBundleCards, LoadBundleVectors
  <2>9. CASE UNCHANGED vars  BY <2>2, <2>9
  <2> QED
    BY <2>1, <2>2, <2>4, <2>5, <2>6, <2>7, <2>8, <2>9 DEF Next, Save
<1>3. Init /\ [][Next]_vars /\ []SerialInv => Abstract!Init /\ [][Abstract!Publish]_Visible
  BY <1>1, <1>2, PTL
<1> QED  BY <1>3, AlwaysSerial DEF Spec, ImplementsPublishedIndex, Abstract!Spec
=============================================================================
