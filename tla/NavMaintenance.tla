--------------------------- MODULE NavMaintenance ---------------------------
(***************************************************************************)
(* Building a navigation tree and a chunk index and keeping them in step   *)
(* with the documents: build_hierarchy (app/indexing/hierarchy_builder.py),*)
(* rebuild_dirty_groups and rebuild_rag_chunks_for_ids (incremental.py)    *)
(* and the chunk pass of scripts/build_scale.py, run by several workers    *)
(* over one database while the documents change.                           *)
(*                                                                         *)
(* Every read and every write of the database is a step of its own; a      *)
(* worker may crash between any two.  insert_many writes node after node.  *)
(***************************************************************************)
EXTENDS Baselines

CONSTANTS
  Worker,
  Job,                 \* what a worker may be asked
  Source,              \* the documents at the start: [collection -> Seq(document)]
  Edit,                \* [coll, doc, drop]: documents written or removed meanwhile
  MaxEdits,            \* bound on them
  MaxCustomerNodes,    \* the 80 of build_hierarchy
  ChunkSize, ChunkOverlap,
  Question             \* asked of the tree, see ReadsStayInside

ASSUME MaintenanceAssumption ==
  {MaxEdits, ChunkOverlap} \subseteq Nat /\ ChunkSize \in Nat \ {0}

Given    == UNION {ToSet(Source[c]) : c \in DOMAIN Source}
Document == Given \cup {e.doc : e \in Edit}

\* The database keeps ids unique in a collection.
ASSUME DocumentAssumption ==
  /\ Source = [c \in DOMAIN Source |-> Source[c]]
  /\ \A c \in DOMAIN Source : /\ IsList(Source[c])
                              /\ \A i, k \in DOMAIN Source[c] : Source[c][i]._id = Source[c][k]._id => i = k
  /\ \A e \in Edit : e.coll \in DOMAIN Source /\ e.drop \in BOOLEAN
  /\ \A d \in Document : d.length \in Nat /\ IsList(d.words) /\ "words" \in DOMAIN d /\ Digest[d._id] \in Nat

\* The table of weights has all that a collection may need while it is edited.
ASSUME TableAssumption ==
  \A c \in DOMAIN Source : \A n \in 1 .. Len(Source[c]) + MaxEdits : n \in DOMAIN Idf /\ 1 .. n \subseteq DOMAIN Idf[n]

\* Collections exist, a build names each once, and groups are asked of at least one document.
ASSUME JobAssumption ==
  \A j \in Job :
    /\ j.kind \in {"build", "dirty", "chunks", "rag"}
    /\ j.kind = "build" => /\ IsList(j.collections) /\ j.collections # <<>>
                           /\ ToSet(j.collections) \subseteq DOMAIN Source
                           /\ \A i, k \in DOMAIN j.collections : j.collections[i] = j.collections[k] => i = k
                           /\ j.strategy \in {"topical", "semantic"} => j.target \in Nat \ {0}
    /\ j.kind = "dirty" => j.target \in Nat \ {0}
    /\ j.kind # "build" => j.coll \in DOMAIN Source

\* Readers name collections that exist, each once, and ask for no more than the tools give.
ASSUME QuestionAssumption ==
  \A q \in Question :
    /\ {q.cap, q.limit} \subseteq 1 .. 20 /\ IsFiniteSet(q.ask.words) /\ IsList(q.ids)
    /\ q.coll \in DOMAIN Source /\ IsList(q.collections) /\ ToSet(q.collections) \subseteq DOMAIN Source
    /\ \A i, k \in DOMAIN q.collections : q.collections[i] = q.collections[k] => i = k

VARIABLES
  source,              \* [collection -> Seq(document)]
  nodes,               \* nav_nodes, in natural order
  chunks,              \* rag_chunks, in natural order
  pc, job,             \* of each worker
  have,                \* what a worker has read and prepared
  alone,               \* no other worker ran and nothing was edited since it began
  ended,               \* the job that ended alone in the last step, if any, and what it had
  edits                \* how many there were

worker == <<pc, job, have, alone>>
vars   == <<source, nodes, chunks, worker, ended, edits>>

Nothing == [count |-> <<>>, batch |-> <<>>, dirty |-> <<>>, ids |-> {}, fresh |-> {}, at |-> 1]
Idle    == [kind |-> "none"]
Over    == {"done", "raised", "crashed"}
Running == {w \in Worker : pc[w] \notin {"idle", "over"}}
Ended(j, had) == [job |-> j, dirty |-> had.dirty, fresh |-> had.fresh]
NoneEnded     == Ended(Idle, Nothing)

-----------------------------------------------------------------------------
(* The documents and nodes of a tree.                                      *)

DbId       == <<"db">>
ColId(c)   == <<"col", c>>
GroupId(c, key) == <<"group", c, key>>
DocId(c, id)    == <<"doc", c, id>>

Node(id, tenant, type, parent, coll, ids, filter, entities, count, children, text) ==
  [_id |-> id, tenant |-> tenant, type |-> type, parent |-> parent, coll |-> coll, document_ids |-> ids,
   filter |-> filter, entities |-> entities, count |-> count, children |-> children, text |-> text]

DbNode(j, counts) ==
  Node(DbId, j.tenant, "database", NoNode, "", <<>>, AnyDocument, {},
       SumFunction(counts), Len(j.collections), {})

GroupNode(c, tenant, g) ==
  Node(GroupId(c, g.key), tenant, "group", ColId(c), c, g.document_ids, g.filter, g.entities,
       g.document_count, 0, g.terms)

CustomerNode(c, tenant, d) ==
  Node(DocId(c, d._id), tenant, "document", ColId(c), c, <<d._id>>,
       [AnyDocument EXCEPT !.ids = {d._id}], {d._id}, 1, 0, WordsOf(d))

Words(c) == UNION {WordsOf(source[c][i]) : i \in DOMAIN source[c]}
Slice(c, tenant, below) ==
  Filter(source[c], LAMBDA d : d.tenant = tenant /\ (below = 0 \/ d.seq < below))

\* _groups_for
GroupsFor(c, j) ==
  LET docs == Slice(c, j.tenant, j.below)
  IN  IF j.strategy = "semantic" THEN SemanticGroups(docs, j.tenant, j.target)
      ELSE IF j.strategy = "topical" THEN TopicalGroups(docs, j.tenant, j.target)
      ELSE IF j.below # 0 THEN CustomerGroups(ToSet(docs), j.tenant, j.below)
      ELSE IF c = "customers" THEN {}
      ELSE IF c = "logs" THEN CustomerMonthGroups(ToSet(docs), j.tenant)
      ELSE CustomerGroups(ToSet(docs), j.tenant, 0)

\* The nodes of the next collection of a build: its own, then one per group.
CollectionNodes(c, j, count, groups) ==
  <<Node(ColId(c), j.tenant, "collection", DbId, c, <<>>, AnyDocument, {}, count, Len(groups), Words(c))>>
    \o [i \in DOMAIN groups |-> GroupNode(c, j.tenant, groups[i])]

\* chunk_text: the intervals of a text of n characters.
Intervals(n) ==
  LET from[start \in 0 .. n] ==
        LET end == Smaller(n, start + ChunkSize)
        IN  IF start = n THEN <<>>
            ELSE <<<<start, end>>>> \o (IF end = n THEN <<>> ELSE from[Larger(end - ChunkOverlap, start + 1)])
  IN  from[0]

DocumentToChunks(c, d) ==
  LET parts == Intervals(d.length)
  IN  [i \in DOMAIN parts |-> [coll |-> c, id |-> d._id, tenant |-> d.tenant, piece |-> parts[i], words |-> d.words]]

-----------------------------------------------------------------------------
TypeOK ==
  /\ pc \in [Worker -> {"idle", "erase", "discover", "groups", "customers", "insert", "find", "read",
                        "delete", "chunk", "over"}]
  /\ job \in [Worker -> Job \cup {Idle}]
  /\ DOMAIN source = DOMAIN Source
  /\ \A i \in DOMAIN nodes : nodes[i].type \in {"database", "collection", "group", "document"}
  /\ alone \in [Worker -> BOOLEAN]
  /\ ended.job \in Job \cup {Idle}
  /\ edits \in 0 .. MaxEdits

Init ==
  /\ source = Source /\ nodes = <<>> /\ chunks = <<>>
  /\ pc = [w \in Worker |-> "idle"] /\ job = [w \in Worker |-> Idle]
  /\ have = [w \in Worker |-> Nothing]
  /\ alone = [w \in Worker |-> FALSE]
  /\ ended = NoneEnded /\ edits = 0

Start(w) ==
  /\ pc[w] = "idle"
  /\ \E j \in Job :
       /\ job' = [job EXCEPT ![w] = j]
       /\ pc' = [pc EXCEPT ![w] = CASE j.kind = "dirty" -> "find" [] OTHER -> "erase"]
  /\ alone' = [v \in Worker |-> v = w /\ Running = {}]
  /\ ended' = NoneEnded
  /\ UNCHANGED <<source, nodes, chunks, have, edits>>

\* The next step of a worker, and what it has by then; nothing is left of one that is over,
\* be it done, or by an exception or a crash.
Goto(w, where, had) ==
  /\ pc'    = [pc EXCEPT ![w] = IF where \in Over THEN "over" ELSE where]
  /\ job'   = [job EXCEPT ![w] = IF where \in Over THEN Idle ELSE @]
  /\ have'  = [have EXCEPT ![w] = IF where \in Over THEN Nothing ELSE had]
  /\ alone' = [alone EXCEPT ![w] = @ /\ where \notin Over]
  /\ ended' = IF where = "done" /\ alone[w] THEN Ended(job[w], had) ELSE NoneEnded
  /\ UNCHANGED <<source, edits>>

-----------------------------------------------------------------------------
(* build_hierarchy                                                         *)

Build(w) == job[w].kind = "build"
Column(w) == job[w].collections[have[w].at]

EraseTree(w) ==
  /\ pc[w] = "erase" /\ Build(w)
  /\ nodes' = Filter(nodes, LAMBDA n : n.tenant # job[w].tenant)
  /\ Goto(w, "discover", have[w]) /\ UNCHANGED chunks

\* discover_schema, of one collection: its count is of the documents of every tenant.
Discover(w) ==
  LET count == Append(have[w].count, Len(source[Column(w)]))
      last  == have[w].at = Len(job[w].collections)
  IN  /\ pc[w] = "discover"
      /\ Goto(w, IF last THEN "groups" ELSE "discover",
              [have[w] EXCEPT !.count = count, !.at = IF last THEN 1 ELSE @ + 1,
                              !.batch = IF last THEN <<DbNode(job[w], count)>> ELSE @])
      /\ UNCHANGED <<nodes, chunks>>

NextColumn(w, batch) ==
  LET last == have[w].at = Len(job[w].collections)
  IN  /\ Goto(w, IF last THEN "insert" ELSE "groups",
              [have[w] EXCEPT !.batch = batch, !.at = IF last THEN 1 ELSE @ + 1])
      /\ UNCHANGED <<nodes, chunks>>

HasCustomerNodes(w) ==
  Column(w) = "customers" /\ have[w].count[have[w].at] <= MaxCustomerNodes

Collect(w) ==
  /\ pc[w] = "groups"
  /\ \E groups \in {SetToSeq(GroupsFor(Column(w), job[w]))} :
       LET batch == have[w].batch \o CollectionNodes(Column(w), job[w], have[w].count[have[w].at], groups)
       IN  IF HasCustomerNodes(w)
           THEN Goto(w, "customers", [have[w] EXCEPT !.batch = batch]) /\ UNCHANGED <<nodes, chunks>>
           ELSE NextColumn(w, batch)

\* The second read of customers: a node for each, and the count of the first read.
Customers(w) ==
  LET c    == Column(w)
      docs == Slice(c, job[w].tenant, 0)
      full == [k \in DOMAIN have[w].batch |->
                 IF have[w].batch[k]._id = ColId(c)
                 THEN [have[w].batch[k] EXCEPT !.children = @ + have[w].count[have[w].at]]
                 ELSE have[w].batch[k]]
  IN  /\ pc[w] = "customers"
      /\ NextColumn(w, full \o [k \in DOMAIN docs |-> CustomerNode(c, job[w].tenant, docs[k])])

\* insert_many, ordered: it stops at the first node whose id is taken, and raises.
InsertNode(w) ==
  LET n     == have[w].batch[1]
      taken == \E i \in DOMAIN nodes : nodes[i]._id = n._id
  IN  /\ pc[w] = "insert" /\ Build(w)
      /\ nodes' = IF taken THEN nodes ELSE Append(nodes, n)
      /\ Goto(w, IF taken THEN "raised" ELSE IF Len(have[w].batch) = 1 THEN "done" ELSE "insert",
              [have[w] EXCEPT !.batch = Tail(@)])
      /\ UNCHANGED chunks

-----------------------------------------------------------------------------
(* rebuild_dirty_groups                                                    *)

\* groups_touching_ids: of the tenant, whatever their collection.
Touching(tenant, ids) ==
  Filter(nodes, LAMBDA n : /\ n.tenant = tenant /\ n.type = "group"
                              /\ ToSet(n.document_ids) \cap ids # {})

MembersOfChanged(dirty, changed) == changed           \* mutant: only the changed documents

Members(dirty, changed) == changed \cup UNION {ToSet(dirty[i].document_ids) : i \in DOMAIN dirty}

FindDirty(w) ==
  LET dirty == Touching(job[w].tenant, job[w].changed)
  IN  /\ pc[w] = "find"
      /\ Goto(w, "read", [have[w] EXCEPT !.dirty = dirty, !.ids = Members(dirty, job[w].changed)])
      /\ UNCHANGED <<nodes, chunks>>

\* The documents of the groups and their new groups, which only the caller gets.
ReadMembers(w) ==
  LET docs == Filter(source[job[w].coll], LAMBDA d : d._id \in have[w].ids)
  IN  /\ pc[w] = "read"
      /\ Goto(w, IF have[w].dirty = <<>> THEN "done" ELSE "delete",
              [have[w] EXCEPT !.fresh = IF docs = <<>> THEN {} ELSE TopicalGroups(docs, job[w].tenant, job[w].target)])
      /\ UNCHANGED <<nodes, chunks>>

DeleteDirty(w) ==
  /\ pc[w] = "delete"
  /\ nodes' = Filter(nodes, LAMBDA n : n._id # have[w].dirty[have[w].at]._id)
  /\ Goto(w, IF have[w].at = Len(have[w].dirty) THEN "done" ELSE "delete", [have[w] EXCEPT !.at = @ + 1])
  /\ UNCHANGED chunks

-----------------------------------------------------------------------------
(* rebuild_rag_chunks_for_ids, and the chunk pass over a whole tenant.     *)

StaleOfDocuments(j, ch) ==         \* mutant: only chunks of documents that still exist
  /\ ch.tenant = j.tenant
  /\ j.kind = "rag" \/ (ch.id \in j.changed /\ \E i \in DOMAIN source[ch.coll] : source[ch.coll][i]._id = ch.id)

Stale(j, ch) == ch.tenant = j.tenant /\ (j.kind = "rag" \/ ch.id \in j.changed)

EraseChunks(w) ==
  /\ pc[w] = "erase" /\ ~ Build(w)
  /\ chunks' = Filter(chunks, LAMBDA ch : ~ Stale(job[w], ch))
  /\ Goto(w, "chunk", have[w]) /\ UNCHANGED nodes

ToChunk(j) ==
  Filter(source[j.coll], LAMBDA d : IF j.kind = "rag" THEN d.tenant = j.tenant ELSE d._id \in j.changed)

Chunk(w) ==
  LET docs  == ToChunk(job[w])
      batch == FlattenSeq([i \in DOMAIN docs |-> DocumentToChunks(job[w].coll, docs[i])])
  IN  /\ pc[w] = "chunk"
      /\ Goto(w, IF batch = <<>> THEN "done" ELSE "insert", [have[w] EXCEPT !.batch = batch])
      /\ UNCHANGED <<nodes, chunks>>

InsertChunk(w) ==
  /\ pc[w] = "insert" /\ ~ Build(w)
  /\ chunks' = Append(chunks, have[w].batch[1])
  /\ Goto(w, IF Len(have[w].batch) = 1 THEN "done" ELSE "insert", [have[w] EXCEPT !.batch = Tail(@)])
  /\ UNCHANGED nodes

-----------------------------------------------------------------------------
(* The surroundings: documents change, processes die.                      *)

Without(seq, id) == Filter(seq, LAMBDA d : d._id # id)
Edited(docs, e) ==
  LET at == SelectInSeq(docs, LAMBDA d : d._id = e.doc._id)
  IN  IF e.drop THEN Without(docs, e.doc._id)
      ELSE IF at = 0 THEN Append(docs, e.doc) ELSE ReplaceAt(docs, at, e.doc)
EditSource ==
  /\ edits < MaxEdits
  /\ \E e \in Edit : source' = [source EXCEPT ![e.coll] = Edited(@, e)]
  /\ edits' = edits + 1
  /\ alone' = [w \in Worker |-> FALSE] /\ ended' = NoneEnded
  /\ UNCHANGED <<nodes, chunks, pc, job, have>>

Crash(w) ==
  /\ w \in Running
  /\ Goto(w, "crashed", Nothing) /\ UNCHANGED <<nodes, chunks>>

Step(w) ==
  \/ Start(w) \/ Crash(w)
  \/ EraseTree(w) \/ Discover(w) \/ Collect(w) \/ Customers(w) \/ InsertNode(w)
  \/ FindDirty(w) \/ ReadMembers(w) \/ DeleteDirty(w)
  \/ EraseChunks(w) \/ Chunk(w) \/ InsertChunk(w)

Next == EditSource \/ \E w \in Worker : Step(w)

Spec == Init /\ [][Next]_vars

-----------------------------------------------------------------------------
(* Properties.                                                             *)

Tree(tenant) == {i \in DOMAIN nodes : nodes[i].tenant = tenant}
Under(tenant, parent, type) ==
  {i \in Tree(tenant) : nodes[i].parent = parent /\ nodes[i].type = type}
Selects(i, d) == OnDocument(nodes[i].filter, nodes[i].tenant, d)

\* The documents that the strategy of a build means to put into groups.
Grouped(j, c) ==
  {d \in ToSet(Slice(c, j.tenant, j.below)) :
     \/ j.strategy \in {"topical", "semantic"}
     \/ /\ d.customer # ""
        /\ j.below # 0 \/ (c # "customers" /\ (c = "logs" => d.month # ""))}

\* A build that had the database to itself leaves a whole tree, whatever crashed
\* builds left before it: one database node, every parent present, every document
\* it grouped selected by exactly one group, every group counting what it selects,
\* and collections counting their children where all documents are the tenant's.
BuildsRight ==
  ended.job.kind = "build" =>
    LET j == ended.job
        tree == Tree(j.tenant)
    IN  /\ \E i \in tree : nodes[i].type = "database" /\ nodes[i].children = Len(j.collections)
        /\ \A i, k \in tree : nodes[i].type = nodes[k].type /\ nodes[i].type = "database" => i = k
        /\ \A i \in tree : nodes[i].type = "database" \/ \E k \in tree : nodes[k]._id = nodes[i].parent
        /\ \A c \in ToSet(j.collections) :
             LET groups == Under(j.tenant, ColId(c), "group")
                 all    == ToSet(source[c])
             IN  /\ \A d \in Grouped(j, c) : Cardinality({i \in groups : Selects(i, d)}) = 1
                 /\ \A i \in groups : nodes[i].count = Cardinality({d \in ToSet(Slice(c, j.tenant, j.below)) : Selects(i, d)})
                 /\ (\A d \in all : d.tenant = j.tenant) =>
                      \A i \in Under(j.tenant, DbId, "collection") : nodes[i].coll = c =>
                        nodes[i].children = Cardinality({k \in tree : nodes[k].parent = ColId(c)})

\* A rebuild of dirty groups that had the database to itself loses no document: each
\* that still exists, of a deleted group or named as changed, is in exactly one of the
\* new groups it hands to its caller, and none that changed is in a group that is left.
\* (Another member of a deleted group may be: two builds that ran at once leave groups
\* that overlap.)
MaintenanceForgetsNothing ==
  ended.job.kind = "dirty" =>
    LET j      == ended.job
        gone   == j.changed \cup UNION {ToSet(ended.dirty[i].document_ids) : i \in DOMAIN ended.dirty}
        coll   == j.coll
        exists == {d._id : d \in ToSet(source[coll])}
        new(id) == {g \in ended.fresh : Contains(g.document_ids, id)}
        left(id) == {i \in Under(j.tenant, ColId(coll), "group") : id \in ToSet(nodes[i].document_ids)}
    IN  /\ \A id \in gone \cap exists : Cardinality(new(id)) = 1
        /\ \A id \in j.changed : left(id) = {}

\* A chunk pass that had the database to itself leaves the chunks of each document it
\* is about exactly once, none of a document that is gone, and the pieces of a text
\* cover all of it.
ChunksFollowDocuments ==
  ended.job.kind \in {"chunks", "rag"} =>
    LET j     == ended.job
        about == IF j.kind = "chunks" THEN j.changed ELSE {ch.id : ch \in ToSet(chunks)} \cup {d._id : d \in ToSet(source[j.coll])}
        of(id) == Filter(chunks, LAMBDA ch : ch.id = id /\ ch.tenant = j.tenant)
        docs(id) == {d \in ToSet(source[j.coll]) : d._id = id /\ d.tenant = j.tenant}
    IN  \A id \in about :
          /\ docs(id) = {} => of(id) = <<>>
          /\ \A d \in docs(id) :
               /\ ToSet(of(id)) = ToSet(DocumentToChunks(j.coll, d))
               /\ Len(of(id)) = Cardinality(ToSet(of(id)))
               /\ \A p \in 0 .. d.length - 1 : \E ch \in ToSet(of(id)) : ch.piece[1] <= p /\ p < ch.piece[2]

SearchStaysInside(q) ==
  \A s \in {nodes[i]._id : i \in {k \in DOMAIN nodes : nodes[k].type \in {"database", "collection"}}} :
    LET found == SearchInformation(nodes, q.ask, q.mode, q.tenant, s, q.limit, Capabilities(q.embed, q.fusion).hybrid)
    IN  \A n \in ToSet(found.results) : n.tenant = q.tenant /\ n.parent = s

Belongs(r, q) == \E d \in ToSet(source[r.coll]) : d._id = r.id /\ d.tenant = q.tenant
EachOnce(refs) == Cardinality(ToSet(refs)) = Len(refs)

EvidenceInside(got, q) ==
  /\ Len(got.documents) <= q.cap /\ EachOnce(got.documents)
  /\ \A r \in ToSet(got.documents) : Belongs(r, q)
  /\ Len(got.documents) < q.cap =>
       ToSet(got.read) \cup ToSet(got.missing) = ToSet(Asked(q.ids))
  /\ \A n \in ToSet(got.related) : n.tenant = q.tenant
EvidenceStaysInside(q) ==
  EvidenceInside(RetrieveEvidence(nodes, source, q.ids, q.tenant, q.ask.words, q.cap, q.indexed), q)

QueriesAgree(q) ==
  LET asked == QueryDocuments(nodes, source, q.coll, q.filter, q.tenant, q.limit)
      plain == Find(source, q.coll, q.filter, q.tenant, q.limit)
      total == Count(source, q.coll, q.filter, q.tenant).count
  IN  /\ asked.documents = plain.documents /\ EachOnce(plain.documents)
      /\ Len(plain.documents) = Smaller(q.limit, total)
      /\ \A r \in ToSet(plain.documents) : Belongs(r, q)
      /\ \A n \in ToSet(asked.related) : n.tenant = q.tenant /\ n.coll # q.coll

RagStaysInside(q) ==
  LET rag == RunRag(chunks, q.ask.words, q.tenant, q.limit, q.mode, Capabilities(q.embed, q.fusion).hybrid)
  IN  /\ EachOnce(rag.documents) /\ Len(rag.citations) <= q.limit
      /\ \A r \in ToSet(rag.citations) :
           /\ Contains(rag.documents, r)
           /\ \E ch \in ToSet(chunks) : ch.coll = r.coll /\ ch.id = r.id /\ ch.tenant = q.tenant

MemoryHolds(q, held, orders, hits) ==
  /\ EachOnce(hits) /\ Len(hits) = Smaller(q.limit, Len(held))
  /\ \A h \in ToSet(hits), ch \in ToSet(held) \ ToSet(hits) :
       \E o \in ToSet(orders) : FirstAt(o, h) < FirstAt(o, ch)
\* It reads the documents and nothing else, so it is enough to look where no worker began.
MemoryRagHolds(q) ==
  LET held     == MemoryChunks(source, q.collections)
      embedder == q.embed = "accepted"
  IN  (\A w \in Worker : pc[w] = "idle") =>
      MemoryHolds(q, held, MemoryOrders(q.ask.words, held, embedder),
                  MemoryRagSearch(held, q.ask.words, q.limit, embedder))

\* Whatever state a reader finds the tree in, a search below a node returns children of
\* that node and of the tenant only, by every method the server may pick; reading nodes
\* returns documents of the tenant that exist, once each and no more than asked for,
\* accounting for every node: read, missing, or after the cap; a query, the plain find
\* and the count of the control agree; the chunks that answer a question are the
\* tenant's, of documents that are each listed once; and retrieval from memory leaves
\* out no document that each of its rankings puts before one it returns.
ReadsStayInside ==
  \A q \in Question : SearchStaysInside(q) /\ EvidenceStaysInside(q) /\ QueriesAgree(q) /\ RagStaysInside(q) /\ MemoryRagHolds(q)
=============================================================================
