------------------------------ MODULE Baselines ------------------------------
(***************************************************************************)
(* The controls a navigation tree is compared with: hybrid retrieval over  *)
(* chunks (run_rag of app/baseline/rag.py), the same over documents held   *)
(* in memory (app/baseline/memory_rag.py), and plain finds and counts      *)
(* (app/retrieval/mongo_mcp.py).                                           *)
(*                                                                         *)
(* A chunk is known by its place in its collection, since its own id says  *)
(* nothing of what it holds; it has the words of its whole document.       *)
(***************************************************************************)
EXTENDS NavSearch

ChunkText(ch) == ToSet(ch.words) \ {0}
HitText(hit) == ChunkText(hit.chunk)
Placed(chunks) == [i \in DOMAIN chunks |-> [at |-> i, chunk |-> chunks[i]]]

\* The lexical branch of _rank_fusion reads search_text, a field no chunk has.
RagHits(chunks, words, tenant, k, method, strategy) ==
  LET mine   == Filter(Placed(chunks), LAMBDA hit : hit.chunk.tenant = tenant)
      sem(n) == Upto(Relevance(mine, words, HitText), n)
      lex(n) == LexicalSearch(mine, words, HitText, LAMBDA hit : TRUE, n)
  IN  IF method = "vector" THEN sem(k)
      ELSE IF strategy = "rank_fusion" THEN Fused(<<sem(k), <<>>>>, k)
      ELSE Fused(<<lex(2 * k), sem(2 * k)>>, k)

\* A document is cited for each of its chunks, and listed once.
RunRag(chunks, words, tenant, k, method, strategy) ==
  LET hits  == RagHits(chunks, words, tenant, k, method, strategy)
      cited == [i \in DOMAIN hits |-> [coll |-> hits[i].chunk.coll, id |-> hits[i].chunk.id]]
  IN  [citations |-> cited, documents |-> Unique(cited)]

\* chunk_documents: one chunk for each document, of the collections in their order.
MemoryChunks(source, collections) ==
  FlattenSeq([i \in DOMAIN collections |->
    Mapped(source[collections[i]], LAMBDA d : [coll |-> collections[i], id |-> d._id, words |-> d.words])])

\* _lexical_order counts every occurrence of a word of the question; the embedder
\* ranks by the words a text shares with it.  Among equals the smaller document id
\* is first, in these instances the document that comes first.
LexicalOrder(words, chunks) ==
  SortedBy(chunks, LAMBDA ch : Len(Filter(ch.words, LAMBDA w : w \in words)))
MemoryOrders(words, chunks, embedder) ==
  <<LexicalOrder(words, chunks)>> \o (IF embedder THEN <<Relevance(chunks, words, ChunkText)>> ELSE <<>>)

FusedOrder(chunks, orders) == SortedBy(chunks, LAMBDA ch : FusedScore(orders, RrfK, ch))
MemoryRagSearch(chunks, words, k, embedder) == Upto(FusedOrder(chunks, MemoryOrders(words, chunks, embedder)), k)

\* find_tool and count_tool; a collection that is not reachable is an error.
Unreachable == [error |-> TRUE, documents |-> <<>>, count |-> 0]

Find(source, coll, filter, tenant, limit) ==
  LET rows == QueryNamespace(source, coll, filter, tenant, CapOf(limit, 10, 20))
  IN  IF coll \notin DOMAIN source THEN Unreachable
      ELSE [error |-> FALSE, documents |-> [k \in DOMAIN rows |-> Ref(coll, rows[k])], count |-> Len(rows)]

Count(source, coll, filter, tenant) ==
  IF coll \notin DOMAIN source THEN Unreachable
  ELSE [Unreachable EXCEPT !.error = FALSE, !.count = CountNamespace(source, coll, filter, tenant)]
=============================================================================
