----------------------------- MODULE NavSearch -----------------------------
(***************************************************************************)
(* Reading a navigation tree and the documents it points to: app/search    *)
(* (lexical, semantic, hybrid and structured search, the service over      *)
(* them) and the tools of app/retrieval/tools.py.                          *)
(*                                                                         *)
(* A collection is the sequence of its documents and nodes the sequence of *)
(* navigation nodes, each in natural order.  A question is a record of the *)
(* terms it holds and of what the router sees in it.  Atlas ranks a text   *)
(* by how many of those terms it holds; that ranking is external.          *)
(***************************************************************************)
EXTENDS Grouping

CONSTANTS
  RrfK,                      \* settings.rrf_k
  CustomerId,                \* the ids that start with cust_
  ChildPreview,              \* CHILD_PREVIEW
  RelatedLimit,              \* RELATED_LIMIT
  RelatedEntityCap           \* RELATED_ENTITY_CAP

ASSUME SearchAssumption == {RrfK, ChildPreview, RelatedLimit, RelatedEntityCap} \subseteq Nat

NoNode   == <<"none">>
AnyScope == [parent |-> NoNode, type |-> ""]
Raised   == <<[_id |-> <<"raised">>]>>     \* what a search that raises returns, in place of hits

\* What a filter selects among nodes or documents; inject_tenant overrides its tenant.
OnNode(scope, tenant, n) ==
  /\ n.tenant = tenant
  /\ scope.parent \in {NoNode, n.parent}
  /\ scope.type \in {"", n.type}
OnDocument(filter, tenant, d) ==
  /\ d.tenant = tenant
  /\ filter.ids # {} => d._id \in filter.ids
  /\ filter.customer \in {"", d.customer}
  /\ filter.month \in {"", d.month}
  /\ filter.below = 0 \/ d.seq < filter.below
AnyDocument == [ids |-> {}, customer |-> "", month |-> "", below |-> 0]

-----------------------------------------------------------------------------
(* The searches.  Text(x) is the set of terms of x, Keep(x) the filter.    *)

Hits(words, text) == Cardinality(words \cap text)
Relevance(seq, words, Text(_)) == SortedBy(seq, LAMBDA x : Hits(words, Text(x)))

LexicalSearch(seq, words, Text(_), Keep(_), limit) ==
  Upto(Relevance(Filter(seq, LAMBDA x : Keep(x) /\ Hits(words, Text(x)) > 0), words, Text), limit)

\* The vector index takes filters on these fields only; another makes the search raise.
VectorFiltersWithParent == {"tenant_id", "node_type", "parent_id"}    \* mutant

VectorFilters == {"tenant_id", "node_type"}

FilterFields(scope) ==
  {"tenant_id"} \cup (IF scope.parent # NoNode THEN {"parent_id"} ELSE {})
                \cup (IF scope.type # "" THEN {"node_type"} ELSE {})
CanFilter(scope) == FilterFields(scope) \subseteq VectorFilters

NodeText(n) == n.text
Structured(nodes, tenant, scope, limit) == Upto(Filter(nodes, LAMBDA n : OnNode(scope, tenant, n)), limit)

LexicalNodes(nodes, words, tenant, scope, limit) ==
  LexicalSearch(nodes, words, NodeText, LAMBDA n : OnNode(scope, tenant, n), limit)

SemanticNodes(nodes, words, tenant, scope, limit) ==
  IF ~ CanFilter(scope) THEN Raised
  ELSE Upto(Relevance(Filter(nodes, LAMBDA n : OnNode(scope, tenant, n)), words, NodeText), limit)

\* Reciprocal ranks of several lists, added up; the first met first among equals.
Fused(lists, limit) ==
  Upto(SortedBy(Unique(FlattenSeq(lists)), LAMBDA x : FusedScore(lists, RrfK, x)), limit)

\* reciprocal_rank_fusion: without the semantic list where that search raises.
ReciprocalRankFusion(nodes, words, tenant, scope, limit) ==
  LET sem == SemanticNodes(nodes, words, tenant, scope, 2 * limit)
  IN  Fused(<<LexicalNodes(nodes, words, tenant, scope, 2 * limit), IF sem = Raised THEN <<>> ELSE sem>>, limit)

\* _rank_fusion: its lexical branch filters by the tenant and by nothing else.
RankFusion(nodes, words, tenant, scope, limit) ==
  LET sem == SemanticNodes(nodes, words, tenant, scope, limit)
  IN  IF sem = Raised THEN Raised
      ELSE Fused(<<sem, LexicalNodes(nodes, words, tenant, AnyScope, limit)>>, limit)

HybridSearch(nodes, words, tenant, scope, limit, strategy) ==
  LET fused == IF strategy = "rank_fusion" THEN RankFusion(nodes, words, tenant, scope, limit) ELSE Raised
  IN  IF fused # Raised THEN fused ELSE ReciprocalRankFusion(nodes, words, tenant, scope, limit)

\* probe_capabilities: what the cluster said of an autoEmbed index and of $rankFusion.
Capabilities(autoEmbed, fusion) ==
  [embedding |-> IF autoEmbed = "accepted" THEN "atlas_auto" ELSE "manual",
   hybrid    |-> IF fusion = "unsupported" THEN "rrf" ELSE "rank_fusion"]

\* recommend_method
RecommendMethod(q) ==
  IF q.ids /\ ~ q.concept THEN "lexical"
  ELSE IF q.predicate /\ q.current THEN "mongo_query"
  ELSE IF q.concept /\ ~ q.ids THEN "semantic"
  ELSE "hybrid"

NavigationSearch(nodes, q, method, tenant, scope, limit, strategy) ==
  LET selected == IF method = "auto" THEN RecommendMethod(q) ELSE method
  IN  CASE selected = "lexical"     -> LexicalNodes(nodes, q.words, tenant, scope, limit)
        [] selected = "semantic"    -> SemanticNodes(nodes, q.words, tenant, scope, limit)
        [] selected = "mongo_query" -> Structured(nodes, tenant, scope, limit)
        [] OTHER -> HybridSearch(nodes, q.words, tenant, scope, limit, strategy)

-----------------------------------------------------------------------------
(* Documents of the source, by namespace and below a node.                 *)

WordsOf(d) == ToSet(d.words) \ {0}
QueryNamespace(source, coll, filter, tenant, limit) ==
  Upto(Filter(source[coll], LAMBDA d : OnDocument(filter, tenant, d)), limit)
CountNamespace(source, coll, filter, tenant) ==
  Len(Filter(source[coll], LAMBDA d : OnDocument(filter, tenant, d)))
ReadNamespace(source, coll, ids, tenant) ==
  Filter(source[coll], LAMBDA d : d.tenant = tenant /\ Contains(ids, d._id))

GetNode(nodes, id, tenant) == Filter(nodes, LAMBDA n : n._id = id /\ n.tenant = tenant)
GetChildren(nodes, id, tenant, limit) ==
  Upto(Filter(nodes, LAMBDA n : n.parent = id /\ n.tenant = tenant), limit)

\* search_within a node with a collection; indexed says whether the raw lexical
\* index is there: without it the search raises and the filter alone is used.
SearchWithin(source, node, words, tenant, limit, indexed) ==
  IF indexed
  THEN LexicalSearch(source[node.coll], words, WordsOf, LAMBDA d : OnDocument(node.filter, tenant, d), limit)
  ELSE QueryNamespace(source, node.coll, node.filter, tenant, limit)

DocsForNode(source, node, tenant, words, limit, indexed) ==
  LET within == IF words = {} \/ node.coll = "" THEN <<>>
                ELSE SearchWithin(source, node, words, tenant, limit, indexed)
      all    == QueryNamespace(source, node.coll, node.filter, tenant, limit)
  IN  IF node.coll = "" THEN <<>>
      ELSE IF node.type = "collection" THEN IF words # {} THEN within ELSE all
      ELSE IF node.type = "group" THEN IF within # <<>> THEN within ELSE all
      ELSE ReadNamespace(source, node.coll, node.document_ids, tenant)

Ref(coll, d) == [coll |-> coll, id |-> d._id]

-----------------------------------------------------------------------------
(* Related nodes: of other collections, about the entities in view.        *)

Entities(n) == ({n.filter.customer} \cup ToSet(n.document_ids) \cup n.entities) \cap CustomerId
EntityOrder(nodes, docs) ==
  Unique(FlattenSeq([i \in DOMAIN nodes |-> SetToSeq(Entities(nodes[i]))])
         \o FlattenSeq([i \in DOMAIN docs |-> Filter(<<docs[i]._id, docs[i].customer>>, LAMBDA e : e \in CustomerId)]))

TypeRank == [group |-> 0, document |-> 1, collection |-> 2]

\* select_related_nodes: the first of each collection, then the rest.
SelectRelated(pool, entities, skipIds, skipColls) ==
  LET fit == Filter(pool, LAMBDA n :
               /\ n._id \notin skipIds /\ n.coll \notin skipColls \cup {""}
               /\ n.type # "database"
               /\ (({n.filter.customer} \cup ToSet(n.document_ids) \cup n.entities) \cap entities) # {})
      matched == SortedBy(fit, LAMBDA n : 0 - TypeRank[n.type])
      first(k) == \A j \in 1 .. k - 1 : matched[j].coll # matched[k].coll
      firsts == {k \in DOMAIN matched : first(k)}
  IN  Upto(Picked(matched, firsts) \o Picked(matched, DOMAIN matched \ firsts), RelatedLimit)

RelatedNodes(nodes, tenant, hits, docs, docColls, skipColls) ==
  LET entities == ToSet(Upto(EntityOrder(hits, docs), RelatedEntityCap))
      pool == Filter(nodes, LAMBDA n : n.tenant = tenant /\ Entities(n) \cap entities # {})
  IN  IF entities = {} THEN <<>>
      ELSE SelectRelated(pool, entities, {hits[i]._id : i \in DOMAIN hits},
                         skipColls \cup docColls \cup {hits[i].coll : i \in DOMAIN hits})

-----------------------------------------------------------------------------
(* The tools.                                                              *)

SearchInformation(nodes, q, mode, tenant, scope, limit, strategy) ==
  LET hits == NavigationSearch(nodes, q, mode, tenant, [AnyScope EXCEPT !.parent = scope], limit, strategy)
  IN  IF hits = Raised THEN [raised |-> TRUE, results |-> <<>>, related |-> <<>>]
      ELSE [raised |-> FALSE, results |-> hits, related |-> RelatedNodes(nodes, tenant, hits, <<>>, {}, {})]

\* One requested node of retrieve_evidence, with the documents read so far.
NothingRead == [documents |-> <<>>, customers |-> <<>>, missing |-> <<>>, hints |-> <<>>, origins |-> <<>>, full |-> FALSE]

\* The documents of a node that were not read yet, up to the cap.
Take(got, node, cap, batch, kids) ==
  LET fresh == Filter(Unique(batch), LAMBDA d : ~ Contains(got.documents, Ref(node.coll, d)))
      taken == Upto(fresh, cap - Len(got.documents))
  IN  [got EXCEPT !.documents = @ \o [k \in DOMAIN taken |-> Ref(node.coll, taken[k])],
                  !.customers = @ \o taken,
                  !.hints = IF batch = <<>> /\ kids # <<>> THEN Append(@, node._id) ELSE @,
                  !.origins = Append(@, node),
                  !.full = Len(got.documents) + Len(taken) >= cap]

ReadNode(nodes, source, tenant, words, cap, indexed, got, id) ==
  LET found == GetNode(nodes, id, tenant)
  IN  IF got.full THEN got
      ELSE IF found = <<>> THEN [got EXCEPT !.missing = Append(@, id)]
      ELSE Take(got, found[1], cap,
                DocsForNode(source, found[1], tenant, words, Larger(2, Smaller(6, cap)), indexed),
                GetChildren(nodes, id, tenant, ChildPreview))

Asked(ids) == Upto(Filter(ids, LAMBDA id : id # NoNode), 8)
CapOf(asked, otherwise, most) == Larger(1, Smaller(IF asked = 0 THEN otherwise ELSE asked, most))

Evidence(nodes, tenant, got) ==
  [documents |-> got.documents, missing |-> got.missing, hints |-> got.hints,
   read |-> [i \in DOMAIN got.origins |-> got.origins[i]._id],
   related |-> RelatedNodes(nodes, tenant, got.origins, got.customers,
                            {got.documents[i].coll : i \in DOMAIN got.documents}, {})]
ReadAll(nodes, source, ids, tenant, words, cap, indexed) ==
  LET asked == Asked(ids)
      got[n \in 0 .. Len(asked)] ==
        IF n = 0 THEN NothingRead
        ELSE ReadNode(nodes, source, tenant, words, cap, indexed, got[n - 1], asked[n])
  IN  got[Len(asked)]

RetrieveEvidence(nodes, source, ids, tenant, words, maxDocuments, indexed) ==
  Evidence(nodes, tenant, ReadAll(nodes, source, ids, tenant, words, CapOf(maxDocuments, 8, 20), indexed))

QueryDocuments(nodes, source, coll, filter, tenant, limit) ==
  LET rows == QueryNamespace(source, coll, filter, tenant, CapOf(limit, 10, 20))
  IN  [documents |-> [k \in DOMAIN rows |-> Ref(coll, rows[k])],
       related |-> IF Len(rows) > 3 THEN <<>> ELSE RelatedNodes(nodes, tenant, <<>>, rows, {coll}, {coll})]
=============================================================================
