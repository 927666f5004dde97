------------------------------ MODULE Grouping ------------------------------
(***************************************************************************)
(* How documents become the groups of a navigation tree, from              *)
(* app/indexing/grouping.py (entities), topical_grouping.py (signatures,   *)
(* months, hash shards) and semantic_grouping.py (term splits, medoids).   *)
(*                                                                         *)
(* A document is [_id, tenant, customer, month, seq, words, label, length]:*)
(* its words are terms, numbered as the alphabet orders them, or stop      *)
(* words (0); "" is a missing customer or month; label is a scoring field. *)
(* Logarithms are a table of integers, and a cosine is the percentage of   *)
(* its square, so that scores compare as the code's floats do.             *)
(***************************************************************************)
EXTENDS Lists

CONSTANTS
  Idf,              \* Idf[n][d] is ten times ln((n+1)/(d+1)) + 1, rounded
  MinSide,          \* MIN_SIDE
  MaxPrototypes,    \* MAX_PROTOTYPES
  MaxGroups,        \* MAX_GROUPS
  MaxDepth,         \* the 12 of _recursive_split
  Digest            \* [document id -> Nat]: md5 of it

ASSUME GroupingAssumption ==
  /\ {MinSide, MaxPrototypes, MaxGroups, MaxDepth} \subseteq Nat \ {0}
  /\ \A n \in DOMAIN Idf : \A d \in DOMAIN Idf[n] : Idf[n][d] \in Nat \ {0}

\* Counter.most_common: by count, the first met first.
MostCommon(s) ==
  Ranked(ToSet(s), LAMBDA x, y : \/ Occurrences(s, x) > Occurrences(s, y)
                                 \/ /\ Occurrences(s, x) = Occurrences(s, y)
                                    /\ FirstAt(s, x) < FirstAt(s, y))

-----------------------------------------------------------------------------
(* What grouping may read of a document.                                   *)

Strip(d) == [d EXCEPT !.label = 0]
Tokenize(words) == Filter(words, LAMBDA w : w # 0)
DocumentText(d) == d.words
\* Upto has TLC tokenize each document once.
Tokens(docs) == Upto([i \in DOMAIN docs |-> Tokenize(DocumentText(Strip(docs[i])))], Len(docs))

Frequency(toks, t) == Cardinality({i \in DOMAIN toks : Contains(toks[i], t)})
IdfOf(toks) == [t \in UNION {ToSet(toks[i]) : i \in DOMAIN toks} |-> Idf[Len(toks)][Frequency(toks, t)]]

\* A group over documents named one by one; terms is what its node is searched by.
Group(tenant, key, docs, terms) ==
  [key |-> key, document_ids |-> [i \in DOMAIN docs |-> docs[i]._id], document_count |-> Len(docs),
   filter |-> [tenant |-> tenant, ids |-> {docs[i]._id : i \in DOMAIN docs}, customer |-> "", month |-> "", below |-> 0],
   entities |-> {docs[i].customer : i \in DOMAIN docs} \ {""}, terms |-> terms]

-----------------------------------------------------------------------------
(* topical_groups_from_docs                                                *)

\* _top_terms: the k heaviest terms of a document, the first met first.
TopTerms(toks, idf, k) ==
  Upto(Ranked(ToSet(toks), LAMBDA x, y :
         LET a == Occurrences(toks, x) * idf[x]
             b == Occurrences(toks, y) * idf[y]
         IN  a > b \/ (a = b /\ FirstAt(toks, x) < FirstAt(toks, y))), k)

Misc == <<"misc">>
Month(d) == IF d.month = "" THEN "unknown" ELSE d.month

\* _split_by_time: parts of at most target documents, or shards of a month.
ShardsKeepingFirst(docs, month, target) ==     \* mutant: only the first shard is kept
  {<<Filter(docs, LAMBDA d : Digest[d._id] % 2 = 0), <<month, 0>>>>}

Shards(docs, month, target) ==
  LET n    == Larger(2, Ceiling(Len(docs), target))
      in(s) == Filter(docs, LAMBDA d : Digest[d._id] % n = s)
  IN  {<<in(s), <<month, s>>>> : s \in {t \in 0 .. n - 1 : in(t) # <<>>}}

SplitByTime(docs, target) ==
  IF Len(docs) <= target
  THEN {<<docs, IF docs[1].month = "" THEN <<>> ELSE <<docs[1].month>>>>}
  ELSE UNION {LET part == Filter(docs, LAMBDA d : Month(d) = m)
              IN  IF Len(part) <= target THEN {<<part, <<m>>>>} ELSE Shards(part, m, target) :
              m \in {Month(docs[i]) : i \in DOMAIN docs}}

TopicalGroups(docs, tenant, target) ==
  LET toks  == Tokens(docs)
      idf   == IdfOf(toks)
      terms == [i \in DOMAIN docs |-> TopTerms(toks[i], idf, 4)]
      sign  == [i \in DOMAIN docs |-> IF terms[i] = <<>> THEN Misc ELSE Upto(terms[i], 2)]
      bucket(sig) == Picked(docs, {i \in DOMAIN docs : sign[i] = sig})
      termsIn(part) == UNION {ToSet(terms[i]) : i \in {j \in DOMAIN docs : Contains(part, docs[j])}}
  IN  UNION {{Group(tenant, <<"topic", sig, p[2]>>, p[1], termsIn(p[1])) :
               p \in SplitByTime(bucket(sig), target)} : sig \in {sign[i] : i \in DOMAIN docs}}

-----------------------------------------------------------------------------
(* semantic_groups_from_docs.  Documents are named by their place in the   *)
(* list; toks, idf and vecs are those of the whole list.                   *)

\* _sparse_tfidf without its norm: the length of a document cancels in a cosine.
Vector(toks, idf) == [t \in ToSet(toks) |-> Occurrences(toks, t) * idf[t]]
Dot(a, b) == SumFunction([t \in DOMAIN a \cap DOMAIN b |-> a[t] * b[t]])

\* _cosine, as the percentage of its square; 0 where one has no terms.
SquaredCosine(ab, aa, bb) == IF aa = 0 \/ bb = 0 THEN 0 ELSE (100 * ab * ab) \div (aa * bb)
Cosine(a, b) == SquaredCosine(Dot(a, b), Dot(a, a), Dot(b, b))

\* _best_split_term: a term in 18 to 82 percent of the documents; 0 for none.
BestSplitTerm(S, toks, idf) ==
  LET n     == Cardinality(S)
      count(t) == Cardinality({i \in S : Contains(toks[i], t)})
      score(t) == count(t) * (n - count(t)) * idf[t]
      fit   == {t \in UNION {ToSet(toks[i]) : i \in S} :
                 /\ count(t) >= Larger(MinSide, (n * 18) \div 100)
                 /\ count(t) <= Smaller(n - MinSide, (n * 82) \div 100)}
      best  == {t \in fit : \A u \in fit : score(u) <= score(t)}
  IN  IF n < 2 * MinSide \/ fit = {} THEN 0 ELSE Min(best)

\* _recursive_split: neighbourhoods with the path of terms to each; -t is "no-t".
Prefixed(t, parts) == Mapped(parts, LAMBDA n : [n EXCEPT !.path = Cons(t, @)])
RecursiveSplit(docs, toks, idf, target) ==
  LET split[n \in 0 .. MaxDepth] ==      \* where n levels are left
        [S \in SUBSET DOMAIN docs |->
           LET term == BestSplitTerm(S, toks, idf)
               with == {i \in S : Contains(toks[i], term)}
           IN  IF \/ Cardinality(S) <= target \/ n = 0 \/ term = 0
                  \/ Smaller(Cardinality(with), Cardinality(S \ with)) < MinSide
               THEN <<[ids |-> S, path |-> <<>>]>>
               ELSE Prefixed(term, split[n - 1][with]) \o Prefixed(-term, split[n - 1][S \ with])]
  IN  split[MaxDepth][DOMAIN docs]

\* _farthest_medoids: from the first, the document farthest from those picked.
\* cos[i][j] is the cosine of documents i and j.
Farthest(left, picked, cos) ==
  LET nearest(i) == Max({cos[i][m] : m \in picked})
  IN  Min({i \in left : \A j \in left : nearest(i) <= nearest(j)})
FarthestMedoids(S, cos, k) ==
  LET pick[n \in 1 .. k] ==
        IF n = 1 THEN <<Min(S)>> ELSE Append(pick[n - 1], Farthest(S \ ToSet(pick[n - 1]), ToSet(pick[n - 1]), cos))
  IN  pick[Smaller(k, Cardinality(S))]

\* _medoid_partition: each document with the first of the medoids closest to it.
Closest(i, medoids, cos) ==
  Min({j \in DOMAIN medoids : \A l \in DOMAIN medoids : cos[i][medoids[l]] <= cos[i][medoids[j]]})
Buckets(S, medoids, cos) ==
  Filter([j \in DOMAIN medoids |-> {i \in S : Closest(i, medoids, cos) = j}], LAMBDA b : b # {})
MedoidPartition(S, cos, target) ==
  IF Cardinality(S) <= target \/ MaxPrototypes <= 1 THEN <<S>>
  ELSE Buckets(S, FarthestMedoids(S, cos, Smaller(MaxPrototypes, Larger(2, Ceiling(Cardinality(S), target)))), cos)

\* _top_terms_for_indices
TopTermsOf(S, toks, idf, k) ==
  LET tf(t) == SumFunction([i \in S |-> Occurrences(toks[i], t)]) * idf[t]
  IN  Upto(Ranked(UNION {ToSet(toks[i]) : i \in S},
                  LAMBDA x, y : tf(x) > tf(y) \/ (tf(x) = tf(y) /\ x < y)), k)

\* _contrast_terms: the terms whose lift * share * idf is above 1.15, heaviest first.
\* With c of np documents of the part and o of nr of the rest holding a term, the
\* score is 5 c c nr idf / (np np (50 o + nr)) when idf is ten times itself.
ContrastTerms(part, parent, toks, idf) ==
  LET np == Larger(Cardinality(part), 1)
      nr == Larger(Cardinality(parent) - Cardinality(part), 1)
      in(S, t) == Cardinality({i \in S : Contains(toks[i], t)})
      score(t) == (500 * in(part, t) * in(part, t) * nr * idf[t])
                    \div (np * np * (50 * in(parent \ part, t) + nr))
  IN  Filter(Upto(Ranked(UNION {ToSet(toks[i]) : i \in part},
                         LAMBDA x, y : score(x) > score(y) \/ (score(x) = score(y) /\ x < y)), 10),
             LAMBDA t : score(t) > 115)

\* _merge_smallest: while there are too many leaves, the two smallest become one.
PathBefore(p, q) == \E k \in 1 .. Larger(Len(p), Len(q)) :
  /\ \A j \in 1 .. k - 1 : p[j] = q[j]
  /\ k > Len(p) \/ (k <= Len(q) /\ k <= Len(p) /\ p[k] < q[k])
SmallerLeaf(a, b) ==
  \/ Cardinality(a.ids) < Cardinality(b.ids)
  \/ Cardinality(a.ids) = Cardinality(b.ids) /\ PathBefore(a.path, b.path)
BySize(leaves) ==
  SortedBy(leaves, LAMBDA a : - Cardinality({i \in DOMAIN leaves : SmallerLeaf(leaves[i], a)}))
MergeTwo(ls) ==
  Append(SubSeq(ls, 3, Len(ls)),
         [ids |-> ls[1].ids \cup ls[2].ids, path |-> IF ls[1].path # <<>> THEN ls[1].path ELSE ls[2].path,
          contrast |-> Unique(ls[1].contrast \o ls[2].contrast)])
MergeSmallest(leaves) ==
  LET merged[n \in 0 .. Len(leaves)] == IF n = 0 THEN leaves ELSE MergeTwo(BySize(merged[n - 1]))
  IN  merged[Larger(0, Len(leaves) - MaxGroups)]

\* _sibling_negative_terms: what the other leaves emphasize, or terms of the next one.
SiblingTerms(i, leaves, toks, idf) ==
  LET others == FlattenSeq([j \in DOMAIN leaves |-> IF j = i THEN <<>> ELSE Upto(leaves[j].contrast, 6)])
      ranked == Filter(Upto(MostCommon(others), 12), LAMBDA t : ~ Contains(leaves[i].contrast, t))
  IN  IF ranked # <<>> THEN Upto(ranked, 8)
      ELSE IF Len(leaves) = 1 THEN <<>>
      ELSE TopTermsOf(leaves[(i % Len(leaves)) + 1].ids, toks, idf, 6)

\* _group_payload: its summary names the sibling terms, so the node is searched by them too.
\* Members come in the order of the list; that of a merged leaf is of no consequence.
SemanticGroup(i, leaves, docs, tenant, toks, idf) ==
  LET leaf    == leaves[i]
      members == Ranked(leaf.ids, LAMBDA x, y : x < y)
  IN  Group(tenant, <<"sem", Upto(leaf.path, 6), i>>, [k \in DOMAIN members |-> docs[members[k]]],
            ToSet(leaf.contrast) \cup ToSet(leaf.path) \cup ToSet(TopTermsOf(leaf.ids, toks, idf, 8))
              \cup ToSet(SiblingTerms(i, leaves, toks, idf)))

\* The leaves of a neighbourhood, with the terms that set each apart.
LeafOf(part, n, contrast, all) ==
  [ids |-> part, path |-> n.path, contrast |-> IF contrast # <<>> THEN contrast ELSE Upto(all, 6)]
LeavesOf(n, toks, idf, target) ==
  LET cos == [i \in n.ids |-> [j \in n.ids |-> Cosine(Vector(toks[i], idf), Vector(toks[j], idf))]]
  IN  Mapped(MedoidPartition(n.ids, cos, target),
             LAMBDA part : LeafOf(part, n, ContrastTerms(part, n.ids, toks, idf), TopTermsOf(n.ids, toks, idf, 8)))

Leaves(docs, toks, idf, target) ==
  LET near == RecursiveSplit(docs, toks, idf, target * MaxPrototypes)
  IN  MergeSmallest(FlattenSeq(Mapped(near, LAMBDA n : LeavesOf(n, toks, idf, target))))

GroupsOfLeaves(leaves, docs, tenant, toks, idf) ==
  {SemanticGroup(i, leaves, docs, tenant, toks, idf) : i \in DOMAIN leaves}

SemanticGroups(docs, tenant, target) ==
  LET toks == Tokens(docs)
      idf  == IdfOf(toks)
  IN  IF docs = <<>> THEN {} ELSE GroupsOfLeaves(Leaves(docs, toks, idf, target), docs, tenant, toks, idf)

-----------------------------------------------------------------------------
(* Groups by entity: the documents of a customer, or of its month.         *)

\* A group selects its documents by a filter, and names them only below an extra match.
EntityGroup(tenant, customer, month, docs, below) ==
  [key |-> IF month = "" THEN <<"customer", customer>> ELSE <<"customer", customer, month>>,
   document_ids |-> IF below = 0 THEN <<>> ELSE SetToSeq({d._id : d \in docs}),
   document_count |-> Cardinality(docs),
   filter |-> [tenant |-> tenant, ids |-> {}, customer |-> customer, month |-> month, below |-> below],
   entities |-> {customer, month} \ {""}, terms |-> {}]

CustomerGroups(docs, tenant, below) ==
  {EntityGroup(tenant, c, "", {d \in docs : d.customer = c}, below) : c \in {d.customer : d \in docs} \ {""}}

CustomerMonthGroups(docs, tenant) ==
  LET timed == {d \in docs : d.customer # "" /\ d.month # ""}
  IN  {EntityGroup(tenant, p[1], p[2], {d \in timed : d.customer = p[1] /\ d.month = p[2]}, 0) :
         p \in {<<d.customer, d.month>> : d \in timed}}
=============================================================================
