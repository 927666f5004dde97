------------------------------- MODULE Lists -------------------------------
(***************************************************************************)
(* What the code does with Python lists and dictionaries all over the      *)
(* program: stable sorts, dict.fromkeys, slices and rank fusion.           *)
(***************************************************************************)
EXTENDS Integers, FiniteSets, Sequences, SequencesExt, FiniteSetsExt

\* A list of anything.
IsList(s) == s \in Seq({s[i] : i \in DOMAIN s})

Larger(a, b)  == IF a >= b THEN a ELSE b
Smaller(a, b) == IF a <= b THEN a ELSE b
Ceiling(a, b) == (a + b - 1) \div b

Mapped(s, f(_)) == [i \in DOMAIN s |-> f(s[i])]

\* The elements of S in the order of a strict total order.
Ranked(S, Before(_, _)) ==
  LET placed == {<<Cardinality({y \in S : Before(y, x)}) + 1, x>> : x \in S}
  IN  [k \in 1 .. Cardinality(S) |-> (CHOOSE p \in placed : p[1] = k)[2]]

\* sorted(s, key=...), by falling score, the order of s among equals: of scores given
\* place by place, or by what is scored.
Arranged(s, score) ==
  LET scored == {<<i, score[i]>> : i \in DOMAIN s}
      order  == Ranked(scored, LAMBDA p, q : p[2] > q[2] \/ (p[2] = q[2] /\ p[1] < q[1]))
  IN  [k \in DOMAIN s |-> s[order[k][1]]]
SortedBy(s, Score(_)) == Arranged(s, [i \in DOMAIN s |-> Score(s[i])])

\* The elements of s at the positions I, in their order.
Picked(s, I) ==
  LET upto[n \in 0 .. Len(s)] ==
        IF n = 0 THEN <<>> ELSE IF n \in I THEN Append(upto[n - 1], s[n]) ELSE upto[n - 1]
  IN  upto[Len(s)]

\* [x for x in s if Test(x)]
Filter(s, Test(_)) == Picked(s, {i \in DOMAIN s : Test(s[i])})

\* The elements whose key none before them has; dict.fromkeys is the case of the element itself.
FirstOf(s, Key(_)) == Picked(s, {i \in DOMAIN s : \A j \in 1 .. i - 1 : Key(s[j]) # Key(s[i])})
Unique(s) == FirstOf(s, LAMBDA x : x)

FirstAt(s, x) == SelectInSeq(s, LAMBDA y : y = x)
Occurrences(s, x) == Cardinality({i \in DOMAIN s : s[i] = x})
Upto(s, k) == SubSeq(s, 1, Smaller(k, Len(s)))

\* The reciprocal ranks of x in several lists, added up: in millionths, or in finer
\* units where the last ranks of a long list would be equal in these.
FusedScore(lists, k, x) ==
  LET last == k + Max({Len(lists[l]) : l \in DOMAIN lists})
      unit == Larger(1000000, last * last)
      share(l) == IF FirstAt(lists[l], x) = 0 THEN 0 ELSE unit \div (k + FirstAt(lists[l], x))
  IN  SumFunction([l \in DOMAIN lists |-> share(l)])
=============================================================================
