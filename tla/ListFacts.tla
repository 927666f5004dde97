------------------------------ MODULE ListFacts ------------------------------
(***************************************************************************)
(* Facts about the operators of Lists, for the proofs about modules that   *)
(* use them: what a list is, induction, and what slicing, filtering and    *)
(* flattening a list give.                                                 *)
(*                                                                         *)
(* A property to be proved by induction is given as a set: the library's   *)
(* induction theorems take an operator, which a proof cannot instantiate.  *)
(***************************************************************************)
EXTENDS Lists, FiniteSetTheorems, WellFoundedInduction, NaturalsInduction, SequenceTheorems, TLAPS

\* Every set of natural numbers that has an element has a least one.
LEMMA Least ==
  ASSUME NEW T \in SUBSET Nat, T # {}
  PROVE  \E n \in T : \A m \in T : n <= m
<1>1. IsWellFoundedOn(OpToRel(<, Nat), Nat)
  BY NatLessThanWellFounded
<1>2. PICK n \in T : \A m \in T : ~ (<<m, n>> \in OpToRel(<, Nat))
  BY <1>1, WFMin
<1>3. \A m \in T : ~ (m < n)
  BY <1>2 DEF OpToRel
<1> QED
  BY <1>3

\* Induction: a set of natural numbers with 0 that is closed under successor is Nat.
LEMMA Induction ==
  ASSUME NEW P \in SUBSET Nat, 0 \in P, \A n \in P : n + 1 \in P
  PROVE  P = Nat
<1>1. SUFFICES ASSUME Nat \ P # {} PROVE FALSE
  OBVIOUS
<1>2. PICK n \in Nat \ P : \A m \in Nat \ P : n <= m
  BY <1>1, Least
<1>3. n - 1 \in P
  BY <1>2
<1> QED
  BY <1>2, <1>3

LEMMA MinIs ==
  ASSUME NEW T \in SUBSET Nat, T # {}
  PROVE  Min(T) \in T /\ \A m \in T : Min(T) <= m
BY Least DEF Min

-----------------------------------------------------------------------------
(* Lists.                                                                  *)

LEMMA ListOf ==
  ASSUME NEW n \in Nat, NEW s, s = [i \in 1 .. n |-> s[i]]
  PROVE  IsList(s) /\ Len(s) = n /\ DOMAIN s = 1 .. n
<1>1. DOMAIN s = 1 .. n
  OBVIOUS
<1>2. s \in Seq({s[i] : i \in DOMAIN s})
  OBVIOUS
<1> QED
  BY <1>1, <1>2 DEF IsList

LEMMA ListIs ==
  ASSUME NEW s, IsList(s)
  PROVE  /\ Len(s) \in Nat /\ DOMAIN s = 1 .. Len(s)
         /\ s = [i \in 1 .. Len(s) |-> s[i]]
<1> DEFINE S == {s[i] : i \in DOMAIN s}
<1>1. s \in Seq(S)
  BY DEF IsList
<1> HIDE DEF S
<1> QED
  BY <1>1

LEMMA InSeq ==
  ASSUME NEW s, IsList(s), NEW S, \A i \in DOMAIN s : s[i] \in S
  PROVE  s \in Seq(S)
BY ListIs

LEMMA SeqIsList ==
  ASSUME NEW S, NEW s \in Seq(S)
  PROVE  IsList(s)
<1>1. Len(s) \in Nat /\ s = [i \in 1 .. Len(s) |-> s[i]]
  OBVIOUS
<1> QED
  BY <1>1, ListOf

LEMMA EmptyIsList == IsList(<<>>) /\ Len(<<>>) = 0 /\ DOMAIN <<>> = {}
<1>1. <<>> \in Seq({}) /\ Len(<<>>) = 0
  OBVIOUS
<1>2. IsList(<<>>)
  BY <1>1, SeqIsList
<1>3. DOMAIN <<>> = 1 .. 0
  BY <1>1, <1>2, ListIs
<1>4. 1 .. 0 = {}
  OBVIOUS
<1> QED
  BY <1>1, <1>2, <1>3, <1>4

LEMMA Appended ==
  ASSUME NEW s, IsList(s), NEW x
  PROVE  /\ IsList(Append(s, x)) /\ Len(Append(s, x)) = Len(s) + 1
         /\ \A i \in 1 .. Len(s) : Append(s, x)[i] = s[i]
         /\ Append(s, x)[Len(s) + 1] = x
<1> DEFINE S == {s[i] : i \in DOMAIN s} \cup {x}
<1>1. s \in Seq(S)
  BY InSeq
<1>2. x \in S
  OBVIOUS
<1> HIDE DEF S
<1>3. Append(s, x) \in Seq(S)
  BY <1>1, <1>2
<1>4. IsList(Append(s, x))
  BY <1>3, SeqIsList
<1> QED
  BY <1>1, <1>2, <1>4

LEMMA AppendedSet ==
  ASSUME NEW s, IsList(s), NEW x
  PROVE  ToSet(Append(s, x)) = ToSet(s) \cup {x}
<1>1. PICK n \in Nat : n = Len(s) /\ DOMAIN s = 1 .. n
  BY ListIs
<1>2. PICK t : t = Append(s, x)
  OBVIOUS
<1>3. DOMAIN t = 1 .. n + 1 /\ t[n + 1] = x /\ \A i \in 1 .. n : t[i] = s[i]
  BY <1>1, <1>2, Appended, ListIs
<1>4. 1 .. n + 1 = 1 .. n \cup {n + 1}
  BY <1>1
<1> QED
  BY <1>1, <1>2, <1>3, <1>4 DEF ToSet

LEMMA Concatenated ==
  ASSUME NEW s, IsList(s), NEW t, IsList(t)
  PROVE  /\ IsList(s \o t) /\ Len(s \o t) = Len(s) + Len(t)
         /\ \A i \in 1 .. Len(s) : (s \o t)[i] = s[i]
         /\ \A i \in 1 .. Len(t) : (s \o t)[Len(s) + i] = t[i]
<1> DEFINE S == {s[i] : i \in DOMAIN s} \cup {t[i] : i \in DOMAIN t}
<1>1. s \in Seq(S) /\ t \in Seq(S)
  BY InSeq
<1> HIDE DEF S
<1>2. s \o t \in Seq(S)
  BY <1>1
<1>3. IsList(s \o t)
  BY <1>2, SeqIsList
<1> QED
  BY <1>1, <1>3

\* The elements of a concatenation.
LEMMA ConcatenatedSet ==
  ASSUME NEW s, IsList(s), NEW t, IsList(t)
  PROVE  ToSet(s \o t) = ToSet(s) \cup ToSet(t)
<1>1. /\ DOMAIN s = 1 .. Len(s) /\ DOMAIN t = 1 .. Len(t) /\ Len(s) \in Nat /\ Len(t) \in Nat
      /\ DOMAIN (s \o t) = 1 .. Len(s) + Len(t)
  BY Concatenated, ListIs
<1>2. ASSUME NEW k \in 1 .. Len(s) + Len(t)
      PROVE  (s \o t)[k] \in ToSet(s) \cup ToSet(t)
  <2>1. CASE k \in 1 .. Len(s)
    BY <2>1, <1>1, Concatenated DEF ToSet
  <2>2. CASE k \notin 1 .. Len(s)
    <3>1. k - Len(s) \in 1 .. Len(t) /\ Len(s) + (k - Len(s)) = k
      BY <2>2, <1>1
    <3>2. (s \o t)[Len(s) + (k - Len(s))] = t[k - Len(s)]
      BY <3>1, Concatenated
    <3> QED
      BY <3>1, <3>2, <1>1 DEF ToSet
  <2> QED
    BY <2>1, <2>2
<1>3. ToSet(s) \subseteq ToSet(s \o t)
  BY <1>1, Concatenated DEF ToSet
<1>4. ASSUME NEW i \in 1 .. Len(t)
      PROVE  t[i] \in ToSet(s \o t)
  <2>1. Len(s) + i \in DOMAIN (s \o t) /\ (s \o t)[Len(s) + i] = t[i]
    BY <1>1, Concatenated
  <2> QED
    BY <2>1 DEF ToSet
<1> QED
  BY <1>1, <1>2, <1>3, <1>4 DEF ToSet

LEMMA Sliced ==
  ASSUME NEW s, IsList(s), NEW m \in 1 .. Len(s) + 1, NEW n \in 0 .. Len(s)
  PROVE  /\ IsList(SubSeq(s, m, n))
         /\ Len(SubSeq(s, m, n)) = IF m <= n THEN n - m + 1 ELSE 0
         /\ \A i \in 1 .. Len(SubSeq(s, m, n)) : SubSeq(s, m, n)[i] = s[m + i - 1]
<1> DEFINE S == {s[i] : i \in DOMAIN s}
<1>1. s \in Seq(S)
  BY InSeq
<1> HIDE DEF S
<1>2. SubSeq(s, m, n) \in Seq(S)
  BY <1>1
<1>3. IsList(SubSeq(s, m, n))
  BY <1>2, SeqIsList
<1> QED
  BY <1>1, <1>3

\* A prefix.
LEMMA UptoIs ==
  ASSUME NEW s, IsList(s), NEW k \in Nat
  PROVE  /\ IsList(Upto(s, k)) /\ Len(Upto(s, k)) = Smaller(k, Len(s))
         /\ \A i \in 1 .. Len(Upto(s, k)) : Upto(s, k)[i] = s[i]
<1>1. Len(s) \in Nat /\ Smaller(k, Len(s)) \in 0 .. Len(s)
  BY ListIs DEF Smaller
<1>2. PICK n \in 0 .. Len(s) : n = Smaller(k, Len(s))
  BY <1>1
<1>3. /\ IsList(SubSeq(s, 1, n)) /\ Len(SubSeq(s, 1, n)) = n
      /\ \A i \in 1 .. Len(SubSeq(s, 1, n)) : SubSeq(s, 1, n)[i] = s[i]
  BY <1>1, Sliced
<1> QED
  BY <1>2, <1>3 DEF Upto

-----------------------------------------------------------------------------
(* Positions in order.                                                     *)

\* r[x] is what comes before x: a strict total order of S.
StrictOrder(S, r) ==
  /\ r \in [S -> SUBSET S]
  /\ \A x \in S : x \notin r[x]
  /\ \A x \in S : \A y \in r[x] : r[y] \subseteq r[x]
  /\ \A x, y \in S : x = y \/ x \in r[y] \/ y \in r[x]

\* Ranked, of an order given as a function; every use of Ranked unfolds to one.
RankedBy(S, r) ==
  LET placed == {<<Cardinality(r[x]) + 1, x>> : x \in S}
  IN  [k \in 1 .. Cardinality(S) |-> (CHOOSE p \in placed : p[1] = k)[2]]

\* The list that Ranked gives of a finite set has its elements once each, in order.
InOrder(o, S, r) ==
  /\ IsList(o) /\ Len(o) = Cardinality(S)
  /\ \A k \in 1 .. Len(o) : o[k] \in S
  /\ \A k, l \in 1 .. Len(o) : k < l => o[k] \in r[o[l]]
  /\ \A k, l \in 1 .. Len(o) : o[k] = o[l] => k = l
  /\ \A x \in S : \E k \in 1 .. Len(o) : o[k] = x

\* Of two elements the earlier has fewer before it.
LEMMA FewerBefore ==
  ASSUME NEW S, IsFiniteSet(S), NEW r, StrictOrder(S, r)
  PROVE  /\ Cardinality(S) \in Nat
         /\ \A x \in S : Cardinality(r[x]) \in 0 .. Cardinality(S) - 1
         /\ \A x, y \in S : x \in r[y] => Cardinality(r[x]) < Cardinality(r[y])
<1>0. PICK n : n = Cardinality(S)
  OBVIOUS
<1>1. n \in Nat
  BY <1>0, FS_CardinalityType
<1>2. ASSUME NEW x \in S
      PROVE  IsFiniteSet(r[x]) /\ Cardinality(r[x]) \in Nat
  <2>1. r[x] \in SUBSET S
    BY DEF StrictOrder
  <2> QED
    BY <2>1, FS_Subset, FS_CardinalityType
<1>3. ASSUME NEW x \in S
      PROVE  Cardinality(r[x]) \in 0 .. n - 1
  <2>1. r[x] \in SUBSET S /\ r[x] # S
    BY DEF StrictOrder
  <2>2. Cardinality(r[x]) <= n /\ Cardinality(r[x]) # n
    BY <2>1, <1>0, FS_Subset
  <2> QED
    BY <2>2, <1>1, <1>2
<1>4. ASSUME NEW x \in S, NEW y \in S, x \in r[y]
      PROVE  Cardinality(r[x]) < Cardinality(r[y])
  <2>1. r[x] \in SUBSET r[y] /\ r[x] # r[y]
    BY <1>4 DEF StrictOrder
  <2> QED
    BY <2>1, <1>2, FS_Subset
<1> QED
  BY <1>0, <1>1, <1>3, <1>4

LEMMA RankedIs ==
  ASSUME NEW S, IsFiniteSet(S), NEW r, StrictOrder(S, r)
  PROVE  InOrder(RankedBy(S, r), S, r)
<1>n. PICK n : n = Cardinality(S)
  OBVIOUS
<1>o. PICK o : o = RankedBy(S, r)
  OBVIOUS
<1>1. /\ n \in Nat
      /\ \A x \in S : Cardinality(r[x]) \in 0 .. n - 1
      /\ \A x, y \in S : x \in r[y] => Cardinality(r[x]) < Cardinality(r[y])
  BY <1>n, FewerBefore
<1>2. PICK at : at = [x \in S |-> Cardinality(r[x]) + 1]
  OBVIOUS
<1>3. at \in [S -> 1 .. n] /\ \A x \in S : at[x] = Cardinality(r[x]) + 1
  BY <1>1, <1>2
<1>4. \A x, y \in S : x \in r[y] => at[x] < at[y]
  BY <1>1, <1>3
<1>5. \A x, y \in S : at[x] = at[y] => x = y
  <2>1. SUFFICES ASSUME NEW x \in S, NEW y \in S, x # y PROVE at[x] # at[y]
    OBVIOUS
  <2>2. x \in r[y] \/ y \in r[x]
    BY <2>1 DEF StrictOrder
  <2>3. at[x] \in Int /\ at[y] \in Int
    BY <1>3
  <2> QED
    BY <2>2, <2>3, <1>4
<1>6. \A k \in 1 .. n : \E x \in S : at[x] = k
  <2>1. at \in Injection(S, 1 .. n)
    BY <1>3, <1>5 DEF Injection, IsInjective
  <2>2. IsFiniteSet(1 .. n) /\ Cardinality(1 .. n) = n
    BY <1>1, FS_Interval
  <2>3. at \in Surjection(S, 1 .. n)
    BY <1>n, <2>1, <2>2, FS_Injection
  <2> QED
    BY <2>3 DEF Surjection
<1>7. PICK placed : placed = {<<Cardinality(r[x]) + 1, x>> : x \in S}
  OBVIOUS
<1>8. o = [k \in 1 .. n |-> (CHOOSE p \in placed : p[1] = k)[2]]
  BY <1>n, <1>o, <1>7 DEF RankedBy
<1>9. ASSUME NEW k \in 1 .. n
      PROVE  o[k] \in S /\ at[o[k]] = k
  <2>1. PICK p : p = CHOOSE q \in placed : q[1] = k
    OBVIOUS
  <2>2. \E q \in placed : q[1] = k
    <3>1. PICK x \in S : at[x] = k
      BY <1>6
    <3>2. <<Cardinality(r[x]) + 1, x>> \in placed
      BY <1>7
    <3> QED
      BY <3>1, <3>2, <1>3
  <2>3. p \in placed /\ p[1] = k
    BY <2>1, <2>2, Zenon
  <2>4. PICK x \in S : p = <<Cardinality(r[x]) + 1, x>>
    BY <2>3, <1>7
  <2>5. o[k] = p[2]
    BY <1>8, <2>1
  <2>6. p[1] = Cardinality(r[x]) + 1 /\ p[2] = x
    BY <2>4
  <2> QED
    BY <2>3, <2>5, <2>6, <1>3
<1>10. o = [k \in 1 .. n |-> o[k]]
  BY <1>8
<1>11. IsList(o) /\ Len(o) = n
  BY <1>1, <1>10, ListOf
<1>12. ASSUME NEW k \in 1 .. n, NEW l \in 1 .. n, k < l
       PROVE  o[k] \in r[o[l]]
  <2>1. o[k] \in S /\ at[o[k]] = k /\ o[l] \in S /\ at[o[l]] = l
    BY <1>9
  <2>2. o[k] # o[l]
    BY <2>1, <1>12
  <2>3. o[l] \notin r[o[k]]
    <3>1. o[l] \in r[o[k]] => at[o[l]] < at[o[k]]
      BY <2>1, <1>4
    <3> QED
      BY <3>1, <2>1, <1>12
  <2> QED
    BY <2>1, <2>2, <2>3 DEF StrictOrder
<1>13. \A k, l \in 1 .. n : o[k] = o[l] => k = l
  BY <1>9
<1>14. ASSUME NEW x \in S PROVE \E k \in 1 .. n : o[k] = x
  <2>1. at[x] \in 1 .. n
    BY <1>3
  <2> QED
    BY <2>1, <1>5, <1>9
<1>15. InOrder(o, S, r)
  BY <1>n, <1>9, <1>11, <1>12, <1>13, <1>14 DEF InOrder
<1> QED
  BY <1>o, <1>15

\* The elements of s at the positions I, in their order: p says which position each had.
Selection(t, s, I, p) ==
  /\ p \in [1 .. Len(t) -> I]
  /\ \A k \in 1 .. Len(t) : t[k] = s[p[k]]
  /\ \A k, l \in 1 .. Len(t) : k < l => p[k] < p[l]
  /\ \A i \in I : \E k \in 1 .. Len(t) : p[k] = i

\* One position more: u is what is picked of the first m - 1 elements.
LEMMA SelectedOneMore ==
  ASSUME NEW s, NEW u, IsList(u), NEW J \in SUBSET Nat, NEW m \in Nat, \A i \in J : i < m,
         \E p : Selection(u, s, J, p)
  PROVE  LET t == Append(u, s[m])
         IN  IsList(t) /\ \E p : Selection(t, s, J \cup {m}, p)
<1>1. PICK p : Selection(u, s, J, p)
  OBVIOUS
<1>2. PICK n \in Nat : n = Len(u)
  BY ListIs
<1>3. PICK t : t = Append(u, s[m])
  OBVIOUS
<1>4. IsList(t) /\ Len(t) = n + 1 /\ (\A k \in 1 .. n : t[k] = u[k]) /\ t[n + 1] = s[m]
  BY <1>2, <1>3, Appended
<1>5. PICK q : q = [k \in 1 .. n + 1 |-> IF k = n + 1 THEN m ELSE p[k]]
  OBVIOUS
<1>6. p \in [1 .. n -> J] /\ \A k \in 1 .. n : u[k] = s[p[k]]
  BY <1>1, <1>2 DEF Selection
<1>7. /\ q \in [1 .. n + 1 -> J \cup {m}] /\ q[n + 1] = m
      /\ \A k \in 1 .. n : q[k] = p[k]
  BY <1>5, <1>6
<1>8. \A k \in 1 .. n + 1 : t[k] = s[q[k]]
  <2>1. SUFFICES ASSUME NEW k \in 1 .. n + 1 PROVE t[k] = s[q[k]]
    OBVIOUS
  <2>2. CASE k = n + 1
    BY <2>2, <1>4, <1>7
  <2>3. CASE k # n + 1
    <3>1. k \in 1 .. n
      BY <2>3
    <3> QED
      BY <3>1, <1>4, <1>6, <1>7
  <2> QED
    BY <2>2, <2>3
<1>9. \A k, l \in 1 .. n + 1 : k < l => q[k] < q[l]
  <2>1. SUFFICES ASSUME NEW k \in 1 .. n + 1, NEW l \in 1 .. n + 1, k < l PROVE q[k] < q[l]
    OBVIOUS
  <2>2. k \in 1 .. n /\ q[k] = p[k] /\ p[k] \in J
    BY <2>1, <1>6, <1>7
  <2>3. CASE l = n + 1
    BY <2>2, <2>3, <1>7
  <2>4. CASE l # n + 1
    <3>1. l \in 1 .. n /\ q[l] = p[l]
      BY <2>4, <1>7
    <3> QED
      BY <2>1, <2>2, <3>1, <1>1, <1>2 DEF Selection
  <2> QED
    BY <2>3, <2>4
<1>10. ASSUME NEW i \in J \cup {m} PROVE \E k \in 1 .. n + 1 : q[k] = i
  <2>1. CASE i = m
    BY <2>1, <1>7
  <2>2. CASE i \in J
    <3>1. PICK k \in 1 .. n : p[k] = i
      BY <2>2, <1>1, <1>2 DEF Selection
    <3>2. k \in 1 .. n + 1 /\ q[k] = i
      BY <3>1, <1>7
    <3> QED
      BY <3>2
  <2> QED
    BY <2>1, <2>2
<1>11. Selection(t, s, J \cup {m}, q)
  BY <1>4, <1>7, <1>8, <1>9, <1>10 DEF Selection
<1> QED
  BY <1>3, <1>4, <1>11

Picking(s, I, n, g) ==
  g = [i \in 0 .. n |-> IF i = 0 THEN <<>> ELSE IF i \in I THEN Append(g[i - 1], s[i]) ELSE g[i - 1]]

LEMMA PickingExists ==
  ASSUME NEW s, NEW I, NEW n \in Nat
  PROVE  \E g : Picking(s, I, n, g)
<1>1. PICK P : P = {m \in Nat : \E g : Picking(s, I, m, g)}
  OBVIOUS
<1>2. 0 \in P
  <2>1. PICK g : g = [i \in 0 .. 0 |-> <<>>]
    OBVIOUS
  <2>2. g = [i \in 0 .. 0 |-> IF i = 0 THEN <<>> ELSE IF i \in I THEN Append(g[i - 1], s[i]) ELSE g[i - 1]]
    BY <2>1
  <2> QED
    BY <1>1, <2>2 DEF Picking
<1>3. ASSUME NEW m \in P PROVE m + 1 \in P
  <2>0. m \in Nat
    BY <1>1
  <2>1. PICK g : Picking(s, I, m, g)
    BY <1>1
  <2>2. PICK last : last = IF m + 1 \in I THEN Append(g[m], s[m + 1]) ELSE g[m]
    OBVIOUS
  <2>3. PICK h : h = [i \in 0 .. m + 1 |-> IF i = m + 1 THEN last ELSE g[i]]
    OBVIOUS
  <2>4. ASSUME NEW i \in 0 .. m + 1
        PROVE  h[i] = IF i = 0 THEN <<>> ELSE IF i \in I THEN Append(h[i - 1], s[i]) ELSE h[i - 1]
    <3>1. CASE i = m + 1
      <4>1. h[i] = last /\ h[i - 1] = g[m] /\ i # 0
        BY <2>0, <2>3, <3>1
      <4> QED
        BY <2>2, <3>1, <4>1
    <3>2. CASE i # m + 1
      <4>1. i \in 0 .. m /\ h[i] = g[i] /\ (i # 0 => h[i - 1] = g[i - 1])
        BY <2>0, <2>3, <3>2
      <4>2. g[i] = IF i = 0 THEN <<>> ELSE IF i \in I THEN Append(g[i - 1], s[i]) ELSE g[i - 1]
        BY <2>1, <4>1 DEF Picking
      <4> QED
        BY <4>1, <4>2
    <3> QED
      BY <3>1, <3>2
  <2>5. h = [i \in 0 .. m + 1 |-> IF i = 0 THEN <<>> ELSE IF i \in I THEN Append(h[i - 1], s[i]) ELSE h[i - 1]]
    BY <2>3, <2>4
  <2>6. Picking(s, I, m + 1, h)
    BY <2>5 DEF Picking
  <2> QED
    BY <1>1, <2>0, <2>6
<1>4. P = Nat
  BY <1>1, <1>2, <1>3, Induction
<1> QED
  BY <1>1, <1>4

LEMMA PickedIs ==
  ASSUME NEW s, IsList(s), NEW I \in SUBSET (DOMAIN s)
  PROVE  /\ IsList(Picked(s, I)) /\ Len(Picked(s, I)) = Cardinality(I) /\ Cardinality(I) \in Nat
         /\ \E p \in [1 .. Len(Picked(s, I)) -> I] :
              /\ \A k \in 1 .. Len(Picked(s, I)) : Picked(s, I)[k] = s[p[k]]
              /\ \A k, l \in 1 .. Len(Picked(s, I)) : k < l => p[k] < p[l]
              /\ \A i \in I : \E k \in 1 .. Len(Picked(s, I)) : p[k] = i
<1>1. PICK n \in Nat : n = Len(s)
  BY ListIs
<1>2. I \in SUBSET (1 .. n)
  BY <1>1, ListIs
<1>3. PICK u : u = CHOOSE g : g = [i \in 0 .. n |-> IF i = 0 THEN <<>>
                                     ELSE IF i \in I THEN Append(g[i - 1], s[i]) ELSE g[i - 1]]
  OBVIOUS
<1>4. Picked(s, I) = u[n]
  BY <1>1, <1>3 DEF Picked
<1>5. u = [i \in 0 .. n |-> IF i = 0 THEN <<>> ELSE IF i \in I THEN Append(u[i - 1], s[i]) ELSE u[i - 1]]
  <2>1. PICK g : Picking(s, I, n, g)
    BY PickingExists
  <2>2. g = [i \in 0 .. n |-> IF i = 0 THEN <<>> ELSE IF i \in I THEN Append(g[i - 1], s[i]) ELSE g[i - 1]]
    BY <2>1 DEF Picking
  <2> QED
    BY <1>3, <2>2
<1>6. PICK P : P = {m \in Nat : m \in 0 .. n => IsList(u[m]) /\ \E p : Selection(u[m], s, I \cap (1 .. m), p)}
  OBVIOUS
<1>7. 0 \in P
  <2>1. u[0] = <<>>
    BY <1>5
  <2>2. I \cap (1 .. 0) = {}
    OBVIOUS
  <2>3. PICK p : p = [k \in 1 .. 0 |-> 0]
    OBVIOUS
  <2>4. p \in [1 .. Len(<<>>) -> {}] /\ 1 .. 0 = {}
    BY <2>3, EmptyIsList
  <2>5. Selection(<<>>, s, {}, p)
    BY <2>4, EmptyIsList DEF Selection
  <2> QED
    BY <1>6, <2>1, <2>2, <2>5, EmptyIsList
<1>8. ASSUME NEW m \in P PROVE m + 1 \in P
  <2>1. m \in Nat /\ (m \in 0 .. n => IsList(u[m]) /\ \E p : Selection(u[m], s, I \cap (1 .. m), p))
    BY <1>6
  <2>2. PICK k \in Nat : k = m + 1
    BY <2>1
  <2>3. SUFFICES ASSUME k \in 0 .. n
                 PROVE  IsList(u[k]) /\ \E p : Selection(u[k], s, I \cap (1 .. k), p)
    BY <1>6, <2>2
  <2>4. m \in 0 .. n /\ k # 0 /\ k - 1 = m
    BY <2>1, <2>2, <2>3
  <2>5. PICK J : J = I \cap (1 .. m)
    OBVIOUS
  <2>6. IsList(u[m]) /\ \E p : Selection(u[m], s, J, p)
    BY <2>1, <2>4, <2>5
  <2>7. u[k] = IF k \in I THEN Append(u[m], s[k]) ELSE u[m]
    <3>1. u[k] = IF k = 0 THEN <<>> ELSE IF k \in I THEN Append(u[k - 1], s[k]) ELSE u[k - 1]
      BY <1>5, <2>3
    <3> QED
      BY <3>1, <2>4
  <2>8. CASE k \in I
    <3>1. I \cap (1 .. k) = J \cup {k}
      BY <2>2, <2>4, <2>5, <2>8
    <3>2. J \in SUBSET Nat /\ \A i \in J : i < k
      BY <2>1, <2>2, <2>5
    <3>3. PICK v : v = Append(u[m], s[k])
      OBVIOUS
    <3>4. IsList(v) /\ \E p : Selection(v, s, J \cup {k}, p)
      BY <2>2, <2>6, <3>2, <3>3, SelectedOneMore
    <3> QED
      BY <2>7, <2>8, <3>1, <3>3, <3>4
  <2>9. CASE k \notin I
    <3>1. I \cap (1 .. k) = J
      BY <2>2, <2>4, <2>5, <2>9
    <3> QED
      BY <2>6, <2>7, <2>9, <3>1
  <2> QED
    BY <2>8, <2>9
<1>9. P = Nat
  BY <1>6, <1>7, <1>8, Induction
<1>10. PICK t : t = Picked(s, I)
  OBVIOUS
<1>11. n \in P /\ n \in 0 .. n /\ I \cap (1 .. n) = I
  BY <1>2, <1>9
<1>12. IsList(t) /\ \E p : Selection(t, s, I, p)
  BY <1>4, <1>6, <1>10, <1>11
<1>13. PICK p : Selection(t, s, I, p)
  BY <1>12
<1>14. Len(t) \in Nat
  BY <1>12, ListIs
<1>15. Cardinality(I) = Len(t)
  <2>1. p \in [1 .. Len(t) -> I]
    BY <1>13 DEF Selection
  <2>2. \A k, l \in 1 .. Len(t) : p[k] = p[l] => k = l
    <3>1. SUFFICES ASSUME NEW k \in 1 .. Len(t), NEW l \in 1 .. Len(t), k < l PROVE p[k] # p[l]
      BY <1>14
    <3>2. p[k] < p[l] /\ p[k] \in Int
      BY <3>1, <2>1, <1>2, <1>13 DEF Selection
    <3> QED
      BY <3>2
  <2>3. \A i \in I : \E k \in 1 .. Len(t) : p[k] = i
    BY <1>13 DEF Selection
  <2>4. p \in Bijection(1 .. Len(t), I)
    BY <2>1, <2>2, <2>3 DEF Bijection, Injection, Surjection, IsInjective
  <2> QED
    BY <1>14, <2>4, FS_CountingElements DEF ExistsBijection
<1>16. \E q \in [1 .. Len(t) -> I] :
         /\ \A k \in 1 .. Len(t) : t[k] = s[q[k]]
         /\ \A k, l \in 1 .. Len(t) : k < l => q[k] < q[l]
         /\ \A i \in I : \E k \in 1 .. Len(t) : q[k] = i
  BY <1>13 DEF Selection
<1> QED
  BY <1>10, <1>12, <1>14, <1>15, <1>16

LEMMA PickedSet ==
  ASSUME NEW s, IsList(s), NEW I \in SUBSET (DOMAIN s)
  PROVE  ToSet(Picked(s, I)) = {s[i] : i \in I}
<1>1. PICK t : t = Picked(s, I)
  OBVIOUS
<1>2. /\ IsList(t)
      /\ \E p \in [1 .. Len(t) -> I] :
           /\ \A k \in 1 .. Len(t) : t[k] = s[p[k]]
           /\ \A i \in I : \E k \in 1 .. Len(t) : p[k] = i
  BY <1>1, PickedIs
<1>3. PICK p \in [1 .. Len(t) -> I] :
        /\ \A k \in 1 .. Len(t) : t[k] = s[p[k]]
        /\ \A i \in I : \E k \in 1 .. Len(t) : p[k] = i
  BY <1>2
<1>4. DOMAIN t = 1 .. Len(t)
  BY <1>2, ListIs
<1>5. \A k \in DOMAIN t : t[k] \in {s[i] : i \in I}
  BY <1>3, <1>4
<1>6. \A i \in I : \E k \in DOMAIN t : s[i] = t[k]
  BY <1>3, <1>4
<1>7. ToSet(t) = {s[i] : i \in I}
  BY <1>5, <1>6 DEF ToSet
<1> QED
  BY <1>1, <1>7

\* dict.fromkeys loses nothing and keeps nothing twice.
LEMMA UniqueIs ==
  ASSUME NEW s, IsList(s)
  PROVE  /\ IsList(Unique(s)) /\ ToSet(Unique(s)) = ToSet(s)
         /\ \A k, l \in DOMAIN Unique(s) : k # l => Unique(s)[k] # Unique(s)[l]
<1>1. PICK I : I = {i \in DOMAIN s : \A j \in 1 .. i - 1 : s[j] # s[i]}
  OBVIOUS
<1>2. I \in SUBSET (DOMAIN s)
  BY <1>1
<1>3. Unique(s) = Picked(s, I)
  BY <1>1 DEF Unique, FirstOf
<1>4. PICK t : t = Picked(s, I)
  OBVIOUS
<1>5. /\ IsList(t) /\ Len(t) \in Nat /\ DOMAIN t = 1 .. Len(t)
      /\ ToSet(t) = {s[i] : i \in I}
      /\ \E p \in [1 .. Len(t) -> I] :
           /\ \A k \in 1 .. Len(t) : t[k] = s[p[k]]
           /\ \A k, l \in 1 .. Len(t) : k < l => p[k] < p[l]
  <2>1. /\ IsList(t) /\ Len(t) \in Nat
        /\ \E p \in [1 .. Len(t) -> I] :
             /\ \A k \in 1 .. Len(t) : t[k] = s[p[k]]
             /\ \A k, l \in 1 .. Len(t) : k < l => p[k] < p[l]
             /\ \A i \in I : \E k \in 1 .. Len(t) : p[k] = i
    BY <1>2, <1>4, PickedIs
  <2>2. ToSet(t) = {s[i] : i \in I}
    BY <1>2, <1>4, PickedSet, Zenon
  <2>3. DOMAIN t = 1 .. Len(t)
    BY <2>1, ListIs
  <2> QED
    BY <2>1, <2>2, <2>3, Zenon
<1>6. DOMAIN s = 1 .. Len(s) /\ Len(s) \in Nat
  BY ListIs
<1>7. \A i \in DOMAIN s : \E j \in I : s[j] = s[i]
  <2>1. SUFFICES ASSUME NEW i \in DOMAIN s PROVE \E j \in I : s[j] = s[i]
    OBVIOUS
  <2>2. PICK T : T = {j \in DOMAIN s : s[j] = s[i]}
    OBVIOUS
  <2>3. T \in SUBSET Nat /\ T # {}
    BY <2>2, <1>6
  <2>4. PICK j \in T : \A k \in T : j <= k
    BY <2>3, Least
  <2>5. j \in DOMAIN s /\ s[j] = s[i]
    BY <2>2, <2>4
  <2>6. \A k \in 1 .. j - 1 : s[k] # s[j]
    BY <2>2, <2>4, <2>5, <1>6
  <2> QED
    BY <2>5, <2>6, <1>1
<1>8. {s[i] : i \in I} = ToSet(s)
  BY <1>2, <1>7 DEF ToSet
<1>9. ASSUME NEW k \in 1 .. Len(t), NEW l \in 1 .. Len(t), k < l
      PROVE  t[k] # t[l]
  <2>1. PICK p \in [1 .. Len(t) -> I] :
           /\ \A m \in 1 .. Len(t) : t[m] = s[p[m]]
           /\ \A m, n \in 1 .. Len(t) : m < n => p[m] < p[n]
    BY <1>5
  <2>2. p[k] \in I /\ p[l] \in I /\ p[k] < p[l]
    BY <1>9, <2>1
  <2>3. p[k] \in 1 .. p[l] - 1
    BY <2>2, <1>2, <1>6
  <2>4. s[p[k]] # s[p[l]]
    BY <2>2, <2>3, <1>1
  <2> QED
    BY <2>1, <2>4
<1>10. \A k, l \in DOMAIN t : k # l => t[k] # t[l]
  BY <1>5, <1>9
<1> QED
  BY <1>3, <1>4, <1>5, <1>8, <1>10

-----------------------------------------------------------------------------
(* Lists of lists.                                                         *)

\* No element comes twice.
Distinct(s) == \A i, k \in DOMAIN s : s[i] = s[k] => i = k

\* A list has finitely many elements, as many as it is long if none comes twice.
LEMMA DistinctCount ==
  ASSUME NEW s, IsList(s)
  PROVE  /\ IsFiniteSet(ToSet(s))
         /\ Distinct(s) => Cardinality(ToSet(s)) = Len(s)
<1>1. PICK n \in Nat : n = Len(s) /\ DOMAIN s = 1 .. n /\ s = [i \in 1 .. n |-> s[i]]
  BY ListIs
<1>2. PICK S : S = ToSet(s)
  OBVIOUS
<1>3. s \in [1 .. n -> S]
  BY <1>1, <1>2 DEF ToSet
<1>4. \A x \in S : \E i \in 1 .. n : s[i] = x
  BY <1>1, <1>2 DEF ToSet
<1>5. IsFiniteSet(1 .. n) /\ Cardinality(1 .. n) = n
  BY <1>1, FS_Interval
<1>6. s \in Surjection(1 .. n, S)
  BY <1>3, <1>4 DEF Surjection
<1>7. IsFiniteSet(S)
  BY <1>5, <1>6, FS_Surjection
<1>8. ASSUME Distinct(s) PROVE Cardinality(S) = n
  <2>1. s \in Bijection(1 .. n, S)
    BY <1>1, <1>3, <1>6, <1>8 DEF Bijection, Injection, IsInjective, Distinct
  <2> QED
    BY <1>1, <2>1, FS_CountingElements DEF ExistsBijection
<1> QED
  BY <1>1, <1>2, <1>7, <1>8

LEMMA SameLists ==
  ASSUME NEW s, IsList(s), NEW t, IsList(t), Len(s) = Len(t), \A i \in 1 .. Len(s) : s[i] = t[i]
  PROVE  s = t
BY ListIs

\* The first element of t goes to the end of s.
LEMMA MovedOne ==
  ASSUME NEW s, IsList(s), NEW t, IsList(t), t # <<>>
  PROVE  /\ Len(t) \in Nat \ {0} /\ IsList(Append(s, t[1])) /\ IsList(Tail(t))
         /\ Len(t) # 1 => Tail(t) # <<>>
         /\ Append(s, t[1]) \o Tail(t) = s \o t
         /\ Len(t) = 1 => Append(s, t[1]) = s \o t
<1>1. PICK n \in Nat : n = Len(s)
  BY ListIs
<1>2. PICK m \in Nat : m = Len(t)
  BY ListIs
<1>3. t \in Seq({t[i] : i \in DOMAIN t})
  BY DEF IsList
<1>4. m # 0
  BY <1>2, <1>3
<1>5. PICK u : u = Tail(t)
  OBVIOUS
<1>6. /\ IsList(u) /\ Len(u) = m - 1
      /\ \A i \in 1 .. m - 1 : u[i] = t[i + 1]
  <2>1. u \in Seq({t[i] : i \in DOMAIN t}) /\ Len(u) = m - 1
    BY <1>2, <1>3, <1>4, <1>5
  <2>2. \A i \in 1 .. m - 1 : u[i] = t[i + 1]
    BY <1>2, <1>3, <1>4, <1>5
  <2> QED
    BY <2>1, <2>2, SeqIsList
<1>7. PICK a, b, c : a = Append(s, t[1]) /\ b = a \o u /\ c = s \o t
  OBVIOUS
<1>8. IsList(a) /\ Len(a) = n + 1 /\ a[n + 1] = t[1] /\ \A i \in 1 .. n : a[i] = s[i]
  BY <1>1, <1>7, Appended
<1>9. /\ IsList(b) /\ Len(b) = n + m
      /\ \A i \in 1 .. n + 1 : b[i] = a[i]
      /\ \A i \in 1 .. m - 1 : b[(n + 1) + i] = u[i]
  <2>1. /\ IsList(b) /\ Len(b) = (n + 1) + (m - 1)
        /\ \A i \in 1 .. n + 1 : b[i] = a[i]
        /\ \A i \in 1 .. m - 1 : b[(n + 1) + i] = u[i]
    <3>1. PICK k, l : k = Len(a) /\ l = Len(u)
      OBVIOUS
    <3>2. /\ IsList(b) /\ Len(b) = k + l
          /\ \A i \in 1 .. k : b[i] = a[i]
          /\ \A i \in 1 .. l : b[k + i] = u[i]
      BY <1>6, <1>7, <1>8, <3>1, Concatenated
    <3>3. k = n + 1 /\ l = m - 1
      BY <1>6, <1>8, <3>1
    <3> QED
      BY <3>2, <3>3
  <2> QED
    BY <2>1, <1>1, <1>2
<1>10. /\ IsList(c) /\ Len(c) = n + m
       /\ \A i \in 1 .. n : c[i] = s[i]
       /\ \A i \in 1 .. m : c[n + i] = t[i]
  BY <1>1, <1>2, <1>7, Concatenated
<1>11. ASSUME NEW i \in 1 .. n + m PROVE b[i] = c[i]
  <2>1. CASE i \in 1 .. n
    BY <1>8, <1>9, <1>10, <2>1
  <2>2. CASE i = n + 1
    <3>1. b[i] = t[1]
      BY <1>8, <1>9, <2>2
    <3>2. 1 \in 1 .. m
      BY <1>4
    <3> QED
      BY <1>10, <2>2, <3>1, <3>2
  <2>3. CASE i > n + 1
    <3>1. PICK k \in Nat : k = i - (n + 1)
      BY <2>3
    <3>2. k \in 1 .. m - 1 /\ i = (n + 1) + k /\ k + 1 \in 1 .. m /\ i = n + (k + 1)
      BY <2>3, <3>1
    <3>3. b[i] = t[k + 1]
      BY <1>6, <1>9, <3>2
    <3>4. c[i] = t[k + 1]
      BY <1>10, <3>2
    <3> QED
      BY <3>3, <3>4
  <2> QED
    BY <2>1, <2>2, <2>3
<1>12. b = c
  BY <1>9, <1>10, <1>11, SameLists
<1>13. ASSUME m = 1 PROVE a = c
  <2>1. Len(a) = Len(c) /\ Len(c) = n + 1
    BY <1>8, <1>10, <1>13
  <2>2. ASSUME NEW i \in 1 .. n + 1 PROVE a[i] = c[i]
    <3>1. i \in 1 .. n + m
      BY <1>13
    <3> QED
      BY <1>9, <1>11, <3>1
  <2> QED
    BY <1>8, <1>10, <2>1, <2>2, SameLists
<1>14. m # 1 => u # <<>>
  BY <1>6, EmptyIsList
<1> QED
  BY <1>2, <1>4, <1>5, <1>6, <1>7, <1>8, <1>12, <1>13, <1>14

LEMMA ConcatenatedDistinct ==
  ASSUME NEW s, IsList(s), NEW t, IsList(t),
         Distinct(s), Distinct(t), ToSet(s) \cap ToSet(t) = {}
  PROVE  Distinct(s \o t)
<1>1. PICK n \in Nat : n = Len(s) /\ DOMAIN s = 1 .. n
  BY ListIs
<1>2. PICK m \in Nat : m = Len(t) /\ DOMAIN t = 1 .. m
  BY ListIs
<1>3. PICK u : u = s \o t
  OBVIOUS
<1>4. /\ IsList(u) /\ DOMAIN u = 1 .. n + m
      /\ \A i \in 1 .. n : u[i] = s[i]
      /\ \A i \in 1 .. m : u[n + i] = t[i]
  <2>1. /\ IsList(u) /\ Len(u) = n + m
        /\ \A i \in 1 .. n : u[i] = s[i]
        /\ \A i \in 1 .. m : u[n + i] = t[i]
    BY <1>1, <1>2, <1>3, Concatenated
  <2> QED
    BY <2>1, ListIs
<1>5. \A i \in (1 .. n + m) \ (1 .. n) : i - n \in 1 .. m /\ u[i] = t[i - n]
  <2>1. SUFFICES ASSUME NEW i \in (1 .. n + m) \ (1 .. n) PROVE i - n \in 1 .. m /\ u[i] = t[i - n]
    OBVIOUS
  <2>2. PICK k \in 1 .. m : i = n + k
    <3>1. i - n \in 1 .. m /\ i = n + (i - n)
      BY <1>1, <1>2
    <3> QED
      BY <3>1
  <2>3. i - n = k
    BY <2>2, <1>1
  <2> QED
    BY <1>4, <2>2, <2>3
<1>6. SUFFICES ASSUME NEW i \in 1 .. n + m, NEW k \in 1 .. n + m, u[i] = u[k], i # k PROVE FALSE
  BY <1>3, <1>4 DEF Distinct
<1>7. CASE i \in 1 .. n /\ k \in 1 .. n
  BY <1>1, <1>4, <1>6, <1>7 DEF Distinct
<1>8. CASE i \notin 1 .. n /\ k \notin 1 .. n
  <2>1. i - n = k - n
    BY <1>2, <1>5, <1>6, <1>8 DEF Distinct
  <2> QED
    BY <1>1, <1>6, <2>1
<1>9. CASE i \in 1 .. n /\ k \notin 1 .. n
  <2>1. u[i] \in ToSet(s) /\ u[k] \in ToSet(t)
    BY <1>1, <1>2, <1>4, <1>5, <1>9 DEF ToSet
  <2> QED
    BY <1>6, <2>1
<1>10. CASE i \notin 1 .. n /\ k \in 1 .. n
  <2>1. u[k] \in ToSet(s) /\ u[i] \in ToSet(t)
    BY <1>1, <1>2, <1>4, <1>5, <1>10 DEF ToSet
  <2> QED
    BY <1>6, <2>1
<1> QED
  BY <1>7, <1>8, <1>9, <1>10

LEMMA Single ==
  ASSUME NEW x
  PROVE  IsList(<<x>>) /\ Len(<<x>>) = 1 /\ ToSet(<<x>>) = {x} /\ Distinct(<<x>>)
<1>1. PICK s : s = <<x>>
  OBVIOUS
<1>2. s \in Seq({x}) /\ Len(s) = 1 /\ s[1] = x
  BY <1>1
<1>3. IsList(s) /\ DOMAIN s = {1}
  <2>1. IsList(s)
    BY <1>2, SeqIsList
  <2> QED
    BY <1>2, <2>1, ListIs
<1> QED
  BY <1>1, <1>2, <1>3 DEF ToSet, Distinct

\* Elements picked at positions that hold different ones are different.
LEMMA PickedDistinct ==
  ASSUME NEW s, IsList(s), NEW I \in SUBSET (DOMAIN s), \A i, k \in I : s[i] = s[k] => i = k
  PROVE  Distinct(Picked(s, I))
<1>1. PICK t : t = Picked(s, I)
  OBVIOUS
<1>2. PICK n \in Nat : n = Len(t) /\ DOMAIN t = 1 .. n
  BY <1>1, PickedIs, ListIs
<1>3. PICK p \in [1 .. n -> I] : /\ \A k \in 1 .. n : t[k] = s[p[k]]
                                /\ \A k, l \in 1 .. n : k < l => p[k] < p[l]
  BY <1>1, <1>2, PickedIs
<1>4. I \subseteq Nat
  BY ListIs
<1>5. ASSUME NEW k \in 1 .. n, NEW l \in 1 .. n, k < l PROVE t[k] # t[l]
  <2>1. p[k] < p[l] /\ p[k] \in I /\ p[l] \in I
    BY <1>3, <1>5
  <2>2. p[k] # p[l]
    BY <1>4, <2>1
  <2> QED
    BY <1>3, <2>1, <2>2
<1>6. \A k, l \in 1 .. n : t[k] = t[l] => k = l
  <2>1. SUFFICES ASSUME NEW k \in 1 .. n, NEW l \in 1 .. n, k # l PROVE t[k] # t[l]
    OBVIOUS
  <2>2. k < l \/ l < k
    BY <1>2, <2>1
  <2> QED
    BY <1>5, <2>2
<1> QED
  BY <1>1, <1>2, <1>6 DEF Distinct

\* What a filter returns.
LEMMA Kept ==
  ASSUME NEW s, IsList(s), NEW I, I \subseteq DOMAIN s
  PROVE  /\ IsList(Picked(s, I)) /\ ToSet(Picked(s, I)) = {s[i] : i \in I}
         /\ ToSet(Picked(s, I)) \subseteq ToSet(s)
         /\ Distinct(s) => Distinct(Picked(s, I))
<1>1. I \in SUBSET (DOMAIN s)
  OBVIOUS
<1>2. IsList(Picked(s, I))
  BY <1>1, PickedIs
<1>3. ToSet(Picked(s, I)) = {s[i] : i \in I}
  BY <1>1, PickedSet
<1>4. {s[i] : i \in I} \subseteq ToSet(s)
  BY DEF ToSet
<1>5. ASSUME Distinct(s) PROVE Distinct(Picked(s, I))
  <2>1. \A i, k \in I : s[i] = s[k] => i = k
    BY <1>5 DEF Distinct
  <2> QED
    BY <1>1, <2>1, PickedDistinct
<1> QED
  BY <1>2, <1>3, <1>4, <1>5

\* What may be listed by SetToSeq: every finite set, each element once.
LEMMA SetToSeqIs ==
  ASSUME NEW S, IsFiniteSet(S)
  PROVE  /\ IsList(SetToSeq(S)) /\ ToSet(SetToSeq(S)) = S
         /\ Distinct(SetToSeq(S)) /\ Len(SetToSeq(S)) = Cardinality(S)
<1>1. PICK n \in Nat : n = Cardinality(S)
  BY FS_CardinalityType
<1>2. ExistsBijection(1 .. n, S)
  BY <1>1, FS_NatBijection, FS_CountingElements
<1>3. PICK g \in Bijection(1 .. n, S) : TRUE
  BY <1>2 DEF ExistsBijection
<1>4. g \in [1 .. n -> S] /\ IsInjective(g)
  BY <1>3 DEF Bijection, Injection, IsInjective
<1>5. PICK f : f = CHOOSE h \in [1 .. n -> S] : IsInjective(h)
  OBVIOUS
<1>6. f \in [1 .. n -> S] /\ IsInjective(f)
  BY <1>4, <1>5
<1>7. f = SetToSeq(S)
  BY <1>1, <1>5 DEF SetToSeq
<1>8. IsList(f) /\ Len(f) = n /\ DOMAIN f = 1 .. n
  <2>1. f = [i \in 1 .. n |-> f[i]]
    BY <1>6
  <2> QED
    BY <1>1, <2>1, ListOf
<1>9. Distinct(f)
  BY <1>6, <1>8 DEF Distinct, IsInjective
<1>10. ToSet(f) = S
  <2>1. IsFiniteSet(ToSet(f)) /\ Cardinality(ToSet(f)) = n
    BY <1>8, <1>9, DistinctCount
  <2>2. ToSet(f) \subseteq S
    BY <1>6 DEF ToSet
  <2> QED
    BY <1>1, <2>1, <2>2, FS_Subset
<1> QED
  BY <1>1, <1>7, <1>8, <1>9, <1>10

\* The first m lists of seqs, one after the other, for each m up to n.
Chained(seqs, n, g) ==
  /\ g = [i \in 1 .. n |-> g[i]]
  /\ \A i \in 1 .. n : g[i] = IF i = 1 THEN seqs[i] ELSE g[i - 1] \o seqs[i]

LEMMA ChainedExists ==
  ASSUME NEW seqs, NEW n \in Nat
  PROVE  \E g : Chained(seqs, n, g)
<1>1. PICK P : P = {m \in Nat : \E g : Chained(seqs, m, g)}
  OBVIOUS
<1>2. 0 \in P
  <2>1. PICK g : g = [i \in 1 .. 0 |-> 0]
    OBVIOUS
  <2>2. g = [i \in 1 .. 0 |-> g[i]]
    BY <2>1
  <2>3. Chained(seqs, 0, g)
    BY <2>2 DEF Chained
  <2> QED
    BY <1>1, <2>3
<1>3. ASSUME NEW m \in P PROVE m + 1 \in P
  <2>1. PICK g : Chained(seqs, m, g)
    BY <1>1
  <2>2. PICK h : h = [i \in 1 .. m + 1 |->
                        IF i = m + 1 THEN IF i = 1 THEN seqs[i] ELSE g[i - 1] \o seqs[i] ELSE g[i]]
    OBVIOUS
  <2>3. m \in Nat
    BY <1>1
  <2>4. h = [i \in 1 .. m + 1 |-> h[i]]
    BY <2>2
  <2>5. ASSUME NEW i \in 1 .. m + 1
        PROVE  h[i] = IF i = 1 THEN seqs[i] ELSE h[i - 1] \o seqs[i]
    <3>1. CASE i = m + 1
      <4>1. h[i] = IF i = 1 THEN seqs[i] ELSE g[i - 1] \o seqs[i]
        BY <2>2, <3>1
      <4>2. i # 1 => h[i - 1] = g[i - 1]
        BY <2>2, <2>3, <3>1
      <4> QED
        BY <4>1, <4>2
    <3>2. CASE i # m + 1
      <4>1. i \in 1 .. m
        BY <2>3, <3>2
      <4>2. h[i] = g[i] /\ (i # 1 => h[i - 1] = g[i - 1])
        BY <2>2, <2>3, <4>1
      <4>3. g[i] = IF i = 1 THEN seqs[i] ELSE g[i - 1] \o seqs[i]
        BY <2>1, <4>1 DEF Chained
      <4> QED
        BY <4>2, <4>3
    <3> QED
      BY <3>1, <3>2
  <2>6. Chained(seqs, m + 1, h)
    BY <2>4, <2>5 DEF Chained
  <2> QED
    BY <1>1, <2>3, <2>6
<1>4. P = Nat
  BY <1>1, <1>2, <1>3, Induction
<1> QED
  BY <1>1, <1>4

\* The elements of the lists at the positions J.
Elements(seqs, J) == UNION {ToSet(seqs[i]) : i \in J}

LEMMA OneMore ==
  ASSUME NEW seqs, NEW J, NEW k
  PROVE  /\ Elements(seqs, J \cup {k}) = Elements(seqs, J) \cup ToSet(seqs[k])
         /\ Elements(seqs, {k}) = ToSet(seqs[k])
BY DEF Elements

\* No element comes twice in a list, or in two of them.
Apart(seqs) ==
  /\ \A i \in DOMAIN seqs : Distinct(seqs[i])
  /\ \A i, k \in DOMAIN seqs : i # k => ToSet(seqs[i]) \cap ToSet(seqs[k]) = {}

\* FlattenSeq gives a list of the elements of all lists, each once if none comes twice.
LEMMA FlattenedIs ==
  ASSUME NEW seqs, IsList(seqs), \A i \in DOMAIN seqs : IsList(seqs[i])
  PROVE  /\ IsList(FlattenSeq(seqs))
         /\ ToSet(FlattenSeq(seqs)) = Elements(seqs, DOMAIN seqs)
         /\ Apart(seqs) => Distinct(FlattenSeq(seqs))
<1>1. PICK n \in Nat : n = Len(seqs)
  BY ListIs
<1>2. DOMAIN seqs = 1 .. n
  BY <1>1, ListIs
<1>3. CASE n = 0
  <2>1. FlattenSeq(seqs) = seqs
    BY <1>1, <1>3 DEF FlattenSeq
  <2>2. DOMAIN seqs = {}
    BY <1>2, <1>3
  <2> QED
    BY <2>1, <2>2 DEF ToSet, Elements, Distinct
<1>4. CASE n # 0
  <2>1. PICK f : f = CHOOSE g : g = [i \in 1 .. n |-> IF i = 1 THEN seqs[i] ELSE g[i - 1] \o seqs[i]]
    OBVIOUS
  <2>2. FlattenSeq(seqs) = f[n]
    BY <1>1, <1>4, <2>1 DEF FlattenSeq
  <2>3. \E g : g = [i \in 1 .. n |-> IF i = 1 THEN seqs[i] ELSE g[i - 1] \o seqs[i]]
    <3>1. PICK g : Chained(seqs, n, g)
      BY ChainedExists
    <3>2. g = [i \in 1 .. n |-> IF i = 1 THEN seqs[i] ELSE g[i - 1] \o seqs[i]]
      BY <3>1 DEF Chained
    <3> QED
      BY <3>2
  <2>4. f = [i \in 1 .. n |-> IF i = 1 THEN seqs[i] ELSE f[i - 1] \o seqs[i]]
    BY <2>1, <2>3
  <2>5. \A i \in 1 .. n : f[i] = IF i = 1 THEN seqs[i] ELSE f[i - 1] \o seqs[i]
    BY <2>4
  <2>6. PICK P : P = {m \in Nat : m \in 1 .. n =>
                        /\ IsList(f[m])
                        /\ ToSet(f[m]) = Elements(seqs, 1 .. m)
                        /\ Apart(seqs) => Distinct(f[m])}
    OBVIOUS
  <2>7. 0 \in P
    BY <2>6
  <2>8. ASSUME NEW m \in P PROVE m + 1 \in P
    <3>1. m \in Nat /\ (m \in 1 .. n => /\ IsList(f[m]) /\ ToSet(f[m]) = Elements(seqs, 1 .. m)
                                        /\ Apart(seqs) => Distinct(f[m]))
      BY <2>6
    <3>2. SUFFICES ASSUME m + 1 \in 1 .. n
                   PROVE  /\ IsList(f[m + 1]) /\ ToSet(f[m + 1]) = Elements(seqs, 1 .. m + 1)
                          /\ Apart(seqs) => Distinct(f[m + 1])
      BY <2>6, <3>1
    <3>3. IsList(seqs[m + 1])
      BY <1>2, <3>2
    <3>4. CASE m = 0
      <4>1. f[m + 1] = seqs[m + 1]
        BY <2>5, <3>2, <3>4
      <4>2. 1 .. m + 1 = {m + 1}
        BY <3>4
      <4> QED
        BY <1>2, <3>2, <3>3, <4>1, <4>2, OneMore DEF Apart
    <3>5. CASE m # 0
      <4>1. m \in 1 .. n
        BY <3>1, <3>2, <3>5
      <4>0. PICK k : k = m + 1
        OBVIOUS
      <4>2. f[k] = f[m] \o seqs[k]
        <5>1. k \in 1 .. n /\ k # 1 /\ k - 1 = m
          BY <3>1, <3>2, <3>5, <4>0
        <5>2. f[k] = f[k - 1] \o seqs[k]
          BY <2>5, <5>1
        <5> QED
          BY <5>1, <5>2
      <4>3. IsList(f[k]) /\ ToSet(f[k]) = ToSet(f[m]) \cup ToSet(seqs[k])
        <5>1. IsList(f[m]) /\ IsList(seqs[k])
          BY <3>1, <3>3, <4>0, <4>1
        <5>2. IsList(f[m] \o seqs[k]) /\ ToSet(f[m] \o seqs[k]) = ToSet(f[m]) \cup ToSet(seqs[k])
          BY <5>1, Concatenated, ConcatenatedSet
        <5> QED
          BY <4>2, <5>2
      <4>4. 1 .. k = (1 .. m) \cup {k}
        BY <3>1, <4>0
      <4>5. Elements(seqs, 1 .. k) = Elements(seqs, 1 .. m) \cup ToSet(seqs[k])
        <5>1. Elements(seqs, (1 .. m) \cup {k}) = Elements(seqs, 1 .. m) \cup ToSet(seqs[k])
          BY OneMore
        <5> QED
          BY <4>4, <5>1
      <4>6. ToSet(f[k]) = Elements(seqs, 1 .. k)
        BY <3>1, <4>1, <4>3, <4>5
      <4>7. ASSUME Apart(seqs) PROVE Distinct(f[k])
        <5>1. Distinct(f[m]) /\ Distinct(seqs[k]) /\ IsList(f[m]) /\ IsList(seqs[k])
          BY <1>2, <3>1, <3>2, <3>3, <4>0, <4>1, <4>7 DEF Apart
        <5>2. \A i \in 1 .. m : i \in 1 .. n /\ i # k
          BY <3>1, <3>2, <4>0
        <5>3. ToSet(f[m]) \cap ToSet(seqs[k]) = {}
          BY <1>2, <3>1, <3>2, <4>0, <4>1, <4>7, <5>2 DEF Apart, Elements
        <5> QED
          BY <4>2, <5>1, <5>3, ConcatenatedDistinct
      <4> QED
        BY <4>0, <4>3, <4>6, <4>7
    <3> QED
      BY <3>4, <3>5
  <2>9. P = Nat
    BY <2>6, <2>7, <2>8, Induction
  <2>10. n \in P /\ n \in 1 .. n
    BY <1>4, <2>9
  <2> QED
    BY <1>2, <2>2, <2>6, <2>10
<1> QED
  BY <1>3, <1>4

LEMMA NotEmpty ==
  ASSUME NEW s, IsList(s)
  PROVE  /\ s # <<>> <=> ToSet(s) # {}
         /\ s # <<>> => 1 \in DOMAIN s /\ Len(s) \in Nat \ {0}
<1>1. PICK n \in Nat : n = Len(s) /\ DOMAIN s = 1 .. n
  BY ListIs
<1>2. CASE n = 0
  BY <1>1, <1>2, EmptyIsList DEF ToSet
<1>3. CASE n # 0
  <2>1. 1 \in DOMAIN s
    BY <1>1, <1>3
  <2> QED
    BY <1>1, <1>3, <2>1, EmptyIsList DEF ToSet
<1> QED
  BY <1>2, <1>3

-----------------------------------------------------------------------------
(* Counting and adding up.                                                 *)

LEMMA ImageIs ==
  ASSUME NEW S, IsFiniteSet(S), NEW f, NEW T, T = {f[x] : x \in S}
  PROVE  /\ IsFiniteSet(T)
         /\ (\A x, y \in S : f[x] = f[y] => x = y) => Cardinality(T) = Cardinality(S)
<1>1. PICK g : g = [x \in S |-> f[x]]
  OBVIOUS
<1>2. g \in Surjection(S, T)
  BY <1>1 DEF Surjection
<1>3. (\A x, y \in S : f[x] = f[y] => x = y) => g \in Injection(S, T)
  BY <1>1, <1>2 DEF Injection, IsInjective, Surjection
<1> QED
  BY <1>2, <1>3, FS_Surjection

LEMMA CountIs ==
  ASSUME NEW s, IsList(s), NEW I \in SUBSET (DOMAIN s)
  PROVE  Cardinality(I) \in 0 .. Len(s)
<1>1. PICK n \in Nat : n = Len(s) /\ DOMAIN s = 1 .. n
  BY ListIs
<1>2. IsFiniteSet(1 .. n) /\ Cardinality(1 .. n) = n
  BY FS_Interval
<1>3. IsFiniteSet(I) /\ Cardinality(I) <= n
  BY <1>1, <1>2, FS_Subset
<1> QED
  BY <1>1, <1>3, FS_CardinalityType

\* Induction over the subsets of a finite set.
LEMMA SetInduction ==
  ASSUME NEW S, IsFiniteSet(S), NEW F \in SUBSET SUBSET S, {} \in F,
         \A T \in F : \A x \in S \ T : T \cup {x} \in F
  PROVE  \A T \in SUBSET S : T \in F
<1>1. PICK P : P = {n \in Nat : \A T \in SUBSET S : Cardinality(T) = n => T \in F}
  OBVIOUS
<1>2. \A T \in SUBSET S : IsFiniteSet(T) /\ Cardinality(T) \in Nat
  BY FS_Subset, FS_CardinalityType
<1>3. 0 \in P
  BY <1>1, <1>2, FS_EmptySet
<1>4. ASSUME NEW n \in P PROVE n + 1 \in P
  <2>1. SUFFICES ASSUME NEW T \in SUBSET S, Cardinality(T) = n + 1 PROVE T \in F
    BY <1>1
  <2>2. n \in Nat /\ IsFiniteSet(T)
    BY <1>1, <1>2
  <2>3. PICK x \in T : TRUE
    BY <2>1, <2>2, FS_EmptySet
  <2>4. Cardinality(T \ {x}) = n
    <3>1. Cardinality(T \ {x}) = Cardinality(T) - 1
      BY <2>2, <2>3, FS_RemoveElement
    <3> QED
      BY <2>1, <2>2, <3>1
  <2>5. T \ {x} \in F
    BY <1>1, <2>4
  <2>6. (T \ {x}) \cup {x} \in F /\ (T \ {x}) \cup {x} = T
    BY <2>3, <2>5
  <2> QED
    BY <2>6
<1>5. P = Nat
  BY <1>1, <1>3, <1>4, Induction
<1> QED
  BY <1>1, <1>2, <1>5

LEMMA MaxIs ==
  ASSUME NEW T \in SUBSET Nat, IsFiniteSet(T), T # {}
  PROVE  Max(T) \in T /\ \A m \in T : m <= Max(T)
<1>1. PICK F : F = {U \in SUBSET T : U = {} \/ \E m \in U : \A k \in U : k <= m}
  OBVIOUS
<1>2. ASSUME NEW U \in F, NEW x \in T \ U PROVE U \cup {x} \in F
  <2>1. PICK m \in U \cup {x} : x <= m /\ \A k \in U : k <= m
    <3>1. CASE U = {}
      BY <3>1
    <3>2. CASE U # {}
      <4>1. PICK m \in U : \A k \in U : k <= m
        BY <1>1, <3>2
      <4>2. CASE x <= m
        BY <4>1, <4>2
      <4>3. CASE ~ (x <= m)
        BY <1>1, <4>1, <4>3
      <4> QED
        BY <4>2, <4>3
    <3> QED
      BY <3>1, <3>2
  <2> QED
    BY <1>1, <2>1
<1>3. T \in F
  BY <1>1, <1>2, SetInduction
<1>4. PICK m \in T : \A k \in T : m >= k
  BY <1>1, <1>3
<1>5. Max(T) \in T /\ \A k \in T : Max(T) >= k
  BY <1>4 DEF Max
<1> QED
  BY <1>5

\* The sum of the values of a function on each set of up to n places.
Some(s) == CHOOSE x \in s : TRUE
Summing(h, n, g) ==
  g = [s \in {t \in SUBSET DOMAIN h : Cardinality(t) <= n} |-> IF s = {} THEN 0 ELSE h[Some(s)] + g[s \ {Some(s)}]]

LEMMA SummingExists ==
  ASSUME NEW h, IsFiniteSet(DOMAIN h), NEW n \in Nat
  PROVE  \E g : Summing(h, n, g)
<1>0. \A s \in SUBSET DOMAIN h : IsFiniteSet(s) /\ Cardinality(s) \in Nat
  BY FS_Subset, FS_CardinalityType
<1>1. PICK P : P = {m \in Nat : \E g : Summing(h, m, g)}
  OBVIOUS
<1>2. 0 \in P
  <2>1. PICK D : D = {t \in SUBSET DOMAIN h : Cardinality(t) <= 0}
    OBVIOUS
  <2>2. \A s \in D : s = {}
    BY <1>0, <2>1, FS_EmptySet
  <2>3. PICK g : g = [s \in D |-> 0]
    OBVIOUS
  <2>4. g = [s \in D |-> IF s = {} THEN 0 ELSE h[Some(s)] + g[s \ {Some(s)}]]
    BY <2>2, <2>3
  <2>5. Summing(h, 0, g)
    BY <2>1, <2>4 DEF Summing
  <2> QED
    BY <1>1, <2>5
<1>3. ASSUME NEW m \in P PROVE m + 1 \in P
  <2>1. PICK g : Summing(h, m, g)
    BY <1>1
  <2>2. PICK D, E : /\ D = {t \in SUBSET DOMAIN h : Cardinality(t) <= m}
                    /\ E = {t \in SUBSET DOMAIN h : Cardinality(t) <= m + 1}
    OBVIOUS
  <2>3. m \in Nat /\ D \subseteq E
    BY <1>0, <1>1, <2>2
  <2>4. g = [s \in D |-> IF s = {} THEN 0 ELSE h[Some(s)] + g[s \ {Some(s)}]]
    BY <2>1, <2>2 DEF Summing
  <2>5. PICK f : f = [s \in E |-> IF s = {} THEN 0 ELSE h[Some(s)] + g[s \ {Some(s)}]]
    OBVIOUS
  <2>6. \A s \in D : f[s] = g[s]
    BY <2>3, <2>4, <2>5
  <2>7. ASSUME NEW s \in E, s # {} PROVE s \ {Some(s)} \in D
    <3>1. Some(s) \in s
      BY <2>7 DEF Some
    <3>2. Cardinality(s \ {Some(s)}) = Cardinality(s) - 1
      BY <1>0, <2>2, <3>1, FS_RemoveElement
    <3> QED
      BY <1>0, <2>2, <2>3, <3>2
  <2>8. \A s \in E : f[s] = IF s = {} THEN 0 ELSE h[Some(s)] + f[s \ {Some(s)}]
    BY <2>5, <2>6, <2>7
  <2>9. f = [s \in E |-> IF s = {} THEN 0 ELSE h[Some(s)] + f[s \ {Some(s)}]]
    BY <2>5, <2>8
  <2>10. Summing(h, m + 1, f)
    BY <2>2, <2>9 DEF Summing
  <2> QED
    BY <1>1, <2>3, <2>10
<1>4. P = Nat
  BY <1>1, <1>2, <1>3, Induction
<1> QED
  BY <1>1, <1>4

\* A sum is that over all places, and takes the places of a set one by one.
Totals(h, u) ==
  u = [s \in SUBSET DOMAIN h |-> IF s = {} THEN 0 ELSE h[Some(s)] + u[s \ {Some(s)}]]

LEMMA SumUnfolds ==
  ASSUME NEW h, IsFiniteSet(DOMAIN h)
  PROVE  \E u : Totals(h, u) /\ SumFunction(h) = u[DOMAIN h]
<1>1. PICK D : D = DOMAIN h
  OBVIOUS
<1>2. PICK n \in Nat : n = Cardinality(D)
  BY <1>1, FS_CardinalityType
<1>3. SUBSET D = {t \in SUBSET D : Cardinality(t) <= n}
  BY <1>1, <1>2, FS_Subset
<1>4. PICK g : Summing(h, n, g)
  BY SummingExists
<1>5. g = [s \in SUBSET D |-> IF s = {} THEN 0 ELSE h[Some(s)] + g[s \ {Some(s)}]]
  BY <1>1, <1>3, <1>4 DEF Summing
<1>6. PICK u : u = CHOOSE f : f = [s \in SUBSET D |-> IF s = {} THEN 0 ELSE h[Some(s)] + f[s \ {Some(s)}]]
  OBVIOUS
<1>7. u = [s \in SUBSET D |-> IF s = {} THEN 0 ELSE h[Some(s)] + u[s \ {Some(s)}]]
  BY <1>5, <1>6
<1>8. SumFunction(h) = u[D]
  BY <1>1, <1>6 DEF SumFunction, SumFunctionOnSet, FoldFunctionOnSet, MapThenFoldSet, Some
<1> QED
  BY <1>1, <1>7, <1>8 DEF Totals

\* What holds of no places and of one more place than before holds of all.
Growing(D, F) == \A s \in SUBSET D : s # {} /\ s \ {Some(s)} \in F => s \in F

LEMMA TotalsInduction ==
  ASSUME NEW D, IsFiniteSet(D), NEW F, {} \in F, Growing(D, F)
  PROVE  D \in F
<1>0. \A s \in SUBSET D : IsFiniteSet(s) /\ Cardinality(s) \in Nat
  BY FS_Subset, FS_CardinalityType
<1>1. PICK P : P = {k \in Nat : \A s \in SUBSET D : Cardinality(s) = k => s \in F}
  OBVIOUS
<1>2. 0 \in P
  <2>1. \A s \in SUBSET D : Cardinality(s) = 0 => s = {}
    BY <1>0, FS_EmptySet
  <2> QED
    BY <1>1, <2>1
<1>3. ASSUME NEW k \in P PROVE k + 1 \in P
  <2>1. SUFFICES ASSUME NEW s \in SUBSET D, Cardinality(s) = k + 1 PROVE s \in F
    BY <1>1
  <2>2. k \in Nat /\ s # {}
    BY <1>0, <1>1, <2>1, FS_EmptySet
  <2>3. PICK x \in s : x = Some(s)
    BY <2>2 DEF Some
  <2>4. Cardinality(s \ {x}) = k
    <3>1. IsFiniteSet(s) /\ Cardinality(s \ {x}) = Cardinality(s) - 1
      BY <1>0, <2>3, FS_RemoveElement
    <3> QED
      BY <2>1, <2>2, <3>1
  <2>5. s \ {x} \in F
    BY <1>1, <2>4
  <2> QED
    BY <2>2, <2>3, <2>5 DEF Growing
<1>4. P = Nat
  BY <1>1, <1>2, <1>3, Induction
<1> QED
  BY <1>0, <1>1, <1>4

\* A sum of natural numbers is one, and grows with all its summands.
LEMMA SumIs ==
  ASSUME NEW h, IsFiniteSet(DOMAIN h), \A x \in DOMAIN h : h[x] \in Nat
  PROVE  SumFunction(h) \in Nat
<1>1. PICK u : Totals(h, u) /\ SumFunction(h) = u[DOMAIN h]
  BY SumUnfolds
<1>2. PICK D, F : D = DOMAIN h /\ F = {s \in SUBSET D : u[s] \in Nat}
  OBVIOUS
<1>3. {} \in F
  BY <1>1, <1>2 DEF Totals
<1>4. ASSUME NEW s \in SUBSET D, s # {}, s \ {Some(s)} \in F PROVE s \in F
  <2>1. Some(s) \in s
    BY <1>4 DEF Some
  <2>2. u[s] = h[Some(s)] + u[s \ {Some(s)}]
    BY <1>1, <1>2, <1>4 DEF Totals
  <2> QED
    BY <1>2, <1>4, <2>1, <2>2
<1>5. D \in F
  <2>1. IsFiniteSet(D) /\ Growing(D, F)
    BY <1>2, <1>4 DEF Growing
  <2> QED
    BY ONLY <1>3, <2>1, TotalsInduction
<1> QED
  BY <1>1, <1>2, <1>5

LEMMA SumLess ==
  ASSUME NEW h, IsFiniteSet(DOMAIN h), DOMAIN h # {}, NEW g, DOMAIN g = DOMAIN h,
         \A x \in DOMAIN h : h[x] \in Nat /\ g[x] \in Nat /\ h[x] < g[x]
  PROVE  SumFunction(h) < SumFunction(g)
<1>1. PICK u : Totals(h, u) /\ SumFunction(h) = u[DOMAIN h]
  BY SumUnfolds
<1>2. PICK v : Totals(g, v) /\ SumFunction(g) = v[DOMAIN h]
  BY SumUnfolds
<1>3. PICK D : D = DOMAIN h
  OBVIOUS
<1>4. PICK F : F = {s \in SUBSET D : u[s] \in Nat /\ v[s] \in Nat /\ u[s] <= v[s] /\ (s # {} => u[s] < v[s])}
  OBVIOUS
<1>5. {} \in F
  <2>1. u[{}] = 0 /\ v[{}] = 0
    BY <1>1, <1>2 DEF Totals
  <2> QED
    BY <1>4, <2>1
<1>6. ASSUME NEW s \in SUBSET D, s # {}, s \ {Some(s)} \in F PROVE s \in F
  <2>1. Some(s) \in DOMAIN h
    BY <1>3, <1>6 DEF Some
  <2>2. PICK x, rest : x = Some(s) /\ rest = s \ {x}
    OBVIOUS
  <2>3. u[s] = h[x] + u[rest] /\ v[s] = g[x] + v[rest]
    BY <1>1, <1>2, <1>3, <1>6, <2>2 DEF Totals
  <2>4. u[rest] \in Nat /\ v[rest] \in Nat /\ u[rest] <= v[rest] /\ h[x] \in Nat /\ g[x] \in Nat /\ h[x] < g[x]
    BY <1>4, <1>6, <2>1, <2>2
  <2>5. u[s] \in Nat /\ v[s] \in Nat /\ u[s] < v[s]
    BY <2>3, <2>4
  <2> QED
    BY <1>4, <2>5
<1>7. D \in F
  <2>1. IsFiniteSet(D) /\ Growing(D, F)
    BY <1>3, <1>6 DEF Growing
  <2> QED
    BY ONLY <1>5, <2>1, TotalsInduction
<1> QED
  BY <1>1, <1>2, <1>3, <1>4, <1>7

-----------------------------------------------------------------------------
(* Stable sorts.                                                           *)

\* What is arranged before each element.
Preceding(sc) ==
  LET scored == {<<i, sc[i]>> : i \in DOMAIN sc}
  IN  [p \in scored |-> {q \in scored : q[2] > p[2] \/ (q[2] = p[2] /\ q[1] < p[1])}]

\* p says where in s the elements of t are from.
Permutes(t, s, p) ==
  /\ t = [k \in DOMAIN s |-> s[p[k]]]
  /\ p \in [DOMAIN s -> DOMAIN s]
  /\ \A k, l \in DOMAIN s : p[k] = p[l] => k = l
  /\ \A i \in DOMAIN s : \E k \in DOMAIN s : p[k] = i

LEMMA ArrangedIs ==
  ASSUME NEW s, IsList(s), NEW sc, sc \in [DOMAIN s -> Int]
  PROVE  \E p : /\ Permutes(Arranged(s, sc), s, p)
                /\ \A k, l \in DOMAIN s : k < l => sc[p[k]] > sc[p[l]] \/ (sc[p[k]] = sc[p[l]] /\ p[k] < p[l])
<1>1. PICK n \in Nat : n = Len(s) /\ DOMAIN s = 1 .. n
  BY ListIs
<1>2. PICK S, r : S = {<<i, sc[i]>> : i \in DOMAIN sc} /\ r = Preceding(sc)
  OBVIOUS
<1>3. DOMAIN sc = 1 .. n
  BY <1>1
<1>4. \A x \in S : x[1] \in 1 .. n /\ x[2] = sc[x[1]] /\ x[2] \in Int /\ x = <<x[1], x[2]>>
  BY <1>1, <1>2, <1>3
<1>5. r = [p \in S |-> {q \in S : q[2] > p[2] \/ (q[2] = p[2] /\ q[1] < p[1])}]
  BY <1>2 DEF Preceding
<1>6. StrictOrder(S, r)
  <2>1. r \in [S -> SUBSET S]
    BY <1>5
  <2>2. \A x \in S : x \notin r[x]
    BY <1>4, <1>5
  <2>3. ASSUME NEW x \in S, NEW y \in r[x] PROVE r[y] \subseteq r[x]
    BY <1>4, <1>5
  <2>4. ASSUME NEW x \in S, NEW y \in S PROVE x = y \/ x \in r[y] \/ y \in r[x]
    <3>1. x = <<x[1], x[2]>> /\ y = <<y[1], y[2]>> /\ {x[1], y[1], x[2], y[2]} \subseteq Int
      BY <1>4
    <3>2. CASE x[1] = y[1]
      BY <1>4, <3>1, <3>2
    <3>3. CASE x[1] # y[1]
      BY <1>5, <3>1, <3>3
    <3> QED
      BY <3>2, <3>3
  <2> QED
    BY <2>1, <2>2, <2>3, <2>4 DEF StrictOrder
<1>7. IsFiniteSet(S) /\ Cardinality(S) = n
  <2>1. PICK f : f = [i \in 1 .. n |-> <<i, sc[i]>>]
    OBVIOUS
  <2>2. f \in Surjection(1 .. n, S)
    BY <1>2, <1>3, <2>1 DEF Surjection
  <2>3. \A i, k \in 1 .. n : f[i] = f[k] => i = k
    BY <2>1
  <2>4. f \in Bijection(1 .. n, S)
    <3>1. f \in Injection(1 .. n, S)
      BY <2>1, <2>2, <2>3 DEF Injection, IsInjective, Surjection
    <3> QED
      BY <2>2, <3>1 DEF Bijection
  <2>5. IsFiniteSet(1 .. n) /\ Cardinality(1 .. n) = n
    <3>1. n \in Nat /\ 1 \in Int
      BY <1>1
    <3> QED
      BY ONLY <3>1, FS_Interval
  <2> QED
    BY <2>4, <2>5, FS_Bijection DEF ExistsBijection
<1>8. PICK o : o = RankedBy(S, r)
  OBVIOUS
<1>9. InOrder(o, S, r)
  BY <1>6, <1>7, <1>8, RankedIs
<1>10. PICK p : p = [k \in 1 .. n |-> o[k][1]]
  OBVIOUS
<1>11. Len(o) = n /\ \A k \in 1 .. n : o[k] \in S /\ p[k] \in 1 .. n /\ o[k] = <<p[k], sc[p[k]]>>
  BY <1>4, <1>7, <1>9, <1>10 DEF InOrder
<1>12. Arranged(s, sc) = [k \in DOMAIN s |-> s[p[k]]]
  <2>1. PICK placed : placed = {<<Cardinality(r[x]) + 1, x>> : x \in S}
    OBVIOUS
  <2>2. placed = {<<Cardinality({q \in S : q[2] > x[2] \/ (q[2] = x[2] /\ q[1] < x[1])}) + 1, x>> : x \in S}
    BY <1>5, <2>1
  <2>3. o = [k \in 1 .. Cardinality(S) |-> (CHOOSE x \in placed : x[1] = k)[2]]
    BY <1>8, <2>1 DEF RankedBy
  <2>4. Arranged(s, sc) = [k \in DOMAIN s |-> s[o[k][1]]]
    <3>1. S = {<<i, sc[i]>> : i \in DOMAIN s}
      BY <1>1, <1>2, <1>3
    <3> QED
      BY <2>2, <2>3, <3>1 DEF Arranged, Ranked
  <2> QED
    BY <1>1, <1>10, <2>4
<1>13. ASSUME NEW k \in 1 .. n, NEW l \in 1 .. n, p[k] = p[l] PROVE k = l
  <2>1. o[k] = o[l] /\ {k, l} \subseteq DOMAIN o
    BY <1>9, <1>11, <1>13 DEF InOrder
  <2> QED
    BY <1>9, <2>1 DEF InOrder
<1>14. ASSUME NEW i \in 1 .. n PROVE \E k \in 1 .. n : p[k] = i
  <2>1. <<i, sc[i]>> \in S
    BY <1>2, <1>3
  <2>2. PICK k \in 1 .. n : o[k] = <<i, sc[i]>>
    BY <1>9, <1>11, <2>1 DEF InOrder
  <2> QED
    BY <1>10, <2>2
<1>15. ASSUME NEW k \in 1 .. n, NEW l \in 1 .. n, k < l
       PROVE  sc[p[k]] > sc[p[l]] \/ (sc[p[k]] = sc[p[l]] /\ p[k] < p[l])
  <2>1. o[k] \in r[o[l]]
    BY <1>9, <1>11, <1>15 DEF InOrder
  <2>2. o[k][2] > o[l][2] \/ (o[k][2] = o[l][2] /\ o[k][1] < o[l][1])
    BY <1>5, <1>11, <2>1
  <2> QED
    BY <1>11, <2>2
<1>16. p \in [1 .. n -> 1 .. n]
  BY <1>10, <1>11
<1>17. PICK t : t = Arranged(s, sc)
  OBVIOUS
<1>18. Permutes(t, s, p)
  BY <1>1, <1>12, <1>13, <1>14, <1>16, <1>17 DEF Permutes
<1>19. \A k, l \in DOMAIN s : k < l => sc[p[k]] > sc[p[l]] \/ (sc[p[k]] = sc[p[l]] /\ p[k] < p[l])
  BY <1>1, <1>15
<1> QED
  BY <1>17, <1>18, <1>19

LEMMA ArrangedSame ==
  ASSUME NEW s, IsList(s), NEW sc, sc \in [DOMAIN s -> Int]
  PROVE  /\ IsList(Arranged(s, sc)) /\ Len(Arranged(s, sc)) = Len(s) /\ ToSet(Arranged(s, sc)) = ToSet(s)
         /\ Distinct(s) => Distinct(Arranged(s, sc))
<1>1. PICK n \in Nat : n = Len(s) /\ DOMAIN s = 1 .. n
  BY ListIs
<1>2. PICK t : t = Arranged(s, sc)
  OBVIOUS
<1>3. PICK p : Permutes(t, s, p)
  BY <1>2, ArrangedIs
<1>4. /\ t = [k \in 1 .. n |-> s[p[k]]] /\ p \in [1 .. n -> 1 .. n]
      /\ \A k, l \in 1 .. n : p[k] = p[l] => k = l
      /\ \A i \in 1 .. n : \E k \in 1 .. n : p[k] = i
  BY <1>1, <1>3 DEF Permutes
<1>5. IsList(t) /\ Len(t) = n /\ DOMAIN t = 1 .. n
  <2>1. t = [k \in 1 .. n |-> t[k]]
    BY <1>4
  <2> QED
    BY <2>1, ListOf
<1>6. ToSet(t) = ToSet(s)
  <2>1. ASSUME NEW x \in ToSet(t) PROVE x \in ToSet(s)
    BY <1>1, <1>4, <1>5 DEF ToSet
  <2>2. ASSUME NEW x \in ToSet(s) PROVE x \in ToSet(t)
    <3>1. PICK i \in 1 .. n : x = s[i]
      BY <1>1 DEF ToSet
    <3>2. PICK k \in 1 .. n : p[k] = i
      BY <1>4
    <3> QED
      BY <1>4, <1>5, <3>1, <3>2 DEF ToSet
  <2> QED
    BY <2>1, <2>2
<1>7. ASSUME Distinct(s), NEW k \in 1 .. n, NEW l \in 1 .. n, t[k] = t[l] PROVE k = l
  <2>1. s[p[k]] = s[p[l]] /\ p[k] \in 1 .. n /\ p[l] \in 1 .. n
    BY <1>4, <1>7
  <2>2. p[k] = p[l]
    BY <1>1, <1>7, <2>1 DEF Distinct
  <2> QED
    BY <1>4, <2>2
<1>8. Distinct(s) => Distinct(t)
  BY <1>5, <1>7 DEF Distinct
<1> QED
  BY <1>1, <1>2, <1>5, <1>6, <1>8

\* The first of a list, as many as wanted.
LEMMA UptoPart ==
  ASSUME NEW s, IsList(s), NEW k \in Nat
  PROVE  /\ IsList(Upto(s, k)) /\ Len(Upto(s, k)) = Smaller(k, Len(s)) /\ Len(Upto(s, k)) <= k
         /\ ToSet(Upto(s, k)) \subseteq ToSet(s)
         /\ Distinct(s) => Distinct(Upto(s, k))
<1>1. PICK n \in Nat : n = Len(s) /\ DOMAIN s = 1 .. n
  BY ListIs
<1>2. PICK t, m : t = Upto(s, k) /\ m = Smaller(k, n)
  OBVIOUS
<1>3. IsList(t) /\ Len(t) = m /\ \A i \in 1 .. m : t[i] = s[i]
  BY <1>1, <1>2, UptoIs
<1>4. m \in Nat /\ m <= n /\ m <= k
  BY <1>2 DEF Smaller
<1>5. DOMAIN t = 1 .. m
  BY <1>3, ListIs
<1>6. ToSet(t) \subseteq ToSet(s)
  BY <1>1, <1>3, <1>4, <1>5 DEF ToSet
<1>7. Distinct(s) => Distinct(t)
  BY <1>1, <1>3, <1>4, <1>5 DEF Distinct
<1> QED
  BY <1>1, <1>2, <1>3, <1>4, <1>6, <1>7

-----------------------------------------------------------------------------
(* Rank fusion.                                                            *)

LEMMA FirstAtIs ==
  ASSUME NEW s, IsList(s), NEW x
  PROVE  /\ FirstAt(s, x) \in 0 .. Len(s)
         /\ x \in ToSet(s) => FirstAt(s, x) \in DOMAIN s /\ s[FirstAt(s, x)] = x
         /\ x \notin ToSet(s) => FirstAt(s, x) = 0
<1>1. PICK n \in Nat : n = Len(s) /\ DOMAIN s = 1 .. n
  BY ListIs
<1>2. PICK I : I = {i \in 1 .. n : s[i] = x}
  OBVIOUS
<1>3. FirstAt(s, x) = IF I # {} THEN Min(I) ELSE 0
  BY <1>1, <1>2 DEF FirstAt, SelectInSeq
<1>4. I # {} => Min(I) \in I
  <2>1. I \in SUBSET Nat
    BY <1>2
  <2> QED
    BY <2>1, MinIs
<1>5. x \in ToSet(s) <=> I # {}
  BY <1>1, <1>2 DEF ToSet
<1>6. CASE I = {}
  BY <1>1, <1>3, <1>5, <1>6
<1>7. CASE I # {}
  BY <1>1, <1>2, <1>3, <1>4, <1>5, <1>7
<1> QED
  BY <1>6, <1>7

\* What one list adds to the score of x, and the unit in which it does.
LastRank(lists, k) == k + Max({Len(lists[l]) : l \in DOMAIN lists})
Unit(lists, k) == Larger(1000000, LastRank(lists, k) * LastRank(lists, k))
Share(list, k, unit, x) == IF FirstAt(list, x) = 0 THEN 0 ELSE unit \div (k + FirstAt(list, x))

LEMMA FusedAs ==
  ASSUME NEW lists, NEW k, NEW x
  PROVE  FusedScore(lists, k, x) = SumFunction([l \in DOMAIN lists |-> Share(lists[l], k, Unit(lists, k), x)])
BY DEF FusedScore, Share, Unit, LastRank

Rankings(lists) == IsList(lists) /\ lists # <<>> /\ \A l \in DOMAIN lists : IsList(lists[l])

LEMMA RankingsEnd ==
  ASSUME NEW lists, Rankings(lists), NEW k \in Nat
  PROVE  /\ IsFiniteSet(DOMAIN lists) /\ DOMAIN lists # {}
         /\ Unit(lists, k) \in Nat /\ LastRank(lists, k) \in Nat
         /\ Unit(lists, k) >= LastRank(lists, k) * LastRank(lists, k)
         /\ \A l \in DOMAIN lists : k + Len(lists[l]) <= LastRank(lists, k)
<1>1. PICK n \in Nat : n = Len(lists) /\ DOMAIN lists = 1 .. n
  BY ListIs DEF Rankings
<1>2. n # 0
  BY <1>1, NotEmpty, ListIs DEF Rankings
<1>3. IsFiniteSet(1 .. n)
  <2>1. 1 \in Int /\ n \in Int
    BY <1>1
  <2> QED
    BY ONLY <2>1, FS_Interval
<1>4. PICK S, lens, T : S = 1 .. n /\ lens = [l \in S |-> Len(lists[l])] /\ T = {lens[l] : l \in S}
  OBVIOUS
<1>5. \A l \in 1 .. n : lens[l] \in Nat /\ lens[l] = Len(lists[l])
  <2>1. \A l \in 1 .. n : IsList(lists[l])
    BY <1>1 DEF Rankings
  <2> QED
    BY <1>4, <2>1, ListIs
<1>6. IsFiniteSet(T)
  <2>1. IsFiniteSet(S) /\ T = {lens[l] : l \in S}
    BY <1>3, <1>4
  <2> QED
    BY ONLY <2>1, ImageIs
<1>7. T \in SUBSET Nat /\ T # {}
  <2>1. 1 \in 1 .. n
    BY <1>1, <1>2
  <2> QED
    BY <1>4, <1>5, <2>1
<1>8. PICK m \in Nat : m = Max(T) /\ \A t \in T : t <= m
  BY <1>6, <1>7, MaxIs
<1>9. T = {Len(lists[l]) : l \in DOMAIN lists}
  BY <1>1, <1>4, <1>5
<1>10. LastRank(lists, k) = k + m
  BY <1>8, <1>9 DEF LastRank
<1>11. PICK q \in Nat : q = (k + m) * (k + m)
  OBVIOUS
<1>12. Unit(lists, k) \in Nat /\ Unit(lists, k) >= q
  <2>1. Unit(lists, k) = Larger(1000000, q)
    BY <1>10, <1>11 DEF Unit
  <2> QED
    BY ONLY <2>1, q \in Nat DEF Larger
<1>13. ASSUME NEW l \in 1 .. n PROVE k + Len(lists[l]) <= k + m
  <2>1. lens[l] \in T
    BY <1>4
  <2>2. Len(lists[l]) \in Nat /\ Len(lists[l]) <= m
    BY <1>5, <1>8, <2>1
  <2> QED
    BY <2>2
<1> QED
  BY <1>1, <1>2, <1>3, <1>10, <1>11, <1>12, <1>13

LEMMA ShareIs ==
  ASSUME NEW lists, Rankings(lists), NEW k \in Nat, NEW l \in DOMAIN lists, NEW x
  PROVE  Share(lists[l], k, Unit(lists, k), x) \in Nat
<1>1. PICK unit, at : unit = Unit(lists, k) /\ at = FirstAt(lists[l], x)
  OBVIOUS
<1>0. unit \in Nat
  BY <1>1, RankingsEnd
<1>2. at \in Nat
  <2>1. IsList(lists[l])
    BY DEF Rankings
  <2> QED
    BY <1>1, <2>1, FirstAtIs, ListIs
<1>3. at # 0 => k + at \in Nat \ {0} /\ unit \div (k + at) \in Nat
  BY <1>0, <1>2
<1> QED
  BY <1>1, <1>3 DEF Share

\* Scores are natural numbers; what every ranking has behind another scores less.
LEMMA FusedNat ==
  ASSUME NEW lists, Rankings(lists), NEW k \in Nat, NEW x
  PROVE  FusedScore(lists, k, x) \in Nat
<1>1. PICK h : h = [l \in DOMAIN lists |-> Share(lists[l], k, Unit(lists, k), x)]
  OBVIOUS
<1>2. \A l \in DOMAIN h : h[l] \in Nat
  BY <1>1, ShareIs
<1>3. IsFiniteSet(DOMAIN h)
  BY <1>1, RankingsEnd
<1> QED
  BY <1>1, <1>2, <1>3, FusedAs, SumIs

LEMMA TimesMonotone ==
  ASSUME NEW a \in Nat, NEW b \in Nat, NEW c \in Nat, a <= b
  PROVE  c * a <= c * b /\ c * a \in Nat /\ c * b \in Nat
<1>1. PICK d \in Nat : b = a + d
  <2>1. b - a \in Nat /\ b = a + (b - a)
    OBVIOUS
  <2> QED
    BY <2>1
<1>2. c * b = c * a + c * d /\ c * a \in Nat /\ c * d \in Nat
  BY <1>1
<1> QED
  BY <1>2

\* Shares of a unit that is the square of all ranks tell the ranks apart.
LEMMA SharesDiffer ==
  ASSUME NEW u \in Nat, NEW a \in Nat \ {0}, NEW b \in Nat \ {0}, a < b, b * b <= u
  PROVE  u \div b < u \div a
<1>1. PICK q \in Nat, r \in Nat : q = u \div b /\ r = u % b /\ u = b * q + r /\ r < b
  OBVIOUS
<1>2. PICK p \in Nat, t \in Nat : p = u \div a /\ t = u % a /\ u = a * p + t /\ t < a
  OBVIOUS
<1>3. SUFFICES ASSUME p <= q PROVE FALSE
  BY <1>1, <1>2
<1>4. b <= q
  <2>1. SUFFICES ASSUME q + 1 <= b PROVE FALSE
    OBVIOUS
  <2>2. b * (q + 1) <= b * b
    BY <2>1, TimesMonotone
  <2>3. b * (q + 1) = b * q + b
    OBVIOUS
  <2>4. PICK x \in Nat, y \in Nat : x = b * q /\ y = b * b
    OBVIOUS
  <2>5. x + b <= y /\ y <= u /\ u = x + r
    BY <1>1, <2>2, <2>3, <2>4
  <2> QED
    BY ONLY <2>5, <1>1, b \in Nat, u \in Nat, x \in Nat, y \in Nat
<1>5. a * p <= a * q
  BY <1>3, TimesMonotone
<1>6. q * (a + 1) <= q * b
  BY TimesMonotone
<1>7. PICK x \in Nat, y \in Nat, z \in Nat : x = a * p /\ y = a * q /\ z = b * q
  OBVIOUS
<1>8. q * (a + 1) = y + q /\ q * b = z
  BY <1>7
<1>9. x <= y /\ y + q <= z /\ u = x + t /\ u = z + r /\ t < a /\ a < b /\ b <= q
  BY <1>1, <1>2, <1>4, <1>5, <1>6, <1>7, <1>8
<1> QED
  BY ONLY <1>9, a \in Nat, b \in Nat, q \in Nat, r \in Nat, t \in Nat, u \in Nat, x \in Nat, y \in Nat, z \in Nat

LEMMA FusedLess ==
  ASSUME NEW lists, Rankings(lists), NEW k \in Nat, NEW x, NEW y, x # y,
         \A l \in DOMAIN lists : /\ x \in ToSet(lists[l]) /\ y \in ToSet(lists[l])
                                 /\ FirstAt(lists[l], y) <= FirstAt(lists[l], x)
  PROVE  FusedScore(lists, k, x) < FusedScore(lists, k, y)
<1>1. PICK unit, last : unit = Unit(lists, k) /\ last = LastRank(lists, k)
  OBVIOUS
<1>2. unit \in Nat /\ last \in Nat /\ unit >= last * last /\ \A l \in DOMAIN lists : k + Len(lists[l]) <= last
  BY <1>1, RankingsEnd
<1>3. PICK h, g : /\ h = [l \in DOMAIN lists |-> Share(lists[l], k, unit, x)]
                  /\ g = [l \in DOMAIN lists |-> Share(lists[l], k, unit, y)]
  OBVIOUS
<1>4. ASSUME NEW l \in DOMAIN lists PROVE h[l] \in Nat /\ g[l] \in Nat /\ h[l] < g[l]
  <2>1. PICK s, at, bt : s = lists[l] /\ at = FirstAt(s, x) /\ bt = FirstAt(s, y)
    OBVIOUS
  <2>2. PICK n \in Nat : n = Len(s) /\ DOMAIN s = 1 .. n
    BY <2>1, ListIs DEF Rankings
  <2>3. at \in 1 .. n /\ bt \in 1 .. n /\ s[at] = x /\ s[bt] = y /\ bt <= at
    BY <2>1, <2>2, FirstAtIs DEF Rankings
  <2>4. bt < at
    BY <2>3
  <2>5. PICK a \in Nat \ {0}, b \in Nat \ {0} : a = k + bt /\ b = k + at
    BY <2>3
  <2>6. a < b /\ b <= last
    BY <1>2, <2>1, <2>2, <2>3, <2>4, <2>5
  <2>7. b * b <= unit
    <3>1. b * b <= b * last /\ last * b <= last * last
      BY <1>2, <2>6, TimesMonotone
    <3>2. b * last = last * b /\ {b * b, b * last, last * last} \subseteq Nat
      BY <1>2
    <3> QED
      BY <1>2, <3>1, <3>2
  <2>8. unit \div b < unit \div a
    BY <1>2, <2>6, <2>7, SharesDiffer
  <2>9. h[l] = unit \div b /\ g[l] = unit \div a
    BY <1>3, <2>1, <2>3, <2>5 DEF Share
  <2>10. h[l] \in Nat /\ g[l] \in Nat
    BY <1>1, <1>3, ShareIs
  <2> QED
    BY <2>8, <2>9, <2>10
<1>5. IsFiniteSet(DOMAIN h) /\ DOMAIN h # {} /\ DOMAIN g = DOMAIN h
  BY <1>3, RankingsEnd
<1>6. \A l \in DOMAIN h : h[l] \in Nat /\ g[l] \in Nat /\ h[l] < g[l]
  BY <1>3, <1>4
<1>7. SumFunction(h) < SumFunction(g)
  BY ONLY <1>5, <1>6, SumLess
<1> QED
  BY <1>1, <1>3, <1>7, FusedAs

=============================================================================
