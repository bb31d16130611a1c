--------------------------- MODULE PositionProofs ---------------------------
(***************************************************************************)
(* Lemmas about least numbers, ranks of positions and the part of a list   *)
(* that a loop keeps, for every list: the facts that the proofs about the  *)
(* bridge cache, the caches, the carried files and the saves keep needing. *)
(***************************************************************************)
EXTENDS Positions, Integers, SequencesExt, FiniteSetTheorems, SequenceTheorems, WellFoundedInduction, TLAPS

\* The order of the naturals is well-founded as a relation.
LEMMA NatOrder ==
  \E R : IsWellFoundedOn(R, Nat) /\ \A x, y \in Nat : x < y => <<x, y>> \in R
<1> DEFINE R == OpToRel(<, Nat)
<1>1. IsWellFoundedOn(R, Nat)
  BY NatLessThanWellFounded
<1>2. \A x, y \in Nat : x < y => <<x, y>> \in R
  BY DEF OpToRel
<1> HIDE DEF R
<1> QED
  BY <1>1, <1>2, Zenon

\* A set of naturals that is not empty has a least element.
LEMMA LeastOf ==
  ASSUME NEW T \in SUBSET Nat, T # {}
  PROVE  \E m \in T : \A k \in T : m <= k
<1>1. PICK R : IsWellFoundedOn(R, Nat) /\ \A x, y \in Nat : x < y => <<x, y>> \in R
  BY NatOrder
<1>2. IsWellFoundedOn(R, Nat) /\ T \subseteq Nat
  BY <1>1
<1>3. PICK m \in T : \A k \in T : ~(<<k, m>> \in R)
  BY <1>2, WFMin, Zenon
<1>4. ASSUME NEW k \in T PROVE m <= k
  <2>1. ~(k < m)
    BY <1>1, <1>3
  <2> QED
    BY <2>1
<1> QED
  BY <1>4

\* Ranks of positions: up to i there is one more than up to the one before, if i
\* counts.
LEMMA RankNext ==
  ASSUME NEW n \in Nat, NEW I \in SUBSET (1..n), NEW i \in 1..n
  PROVE  /\ IsFiniteSet(I) /\ Rank(I, i) \in Nat /\ Rank(I, i - 1) \in Nat
         /\ Rank(I, i) = Rank(I, i - 1) + (IF i \in I THEN 1 ELSE 0)
<1>1. IsFiniteSet(1..n) /\ IsFiniteSet(1..i) /\ IsFiniteSet(1..(i - 1))
  BY FS_Interval
<1>2. IsFiniteSet(I)
  BY <1>1, FS_Subset
<1>3. IsFiniteSet(I \cap 1..i) /\ IsFiniteSet(I \cap 1..(i - 1))
  BY <1>2, FS_Subset
<1>4. Rank(I, i) \in Nat /\ Rank(I, i - 1) \in Nat
  BY <1>3, FS_CardinalityType DEF Rank
<1>5. CASE i \in I
  <2>1. I \cap 1..i = (I \cap 1..(i - 1)) \cup {i} /\ i \notin I \cap 1..(i - 1)
    BY <1>5
  <2>2. Cardinality(I \cap 1..i) = Cardinality(I \cap 1..(i - 1)) + 1
    BY <1>3, <2>1, FS_AddElement
  <2> QED
    BY <1>2, <1>4, <1>5, <2>2 DEF Rank
<1>6. CASE i \notin I
  <2>1. I \cap 1..i = I \cap 1..(i - 1)
    BY <1>6
  <2> QED
    BY <1>2, <1>4, <1>6, <2>1 DEF Rank
<1> QED
  BY <1>5, <1>6

LEMMA PositionsFinite ==
  ASSUME NEW n \in Nat, NEW I \in SUBSET (1..n)
  PROVE  IsFiniteSet(I) /\ Cardinality(I) \in Nat
<1>1. IsFiniteSet(1..n)
  BY FS_Interval
<1>2. IsFiniteSet(I)
  BY <1>1, FS_Subset
<1> QED
  BY <1>2, FS_CardinalityType

\* Every rank is taken, by one position only.
LEMMA RankExists ==
  ASSUME NEW n \in Nat, NEW I \in SUBSET (1..n), NEW r \in 1..Cardinality(I)
  PROVE  \E i \in I : Rank(I, i) = r
<1>1. IsFiniteSet(I)
  BY PositionsFinite
<1>2. Cardinality(I) \in Nat
  BY PositionsFinite
<1>3. n # 0
  <2>1. I # {}
    BY <1>2, FS_EmptySet
  <2>2. PICK i : i \in I
    BY <2>1
  <2> QED
    BY <2>2
<1> DEFINE T == {i \in 1..n : Rank(I, i) >= r}
<1>4. Rank(I, n) = Cardinality(I)
  <2>1. I \cap 1..n = I
    OBVIOUS
  <2> QED
    BY <2>1 DEF Rank
<1>5. n \in T
  BY <1>2, <1>3, <1>4
<1>6. T \in SUBSET Nat /\ T # {}
  BY <1>5
<1> HIDE DEF T
<1>7. PICK m \in T : \A k \in T : m <= k
  BY <1>6, LeastOf
<1>8. m \in 1..n /\ Rank(I, m) >= r
  BY DEF T
<1>9. Rank(I, m - 1) \in Nat /\ Rank(I, m - 1) < r
  <2>1. CASE m = 1
    <3>1. I \cap 1..0 = {}
      OBVIOUS
    <3>2. Rank(I, 0) = 0
      BY <3>1, FS_EmptySet DEF Rank
    <3> QED
      BY <1>2, <2>1, <3>2
  <2>2. CASE m # 1
    <3>1. m - 1 \in 1..n /\ m - 1 \notin T
      BY <1>7, <1>8, <2>2
    <3>2. Rank(I, m - 1) \in Nat
      BY <1>8, RankNext
    <3> QED
      BY <1>2, <3>1, <3>2 DEF T
  <2> QED
    BY <2>1, <2>2
<1>10. Rank(I, m) = Rank(I, m - 1) + (IF m \in I THEN 1 ELSE 0) /\ Rank(I, m) \in Nat
  BY <1>8, RankNext
<1>11. m \in I /\ Rank(I, m) = r
  BY <1>2, <1>8, <1>9, <1>10
<1> QED
  BY <1>11

LEMMA RankDiffers ==
  ASSUME NEW n \in Nat, NEW I \in SUBSET (1..n), NEW i \in I, NEW j \in I, i < j
  PROVE  Rank(I, i) # Rank(I, j)
<1>1. IsFiniteSet(I \cap 1..j)
  <2>1. I \cap 1..j \in SUBSET (1..n)
    OBVIOUS
  <2> QED
    BY <2>1, PositionsFinite
<1>2. I \cap 1..i \subseteq I \cap 1..j /\ j \in I \cap 1..j /\ j \notin I \cap 1..i
  OBVIOUS
<1> QED
  BY <1>1, <1>2, FS_Subset DEF Rank

LEMMA RankBounded ==
  ASSUME NEW n \in Nat, NEW I \in SUBSET (1..n), NEW i \in I
  PROVE  Rank(I, i) \in 1..Cardinality(I) /\ Cardinality(I) \in Nat
<1>1. IsFiniteSet(I) /\ Cardinality(I) \in Nat
  BY PositionsFinite
<1>2. I \cap 1..i \subseteq I
  OBVIOUS
<1>3. IsFiniteSet(I \cap 1..i) /\ Rank(I, i) <= Cardinality(I) /\ Rank(I, i) \in Nat
  BY <1>1, <1>2, FS_Subset, FS_CardinalityType DEF Rank
<1>4. i \in I \cap 1..i
  OBVIOUS
<1>5. Rank(I, i) # 0
  BY <1>3, <1>4, FS_EmptySet DEF Rank
<1> QED
  BY <1>1, <1>3, <1>5

\* The n-th picked position: there is one, of that rank, and each is the one of
\* its rank.
NthOf(I, n) == CHOOSE i \in I : Rank(I, i) = n

LEMMA NthOfRank ==
  ASSUME NEW m \in Nat, NEW I \in SUBSET (1..m)
  PROVE  /\ \A n \in 1..Cardinality(I) : NthOf(I, n) \in I /\ Rank(I, NthOf(I, n)) = n
         /\ \A i \in I : Rank(I, i) \in 1..Cardinality(I) /\ NthOf(I, Rank(I, i)) = i
<1>1. \A n \in 1..Cardinality(I) : NthOf(I, n) \in I /\ Rank(I, NthOf(I, n)) = n
  BY RankExists DEF NthOf
<1>2. ASSUME NEW i \in I
      PROVE  Rank(I, i) \in 1..Cardinality(I) /\ NthOf(I, Rank(I, i)) = i
  <2>1. Rank(I, i) \in 1..Cardinality(I)
    BY RankBounded
  <2> DEFINE k == NthOf(I, Rank(I, i))
  <2>2. k \in I /\ Rank(I, k) = Rank(I, i)
    BY <1>1, <2>1
  <2> HIDE DEF k
  <2>3. ~(k < i) /\ ~(i < k)
    BY <2>2, RankDiffers
  <2>4. k = i
    BY <2>2, <2>3
  <2> QED
    BY <2>1, <2>4 DEF k
<1> QED
  BY <1>1, <1>2

\* Ranks grow with the positions.
LEMMA RankGrows ==
  ASSUME NEW m \in Nat, NEW I \in SUBSET (1..m), NEW i \in I, NEW j \in I, Rank(I, i) < Rank(I, j)
  PROVE  i < j
<1> SUFFICES ASSUME ~(i < j) PROVE FALSE
  OBVIOUS
<1>1. i \in 1..m /\ j \in 1..m
  OBVIOUS
<1>2. I \cap 1..j \subseteq I \cap 1..i /\ I \cap 1..i \in SUBSET (1..m) /\ I \cap 1..j \in SUBSET (1..m)
  BY <1>1
<1>3. IsFiniteSet(I \cap 1..i) /\ Cardinality(I \cap 1..i) \in Nat /\ Cardinality(I \cap 1..j) \in Nat
  BY <1>2, PositionsFinite
<1>4. Rank(I, j) <= Rank(I, i) /\ Rank(I, i) \in Nat /\ Rank(I, j) \in Nat
  BY <1>2, <1>3, FS_Subset DEF Rank
<1> QED
  BY <1>4

\* What is picked: the elements at the positions, each once for each, in order.
LEMMA PickedIs ==
  ASSUME NEW S, NEW q \in Seq(S), NEW I \in SUBSET DOMAIN q
  PROVE  /\ Picked(q, I) \in Seq(S) /\ Len(Picked(q, I)) = Cardinality(I) /\ Cardinality(I) \in Nat
         /\ ToSet(Picked(q, I)) = {q[i] : i \in I}
         /\ IsInjective(q) => IsInjective(Picked(q, I))
         /\ \A n \in DOMAIN Picked(q, I) : NthOf(I, n) \in I /\ Picked(q, I)[n] = q[NthOf(I, n)]
         /\ \A n, k \in DOMAIN Picked(q, I) : n < k => NthOf(I, n) < NthOf(I, k)
<1> DEFINE w == [n \in 1..Cardinality(I) |-> q[NthOf(I, n)]]
<1>1. Picked(q, I) = w
  BY DEF Picked, NthOf
<1>2. Len(q) \in Nat /\ I \in SUBSET (1..Len(q)) /\ DOMAIN q = 1..Len(q)
  OBVIOUS
<1>3. \A n \in 1..Cardinality(I) : NthOf(I, n) \in I /\ Rank(I, NthOf(I, n)) = n
  BY <1>2, NthOfRank
<1>4. \A i \in I : Rank(I, i) \in 1..Cardinality(I) /\ NthOf(I, Rank(I, i)) = i
  BY <1>2, NthOfRank
<1>5. Cardinality(I) \in Nat
  BY <1>2, PositionsFinite
<1>6. w \in Seq(S) /\ Len(w) = Cardinality(I) /\ DOMAIN w = 1..Cardinality(I)
  <2>1. ASSUME NEW n \in 1..Cardinality(I) PROVE q[NthOf(I, n)] \in S
    <3>1. NthOf(I, n) \in 1..Len(q)
      BY <1>2, <1>3
    <3> QED
      BY <3>1
  <2> QED
    BY <1>5, <2>1
<1>7. IsInjective(q) => IsInjective(w)
  <2>1. ASSUME IsInjective(q), NEW n \in 1..Cardinality(I), NEW k \in 1..Cardinality(I), w[n] = w[k]
        PROVE  n = k
    <3>1. q[NthOf(I, n)] = q[NthOf(I, k)]
      BY <2>1
    <3>2. NthOf(I, n) \in DOMAIN q /\ NthOf(I, k) \in DOMAIN q
      BY <1>2, <1>3
    <3>3. NthOf(I, n) = NthOf(I, k)
      BY <2>1, <3>1, <3>2 DEF IsInjective
    <3> QED
      BY <1>3, <3>3
  <2> QED
    BY <2>1 DEF IsInjective
<1>8. ToSet(w) = {q[i] : i \in I}
  <2>1. ASSUME NEW a \in ToSet(w) PROVE a \in {q[i] : i \in I}
    <3>1. PICK n \in 1..Cardinality(I) : a = q[NthOf(I, n)]
      BY <2>1 DEF ToSet
    <3> QED
      BY <1>3, <3>1
  <2>2. ASSUME NEW i \in I PROVE q[i] \in ToSet(w)
    <3>1. Rank(I, i) \in DOMAIN w /\ w[Rank(I, i)] = q[i]
      BY <1>4
    <3> HIDE DEF w
    <3> QED
      BY <3>1 DEF ToSet
  <2> QED
    BY <2>1, <2>2
<1>9. \A n, k \in 1..Cardinality(I) : n < k => NthOf(I, n) < NthOf(I, k)
  <2>1. ASSUME NEW n \in 1..Cardinality(I), NEW k \in 1..Cardinality(I), n < k
        PROVE  NthOf(I, n) < NthOf(I, k)
    <3>1. NthOf(I, n) \in I /\ NthOf(I, k) \in I /\ Rank(I, NthOf(I, n)) < Rank(I, NthOf(I, k))
      BY <1>3, <2>1
    <3> QED
      BY <1>2, <3>1, RankGrows
  <2> QED
    BY <2>1
<1> QED
  BY <1>1, <1>3, <1>5, <1>6, <1>7, <1>8, <1>9

\* All the positions: the list itself.
LEMMA PickedAll ==
  ASSUME NEW S, NEW q \in Seq(S)
  PROVE  Picked(q, DOMAIN q) = q
<1>1. Len(q) \in Nat /\ DOMAIN q = 1..Len(q)
  OBVIOUS
<1>2. Cardinality(DOMAIN q) = Len(q)
  BY <1>1, FS_Interval
<1>3. ASSUME NEW i \in DOMAIN q PROVE Rank(DOMAIN q, i) = i
  <2>1. i \in 1..Len(q) /\ DOMAIN q \cap 1..i = 1..i
    BY <1>1
  <2>2. Cardinality(1..i) = i
    BY <2>1, FS_Interval
  <2> QED
    BY <2>1, <2>2 DEF Rank
<1>4. ASSUME NEW n \in DOMAIN q PROVE NthOf(DOMAIN q, n) = n
  BY <1>3 DEF NthOf
<1>5. Picked(q, DOMAIN q) = [n \in 1..Len(q) |-> q[NthOf(DOMAIN q, n)]]
  BY <1>2 DEF Picked, NthOf
<1>6. [n \in 1..Len(q) |-> q[NthOf(DOMAIN q, n)]] = [n \in 1..Len(q) |-> q[n]]
  BY <1>1, <1>4
<1> QED
  BY <1>1, <1>5, <1>6

LEMMA KeptIs ==
  ASSUME NEW S, NEW q \in Seq(S), NEW those
  PROVE  /\ KeptAmong(q, those) \in Seq(S) /\ ToSet(KeptAmong(q, those)) = ToSet(q) \cap those
         /\ IsInjective(q) => IsInjective(KeptAmong(q, those))
<1> DEFINE stay == {i \in DOMAIN q : q[i] \in those}
<1>1. stay \in SUBSET DOMAIN q /\ {q[i] : i \in stay} = ToSet(q) \cap those
  BY DEF ToSet
<1>2. KeptAmong(q, those) = Picked(q, stay)
  BY DEF KeptAmong
<1> HIDE DEF stay
<1> QED
  BY <1>1, <1>2, PickedIs

\* The head and the tail of a list make up what is in it.
LEMMA HeadAndTail ==
  ASSUME NEW S, NEW q \in Seq(S), q # <<>>
  PROVE  /\ Head(q) \in S /\ Head(q) \in ToSet(q) /\ Tail(q) \in Seq(S)
         /\ ToSet(q) = ToSet(Tail(q)) \cup {Head(q)}
         /\ Len(q) = 1 => ToSet(q) = {Head(q)} /\ Tail(q) = <<>>
         /\ Len(q) # 1 => Tail(q) # <<>>
<1>1. /\ Len(q) \in Nat \ {0} /\ DOMAIN q = 1..Len(q) /\ Head(q) = q[1] /\ Tail(q) \in Seq(S)
      /\ Len(Tail(q)) = Len(q) - 1 /\ \A i \in 1..(Len(q) - 1) : Tail(q)[i] = q[i + 1]
  BY EmptySeq, HeadTailProperties
<1> DEFINE w == Tail(q)
<1>2. DOMAIN w = 1..(Len(q) - 1) /\ \A i \in 1..(Len(q) - 1) : w[i] = q[i + 1]
  BY <1>1
<1> HIDE DEF w
<1>3. Head(q) \in ToSet(q)
  BY <1>1 DEF ToSet
<1>4. ToSet(q) = ToSet(w) \cup {Head(q)}
  <2>1. ASSUME NEW a \in ToSet(q) PROVE a \in ToSet(w) \cup {Head(q)}
    <3>1. PICK i \in 1..Len(q) : a = q[i]
      BY <1>1, <2>1 DEF ToSet
    <3>2. CASE i = 1
      BY <1>1, <3>1, <3>2
    <3>3. CASE i # 1
      <4>1. i - 1 \in 1..(Len(q) - 1) /\ i - 1 + 1 = i
        BY <1>1, <3>1, <3>3
      <4>2. w[i - 1] = a
        BY <1>2, <3>1, <4>1
      <4> QED
        BY <1>2, <4>1, <4>2 DEF ToSet
    <3> QED
      BY <3>2, <3>3
  <2>2. ASSUME NEW a \in ToSet(w) PROVE a \in ToSet(q)
    <3>1. PICK i \in 1..(Len(q) - 1) : a = w[i]
      BY <1>2, <2>2 DEF ToSet
    <3>2. i + 1 \in 1..Len(q) /\ q[i + 1] = a
      BY <1>1, <1>2, <3>1
    <3> QED
      BY <1>1, <3>2 DEF ToSet
  <2> QED
    BY <1>3, <2>1, <2>2
<1>5. Len(q) = 1 => ToSet(q) = {Head(q)} /\ Tail(q) = <<>>
  <2>1. ASSUME Len(q) = 1 PROVE ToSet(q) = {Head(q)}
    <3>1. DOMAIN q = {1}
      BY <1>1, <2>1
    <3> QED
      BY <1>1, <3>1 DEF ToSet
  <2>2. ASSUME Len(q) = 1 PROVE Tail(q) = <<>>
    <3>1. Tail(q) \in Seq(S) /\ Len(Tail(q)) = 0
      BY <1>1, <2>2
    <3> QED
      BY <3>1, EmptySeq
  <2> QED
    BY <2>1, <2>2
<1>6. Len(q) # 1 => Tail(q) # <<>>
  <2>1. Len(q) # 1 => Len(Tail(q)) # 0
    BY <1>1
  <2> QED
    BY <2>1, EmptySeq
<1>7. Head(q) \in S
  BY <1>1
<1> QED
  BY <1>1, <1>3, <1>4, <1>5, <1>6, <1>7 DEF w

---------------------------------------------------------------------------
(* Lists put one behind the other *)

\* g joins the first n lists, one after the other.
Joining(ss, g, n) == g = [i \in 1..n |-> IF i = 1 THEN ss[i] ELSE g[i - 1] \o ss[i]]

\* There is such a function for any number of lists: a smallest number without one cannot be.
LEMMA JoiningExists ==
  ASSUME NEW ss, NEW L \in Nat
  PROVE  \A n \in 1..L : \E g : Joining(ss, g, n)
<1> DEFINE T == {n \in 1..L : ~\E g : Joining(ss, g, n)}
<1> SUFFICES ASSUME T # {} PROVE FALSE
  OBVIOUS
<1>1. T \in SUBSET Nat
  OBVIOUS
<1>2. PICK n \in T : \A k \in T : n <= k
  <2> HIDE DEF T
  <2> QED
    BY <1>1, LeastOf
<1>3. n \in 1..L /\ ~\E g : Joining(ss, g, n)
  BY <1>2
<1>4. CASE n = 1
  <2> DEFINE g == [i \in 1..1 |-> ss[1]]
  <2>1. g = [i \in 1..1 |-> IF i = 1 THEN ss[i] ELSE g[i - 1] \o ss[i]]
    OBVIOUS
  <2> QED
    BY <1>3, <1>4, <2>1 DEF Joining
<1>5. CASE n # 1
  <2>1. n - 1 \in 1..L /\ n - 1 \notin T
    BY <1>2, <1>3, <1>5
  <2>2. PICK g : Joining(ss, g, n - 1)
    BY <2>1
  <2> DEFINE h == [i \in 1..n |-> IF i = n THEN g[n - 1] \o ss[n] ELSE g[i]]
  <2>3. \A i \in 1..(n - 1) : g[i] = IF i = 1 THEN ss[i] ELSE g[i - 1] \o ss[i]
    <3>1. g = [i \in 1..(n - 1) |-> IF i = 1 THEN ss[i] ELSE g[i - 1] \o ss[i]]
      BY <2>2 DEF Joining
    <3> DEFINE D == 1..(n - 1)
               f(i) == IF i = 1 THEN ss[i] ELSE g[i - 1] \o ss[i]
    <3>2. g = [i \in D |-> f(i)]
      BY <3>1
    <3>3. \A i \in D : g[i] = f(i)
      <4> HIDE DEF D, f
      <4> QED
        BY <3>2
    <3> QED
      BY <3>3
  <2>4. \A i \in 1..n : h[i] = IF i = 1 THEN ss[i] ELSE h[i - 1] \o ss[i]
    <3> SUFFICES ASSUME NEW i \in 1..n PROVE h[i] = IF i = 1 THEN ss[i] ELSE h[i - 1] \o ss[i]
      OBVIOUS
    <3>1. CASE i = n
      <4>1. i - 1 \in 1..n /\ i - 1 # n /\ i # 1
        BY <1>3, <1>5, <3>1
      <4>2. h[i - 1] = g[n - 1] /\ h[i] = g[n - 1] \o ss[n]
        BY <3>1, <4>1
      <4> QED
        BY <3>1, <4>1, <4>2
    <3>2. CASE i # n
      <4>1. i \in 1..(n - 1) /\ h[i] = g[i]
        BY <1>3, <3>2
      <4>2. i # 1 => i - 1 \in 1..n /\ i - 1 # n
        BY <1>3, <3>2
      <4>3. i # 1 => h[i - 1] = g[i - 1]
        BY <4>2
      <4> QED
        BY <2>3, <4>1, <4>3
    <3> QED
      BY <3>1, <3>2
  <2>5. DOMAIN h = 1..n /\ h = [i \in 1..n |-> h[i]]
    OBVIOUS
  <2> HIDE DEF h
  <2>6. h = [i \in 1..n |-> IF i = 1 THEN ss[i] ELSE h[i - 1] \o ss[i]]
    BY <2>4, <2>5
  <2> QED
    BY <1>3, <2>6 DEF Joining
<1> QED
  BY <1>4, <1>5

\* FlattenSeq goes on from the lists before.
LEMMA FlattenStep ==
  ASSUME NEW S, NEW ss \in Seq(S), Len(ss) # 0
  PROVE  \E g : /\ FlattenSeq(ss) = g[Len(ss)] /\ g[1] = ss[1]
                /\ \A i \in 2..Len(ss) : g[i] = g[i - 1] \o ss[i]
<1> DEFINE g == CHOOSE g : Joining(ss, g, Len(ss))
<1>1. Len(ss) \in Nat /\ Len(ss) \in 1..Len(ss)
  OBVIOUS
<1>2. Joining(ss, g, Len(ss))
  BY <1>1, JoiningExists
<1>3. FlattenSeq(ss) = g[Len(ss)]
  BY DEF FlattenSeq, Joining
<1> HIDE DEF g
<1>4. \A i \in 1..Len(ss) : g[i] = IF i = 1 THEN ss[i] ELSE g[i - 1] \o ss[i]
  <2> DEFINE D == 1..Len(ss)
             f(i) == IF i = 1 THEN ss[i] ELSE g[i - 1] \o ss[i]
  <2>1. g = [i \in D |-> f(i)]
    BY <1>2 DEF Joining
  <2>2. \A i \in D : g[i] = f(i)
    <3> HIDE DEF D, f
    <3> QED
      BY <2>1
  <2> QED
    BY <2>2
<1>5. 1 \in 1..Len(ss) /\ \A i \in 2..Len(ss) : i \in 1..Len(ss) /\ i # 1
  BY <1>1
<1>6. g[1] = ss[1]
  BY <1>4, <1>5
<1>7. \A i \in 2..Len(ss) : g[i] = g[i - 1] \o ss[i]
  BY <1>4, <1>5
<1> QED
  BY <1>3, <1>6, <1>7

\* Two lists in a row.
LEMMA Joined ==
  ASSUME NEW S, NEW q \in Seq(S), NEW r \in Seq(S)
  PROVE  /\ q \o r \in Seq(S) /\ Len(q \o r) = Len(q) + Len(r) /\ Len(q) \in Nat /\ Len(r) \in Nat
         /\ \A k \in 1..Len(q) : (q \o r)[k] = q[k]
         /\ \A k \in 1..Len(r) : (q \o r)[Len(q) + k] = r[k]
OBVIOUS

\* How far the lists before the i-th reach.
Reach(g, i) == IF i = 1 THEN 0 ELSE Len(g[i - 1])

\* Where the elements of the first n lists stand once those are joined.
LEMMA FlattenPrefix ==
  ASSUME NEW S, NEW ss \in Seq(Seq(S)), NEW g, g[1] = ss[1], \A i \in 2..Len(ss) : g[i] = g[i - 1] \o ss[i]
  PROVE  \A n \in 1..Len(ss) :
           /\ g[n] \in Seq(S) /\ Reach(g, n) \in Nat
           /\ Len(g[n]) = Reach(g, n) + Len(ss[n])
           /\ \A i \in 1..n, k \in Nat : k \in 1..Len(ss[i]) =>
                Reach(g, i) + k \in 1..Len(g[n]) /\ g[n][Reach(g, i) + k] = ss[i][k]
           /\ \A m \in 1..Len(g[n]) : \E i \in 1..n : \E k \in 1..Len(ss[i]) : m = Reach(g, i) + k
           /\ \A i, j \in 1..n : i < j => Reach(g, i) + Len(ss[i]) <= Reach(g, j)
<1> DEFINE Fine(n) ==
             /\ g[n] \in Seq(S) /\ Reach(g, n) \in Nat
             /\ Len(g[n]) = Reach(g, n) + Len(ss[n])
             /\ \A i \in 1..n, k \in Nat : k \in 1..Len(ss[i]) =>
                  Reach(g, i) + k \in 1..Len(g[n]) /\ g[n][Reach(g, i) + k] = ss[i][k]
             /\ \A m \in 1..Len(g[n]) : \E i \in 1..n : \E k \in 1..Len(ss[i]) : m = Reach(g, i) + k
             /\ \A i, j \in 1..n : i < j => Reach(g, i) + Len(ss[i]) <= Reach(g, j)
           T == {n \in 1..Len(ss) : ~Fine(n)}
<1> SUFFICES ASSUME T # {} PROVE FALSE
  OBVIOUS
<1>1. T \in SUBSET Nat
  OBVIOUS
<1>2. PICK n \in T : \A k \in T : n <= k
  <2> HIDE DEF T
  <2> QED
    BY <1>1, LeastOf
<1>3. n \in 1..Len(ss) /\ ~Fine(n) /\ n \in Nat /\ Len(ss) \in Nat
  BY <1>2
<1>4. \A i \in 1..Len(ss) : ss[i] \in Seq(S) /\ Len(ss[i]) \in Nat
  OBVIOUS
<1>5. CASE n = 1
  <2>1. \A i \in 1..1 : i = 1
    OBVIOUS
  <2>2. Reach(g, 1) = 0
    BY DEF Reach
  <2>3. g[1] = ss[1] /\ ss[1] \in Seq(S) /\ Len(ss[1]) \in Nat
    BY <1>3, <1>4, <1>5
  <2>4. \A m \in 1..Len(g[1]) : m = Reach(g, 1) + m /\ m \in Nat
    BY <2>2, <2>3
  <2>5. Fine(1)
    BY <2>1, <2>2, <2>3, <2>4
  <2> QED
    BY <1>3, <1>5, <2>5
<1>6. CASE n # 1
  <2>1. n - 1 \in 1..Len(ss) /\ n - 1 \notin T /\ n \in 2..Len(ss)
    <3>1. n - 1 \in 1..Len(ss) /\ n \in 2..Len(ss) /\ ~(n <= n - 1)
      BY <1>3, <1>6
    <3> HIDE DEF T
    <3> QED
      BY <1>2, <3>1
  <2>2. Fine(n - 1)
    <3>1. n - 1 \in T <=> n - 1 \in 1..Len(ss) /\ ~Fine(n - 1)
      <4> HIDE DEF Fine
      <4> QED
        OBVIOUS
    <3> QED
      BY <2>1, <3>1
  <2> HIDE DEF T
  <2>3. PICK a : a = g[n - 1]
    OBVIOUS
  <2>4. a \in Seq(S) /\ Len(a) \in Nat
    BY <2>2, <2>3
  <2>5. PICK b : b = ss[n] /\ b \in Seq(S) /\ Len(b) \in Nat
    BY <1>3, <1>4
  <2>6. g[n] = a \o b
    BY <2>1, <2>3, <2>5
  <2>7. /\ a \o b \in Seq(S) /\ Len(a \o b) = Len(a) + Len(b)
        /\ \A k \in 1..Len(a) : (a \o b)[k] = a[k]
        /\ \A k \in 1..Len(b) : (a \o b)[Len(a) + k] = b[k]
    BY <2>4, <2>5, Joined
  <2>8. Reach(g, n) = Len(a)
    BY <1>6, <2>3 DEF Reach
  <2>9. g[n] \in Seq(S) /\ Reach(g, n) \in Nat /\ Len(g[n]) = Reach(g, n) + Len(ss[n])
    BY <2>4, <2>5, <2>6, <2>7, <2>8
  <2>10. ASSUME NEW i \in 1..n, NEW k \in Nat, k \in 1..Len(ss[i])
         PROVE  Reach(g, i) + k \in 1..Len(g[n]) /\ g[n][Reach(g, i) + k] = ss[i][k]
    <3>1. CASE i = n
      BY <2>4, <2>5, <2>6, <2>7, <2>8, <2>10, <3>1
    <3>2. CASE i # n
      <4>1. i \in 1..(n - 1)
        BY <1>3, <3>2
      <4>2. Reach(g, i) + k \in 1..Len(a) /\ a[Reach(g, i) + k] = ss[i][k]
        BY <2>2, <2>3, <2>10, <4>1
      <4>3. Reach(g, i) + k \in 1..Len(a \o b)
        BY <2>4, <2>5, <2>7, <4>2
      <4> QED
        BY <2>6, <2>7, <4>2, <4>3
    <3> QED
      BY <3>1, <3>2
  <2>11. ASSUME NEW m \in 1..Len(g[n])
         PROVE  \E i \in 1..n : \E k \in 1..Len(ss[i]) : m = Reach(g, i) + k
    <3>1. CASE m <= Len(a)
      <4>1. m \in 1..Len(a)
        BY <2>4, <2>9, <3>1
      <4>2. PICK i \in 1..(n - 1) : \E k \in 1..Len(ss[i]) : m = Reach(g, i) + k
        BY <2>2, <2>3, <4>1
      <4> QED
        BY <1>3, <4>2
    <3>2. CASE ~(m <= Len(a))
      <4>1. m - Len(a) \in 1..Len(b) /\ m = Len(a) + (m - Len(a))
        BY <2>4, <2>5, <2>6, <2>7, <3>2
      <4>2. n \in 1..n
        BY <1>3
      <4> QED
        BY <2>5, <2>8, <4>1, <4>2
    <3> QED
      BY <3>1, <3>2
  <2>12. ASSUME NEW i \in 1..n, NEW j \in 1..n, i < j
         PROVE  Reach(g, i) + Len(ss[i]) <= Reach(g, j)
    <3>1. i \in 1..(n - 1)
      BY <1>3, <2>12
    <3>2. CASE j # n
      <4>1. j \in 1..(n - 1)
        BY <1>3, <3>2
      <4> QED
        BY <2>2, <2>12, <3>1, <4>1
    <3>3. CASE j = n
      <4>1. CASE i = n - 1
        BY <2>2, <2>3, <2>8, <3>3, <4>1
      <4>2. CASE i # n - 1
        <5>1. n - 1 \in 1..(n - 1) /\ i < n - 1
          BY <1>3, <3>1, <4>2
        <5>2. Reach(g, i) + Len(ss[i]) <= Reach(g, n - 1)
          BY <2>2, <3>1, <5>1
        <5>3. Len(a) = Reach(g, n - 1) + Len(ss[n - 1]) /\ Reach(g, n - 1) \in Nat /\ Len(ss[n - 1]) \in Nat
          BY <1>4, <2>1, <2>2, <2>3
        <5>4. Reach(g, i) \in Nat
          BY <5>1, <2>2, <2>4, <3>1 DEF Reach
        <5> QED
          BY <1>4, <2>8, <3>1, <3>3, <5>2, <5>3, <5>4
      <4> QED
        BY <4>1, <4>2
    <3> QED
      BY <3>2, <3>3
  <2>13. Fine(n)
    BY <2>9, <2>10, <2>11, <2>12
  <2> QED
    BY <1>3, <2>13
<1> QED
  BY <1>5, <1>6

\* f is the lists of ss put one behind the other: element k of the i-th stands at off[i] + k,
\* nothing else is there, and the lists keep their order.
Chained(f, ss, off) ==
  /\ off \in [1..Len(ss) -> Nat]
  /\ \A i \in 1..Len(ss), k \in Nat : k \in 1..Len(ss[i]) => off[i] + k \in DOMAIN f /\ f[off[i] + k] = ss[i][k]
  /\ \A m \in DOMAIN f : \E i \in 1..Len(ss) : \E k \in 1..Len(ss[i]) : m = off[i] + k
  /\ \A i, j \in 1..Len(ss) : i < j => off[i] + Len(ss[i]) <= off[j]
  /\ \A i \in 1..Len(ss) : i # 1 => off[i] = off[i - 1] + Len(ss[i - 1])

LEMMA FlattenIs ==
  ASSUME NEW S, NEW ss \in Seq(Seq(S))
  PROVE  FlattenSeq(ss) \in Seq(S) /\ \E off : Chained(FlattenSeq(ss), ss, off)
<1>1. CASE Len(ss) = 0
  <2>1. ss = << >> /\ 1..Len(ss) = {}
    BY <1>1
  <2>2. FlattenSeq(ss) = << >>
    BY <2>1 DEF FlattenSeq
  <2>3. << >> \in Seq(S) /\ DOMAIN FlattenSeq(ss) = {}
    BY <2>2
  <2> DEFINE o == [i \in 1..Len(ss) |-> 0]
  <2>4. o \in [1..Len(ss) -> Nat]
    OBVIOUS
  <2>5. Chained(FlattenSeq(ss), ss, o)
    BY <2>1, <2>2, <2>3, <2>4 DEF Chained
  <2> QED
    BY <2>2, <2>3, <2>5
<1>2. CASE Len(ss) # 0
  <2>1. PICK g : /\ FlattenSeq(ss) = g[Len(ss)] /\ g[1] = ss[1]
                 /\ \A i \in 2..Len(ss) : g[i] = g[i - 1] \o ss[i]
    BY <1>2, FlattenStep
  <2>2. \A n \in 1..Len(ss) :
           /\ g[n] \in Seq(S) /\ Reach(g, n) \in Nat
           /\ Len(g[n]) = Reach(g, n) + Len(ss[n])
           /\ \A i \in 1..n, k \in Nat : k \in 1..Len(ss[i]) =>
                Reach(g, i) + k \in 1..Len(g[n]) /\ g[n][Reach(g, i) + k] = ss[i][k]
           /\ \A m \in 1..Len(g[n]) : \E i \in 1..n : \E k \in 1..Len(ss[i]) : m = Reach(g, i) + k
           /\ \A i, j \in 1..n : i < j => Reach(g, i) + Len(ss[i]) <= Reach(g, j)
    BY <2>1, FlattenPrefix
  <2>3. PICK L : L = Len(ss) /\ L \in Nat \ {0} /\ L \in 1..L
    BY <1>2
  <2>4. PICK f : f = FlattenSeq(ss)
    OBVIOUS
  <2>5. /\ f = g[L] /\ f \in Seq(S) /\ DOMAIN f = 1..Len(f)
        /\ \A i \in 1..L, k \in Nat : k \in 1..Len(ss[i]) => Reach(g, i) + k \in 1..Len(f) /\ f[Reach(g, i) + k] = ss[i][k]
        /\ \A m \in 1..Len(f) : \E i \in 1..L : \E k \in 1..Len(ss[i]) : m = Reach(g, i) + k
        /\ \A i, j \in 1..L : i < j => Reach(g, i) + Len(ss[i]) <= Reach(g, j)
    <3>1. f = g[L] /\ L \in 1..Len(ss)
      BY <2>1, <2>3, <2>4
    <3>2. f \in Seq(S) /\ DOMAIN f = 1..Len(f)
      BY <2>2, <3>1
    <3>3. \A i \in 1..L, k \in Nat : k \in 1..Len(ss[i]) => Reach(g, i) + k \in 1..Len(f) /\ f[Reach(g, i) + k] = ss[i][k]
      BY <2>2, <3>1
    <3>4. \A m \in 1..Len(f) : \E i \in 1..L : \E k \in 1..Len(ss[i]) : m = Reach(g, i) + k
      BY <2>2, <3>1
    <3>5. \A i, j \in 1..L : i < j => Reach(g, i) + Len(ss[i]) <= Reach(g, j)
      BY <2>2, <3>1
    <3> QED
      BY <3>1, <3>2, <3>3, <3>4, <3>5
  <2> DEFINE o == [i \in 1..Len(ss) |-> Reach(g, i)]
  <2>6. o \in [1..Len(ss) -> Nat] /\ \A i \in 1..L : o[i] = Reach(g, i)
    BY <2>2, <2>3
  <2>7. ASSUME NEW i \in 1..L, i # 1 PROVE Reach(g, i) = Reach(g, i - 1) + Len(ss[i - 1])
    <3>1. i - 1 \in 1..Len(ss)
      BY <2>3, <2>7
    <3>2. Len(g[i - 1]) = Reach(g, i - 1) + Len(ss[i - 1])
      BY <2>2, <3>1
    <3> QED
      BY <2>7, <3>2 DEF Reach
  <2>8. \A i \in 1..L : i # 1 => i - 1 \in 1..L
    BY <2>3
  <2> HIDE DEF o
  <2>9. o \in [1..L -> Nat]
    BY <2>3, <2>6
  <2>10. \A i \in 1..L, k \in Nat : k \in 1..Len(ss[i]) => o[i] + k \in DOMAIN f /\ f[o[i] + k] = ss[i][k]
    <3> TAKE i \in 1..L, k \in Nat
    <3>1. o[i] = Reach(g, i)
      BY <2>6
    <3>2. k \in 1..Len(ss[i]) => Reach(g, i) + k \in DOMAIN f /\ f[Reach(g, i) + k] = ss[i][k]
      BY <2>5
    <3> QED
      BY <3>1, <3>2
  <2>11. ASSUME NEW m \in DOMAIN f PROVE \E i \in 1..L : \E k \in 1..Len(ss[i]) : m = o[i] + k
    <3>1. PICK i \in 1..L : \E k \in 1..Len(ss[i]) : m = Reach(g, i) + k
      BY <2>5
    <3>2. o[i] = Reach(g, i)
      BY <2>6
    <3> QED
      BY <3>1, <3>2
  <2>12. \A i, j \in 1..L : i < j => o[i] + Len(ss[i]) <= o[j]
    BY <2>5, <2>6, Zenon
  <2>13. \A i \in 1..L : i # 1 => o[i] = o[i - 1] + Len(ss[i - 1])
    BY <2>6, <2>7, <2>8
  <2>14. /\ \A i \in 1..Len(ss), k \in Nat : k \in 1..Len(ss[i]) => o[i] + k \in DOMAIN f /\ f[o[i] + k] = ss[i][k]
         /\ \A m \in DOMAIN f : \E i \in 1..Len(ss) : \E k \in 1..Len(ss[i]) : m = o[i] + k
         /\ \A i, j \in 1..Len(ss) : i < j => o[i] + Len(ss[i]) <= o[j]
         /\ \A i \in 1..Len(ss) : i # 1 => o[i] = o[i - 1] + Len(ss[i - 1])
         /\ o \in [1..Len(ss) -> Nat]
    BY ONLY <2>3, <2>9, <2>10, <2>11, <2>12, <2>13
  <2>15. f \in Seq(S)
    BY <2>5
  <2>16. Chained(f, ss, o)
    BY ONLY <2>14, Zenon DEF Chained
  <2> QED
    BY ONLY <2>4, <2>15, <2>16
<1> QED
  BY <1>1, <1>2

=============================================================================
