----------------------------- MODULE MediaRing_proofs -----------------------------
(***************************************************************************)
(* The media ring for any number of nodes and readers: its shape, the      *)
(* frame LastValue points to, and its refinement of RingLock up to a       *)
(* panic, by the inductive invariant RingInv.                              *)
(***************************************************************************)
EXTENDS MediaRing, FiniteSetTheorems, SequenceTheorems, WellFoundedInduction, TLAPS

(***************************************************************************)
(* Sequences as sets of nodes.                                             *)
(***************************************************************************)
LEMMA ElemsOf ==
    ASSUME NEW S, NEW q \in Seq(S)
    PROVE  /\ \A x : x \in Elems(q) <=> \E i \in 1 .. Len(q) : q[i] = x
           /\ Elems(q) \subseteq S
           /\ IsInjective(q) <=> \A i, j \in 1 .. Len(q) : q[i] = q[j] => i = j
           /\ Len(q) \in Nat
BY DEF Elems, IsInjective

LEMMA ConcatAt ==
    ASSUME NEW S, NEW p \in Seq(S), NEW q \in Seq(S)
    PROVE  /\ p \o q \in Seq(S) /\ Len(p \o q) = Len(p) + Len(q)
           /\ \A i \in 1 .. Len(p) : (p \o q)[i] = p[i]
           /\ \A i \in 1 .. Len(q) : (p \o q)[Len(p) + i] = q[i]
           /\ \A i \in 1 .. Len(p) + Len(q) :
                 \/ i \in 1 .. Len(p) /\ (p \o q)[i] = p[i]
                 \/ i - Len(p) \in 1 .. Len(q) /\ (p \o q)[i] = q[i - Len(p)]
OBVIOUS

LEMMA ConcatElems ==
    ASSUME NEW S, NEW p \in Seq(S), NEW q \in Seq(S)
    PROVE  /\ p \o q \in Seq(S) /\ Len(p \o q) = Len(p) + Len(q)
           /\ Elems(p \o q) = Elems(p) \cup Elems(q)
           /\ IsInjective(p) /\ IsInjective(q) /\ Elems(p) \cap Elems(q) = {}
                 => IsInjective(p \o q)
           /\ Len(p) > 0 => (p \o q)[1] = p[1]
           /\ Len(q) > 0 => (p \o q)[Len(p) + Len(q)] = q[Len(q)]
<1> DEFINE c == p \o q
<1>1. /\ c \in Seq(S) /\ Len(c) = Len(p) + Len(q)
      /\ \A i \in 1 .. Len(p) : c[i] = p[i]
      /\ \A i \in 1 .. Len(q) : c[Len(p) + i] = q[i]
      /\ \A i \in 1 .. Len(p) + Len(q) :
            \/ i \in 1 .. Len(p) /\ c[i] = p[i]
            \/ i - Len(p) \in 1 .. Len(q) /\ c[i] = q[i - Len(p)]
  BY ConcatAt
<1> HIDE DEF c
<1>2. Len(p) \in Nat /\ Len(q) \in Nat BY ElemsOf
<1>3. \A i \in 1 .. Len(q) : Len(p) + i \in 1 .. Len(c) BY <1>1, <1>2
<1>4. \A i \in 1 .. Len(p) : i \in 1 .. Len(c) BY <1>1, <1>2
<1>5. \A x : x \in Elems(c) <=> x \in Elems(p) \/ x \in Elems(q)
  <2> SUFFICES ASSUME NEW x PROVE x \in Elems(c) <=> x \in Elems(p) \/ x \in Elems(q)
    OBVIOUS
  <2>1. ASSUME x \in Elems(c) PROVE x \in Elems(p) \/ x \in Elems(q)
    <3>1. PICK i \in 1 .. Len(c) : c[i] = x BY <1>1, <2>1, ElemsOf
    <3>2. CASE i \in 1 .. Len(p) /\ c[i] = p[i] BY <3>1, <3>2, ElemsOf
    <3>3. CASE i - Len(p) \in 1 .. Len(q) /\ c[i] = q[i - Len(p)] BY <3>1, <3>3, ElemsOf
    <3> QED BY <1>1, <3>1, <3>2, <3>3
  <2>2. ASSUME x \in Elems(p) PROVE x \in Elems(c)
    <3>1. PICK i \in 1 .. Len(p) : p[i] = x BY <2>2, ElemsOf
    <3>2. i \in 1 .. Len(c) /\ c[i] = x BY <1>1, <1>4, <3>1
    <3> QED BY <1>1, <3>2, ElemsOf
  <2>3. ASSUME x \in Elems(q) PROVE x \in Elems(c)
    <3>1. PICK i \in 1 .. Len(q) : q[i] = x BY <2>3, ElemsOf
    <3> QED BY <1>1, <1>3, <3>1, ElemsOf
  <2> QED BY <2>1, <2>2, <2>3
<1>6. ASSUME IsInjective(p), IsInjective(q), Elems(p) \cap Elems(q) = {}
      PROVE  IsInjective(c)
  <2> SUFFICES ASSUME NEW i \in 1 .. Len(c), NEW j \in 1 .. Len(c), c[i] = c[j] PROVE i = j
    BY <1>1, ElemsOf
  <2>1. \A k \in 1 .. Len(p) : p[k] \in Elems(p) BY ElemsOf
  <2>2. \A k \in 1 .. Len(q) : q[k] \in Elems(q) BY ElemsOf
  <2>3. CASE i \in 1 .. Len(p) /\ j \in 1 .. Len(p)
    BY <1>1, <1>6, <2>3, ElemsOf
  <2>4. CASE i - Len(p) \in 1 .. Len(q) /\ j - Len(p) \in 1 .. Len(q)
    <3>1. q[i - Len(p)] = q[j - Len(p)] BY <1>1, <1>2, <2>4
    <3>2. i - Len(p) = j - Len(p) BY <1>6, <2>4, <3>1, ElemsOf
    <3> QED BY <1>2, <3>2
  <2>5. CASE i \in 1 .. Len(p) /\ j - Len(p) \in 1 .. Len(q)
    <3>1. p[i] = q[j - Len(p)] BY <1>1, <1>2, <2>5
    <3> QED BY <1>6, <2>1, <2>2, <2>5, <3>1
  <2>6. CASE i - Len(p) \in 1 .. Len(q) /\ j \in 1 .. Len(p)
    <3>1. q[i - Len(p)] = p[j] BY <1>1, <1>2, <2>6
    <3> QED BY <1>6, <2>1, <2>2, <2>6, <3>1
  <2> QED BY <1>1, <1>2, <2>3, <2>4, <2>5, <2>6
<1>7. Len(q) > 0 => c[Len(p) + Len(q)] = q[Len(q)] BY <1>1, <1>2
<1>8. Len(p) > 0 => c[1] = p[1] BY <1>1, <1>2
<1>9. Elems(c) = Elems(p) \cup Elems(q) BY <1>5
<1> QED BY <1>1, <1>6, <1>7, <1>8, <1>9 DEF c

LEMMA Piece ==
    ASSUME NEW S, NEW q \in Seq(S), NEW m \in Nat \ {0}, NEW n \in Nat, n <= Len(q), m <= n + 1
    PROVE  /\ SubSeq(q, m, n) \in Seq(S) /\ Len(SubSeq(q, m, n)) = n - m + 1
           /\ \A i \in 1 .. n - m + 1 : SubSeq(q, m, n)[i] = q[m + i - 1]
           /\ \A x : x \in Elems(SubSeq(q, m, n)) <=> \E i \in m .. n : q[i] = x
           /\ IsInjective(q) => IsInjective(SubSeq(q, m, n))
<1> DEFINE b == SubSeq(q, m, n)
<1>0. Len(q) \in Nat /\ \A i \in 1 .. Len(q) : q[i] \in S BY ElemsOf
<1>1. \A i \in m .. n : i \in 1 .. Len(q) /\ q[i] \in S BY <1>0
<1>2. m \in Int /\ n \in Int OBVIOUS
<1>3. /\ b \in Seq(S) /\ Len(b) = IF m <= n THEN n - m + 1 ELSE 0
      /\ \A i \in 1 .. n - m + 1 : b[i] = q[m + i - 1]
  BY <1>1, <1>2, SubSeqProperties
<1> HIDE DEF b
<1>4. Len(b) = n - m + 1 BY <1>3
<1>5. ASSUME NEW x PROVE x \in Elems(b) <=> \E i \in m .. n : q[i] = x
  <2>1. ASSUME x \in Elems(b) PROVE \E i \in m .. n : q[i] = x
    <3>1. PICK i \in 1 .. Len(b) : b[i] = x BY <1>3, <2>1, ElemsOf
    <3>2. m + i - 1 \in m .. n /\ q[m + i - 1] = x BY <1>3, <1>4, <3>1
    <3> QED BY <3>2
  <2>2. ASSUME NEW i \in m .. n, q[i] = x PROVE x \in Elems(b)
    <3>1. i - m + 1 \in 1 .. Len(b) /\ m + (i - m + 1) - 1 = i BY <1>4
    <3>2. b[i - m + 1] = q[i] BY <1>3, <1>4, <3>1
    <3> QED BY <1>3, <2>2, <3>1, <3>2, ElemsOf
  <2> QED BY <2>1, <2>2
<1>6. ASSUME IsInjective(q) PROVE IsInjective(b)
  <2> SUFFICES ASSUME NEW i \in 1 .. Len(b), NEW j \in 1 .. Len(b), b[i] = b[j] PROVE i = j
    BY <1>3, ElemsOf
  <2>1. m + i - 1 \in 1 .. Len(q) /\ m + j - 1 \in 1 .. Len(q) BY <1>0, <1>4
  <2>2. q[m + i - 1] = q[m + j - 1] BY <1>3, <1>4
  <2>3. m + i - 1 = m + j - 1 BY <1>6, <2>1, <2>2, ElemsOf
  <2> QED BY <2>3
<1> QED BY <1>3, <1>4, <1>5, <1>6 DEF b


LEMMA Single ==
    ASSUME NEW S, NEW x \in S
    PROVE  /\ <<x>> \in Seq(S) /\ Len(<<x>>) = 1 /\ <<x>>[1] = x
           /\ Elems(<<x>>) = {x} /\ IsInjective(<<x>>)
<1>1. <<x>> \in Seq(S) /\ Len(<<x>>) = 1 /\ <<x>>[1] = x OBVIOUS
<1> PICK q \in Seq(S) : q = <<x>> BY <1>1
<1>2. \A y : y \in Elems(q) <=> \E i \in 1 .. Len(q) : q[i] = y BY ElemsOf
<1>3. Len(q) = 1 /\ q[1] = x BY <1>1
<1>4. \A y : y \in Elems(q) <=> y \in {x} BY <1>2, <1>3
<1>5. IsInjective(q)
  <2>1. \A i, j \in 1 .. Len(q) : i = j BY <1>1
  <2> QED BY <2>1, ElemsOf
<1> QED BY <1>1, <1>4, <1>5

LEMMA SingleIs ==
    ASSUME NEW S, NEW x \in S
    PROVE  \E b \in Seq(S) : /\ b = <<x>> /\ Len(b) = 1 /\ b[1] = x /\ Elems(b) = {x}
                             /\ IsInjective(b)
<1>1. /\ <<x>> \in Seq(S) /\ Len(<<x>>) = 1 /\ <<x>>[1] = x
      /\ Elems(<<x>>) = {x} /\ IsInjective(<<x>>)
  BY Single
<1> QED BY <1>1, Zenon

LEMMA EmptyElems == Elems(<<>>) = {} /\ IsInjective(<<>>) /\ Len(<<>>) = 0
BY DEF Elems, IsInjective

LEMMA SuffixFacts ==
    ASSUME NEW S, NEW q \in Seq(S), NEW n \in Nat, n <= Len(q)
    PROVE  /\ Suffix(q, n) \in Seq(S) /\ Len(Suffix(q, n)) = Len(q) - n
           /\ \A i \in 1 .. Len(q) - n : Suffix(q, n)[i] = q[n + i]
           /\ \A x : x \in Elems(Suffix(q, n)) <=> \E i \in n + 1 .. Len(q) : q[i] = x
           /\ IsInjective(q) => IsInjective(Suffix(q, n))
           /\ n < Len(q) => Suffix(q, n)[Len(q) - n] = q[Len(q)]
<1>0. Len(q) \in Nat BY ElemsOf
<1>1. /\ Suffix(q, n) \in Seq(S) /\ Len(Suffix(q, n)) = Len(q) - (n + 1) + 1
      /\ \A i \in 1 .. Len(q) - (n + 1) + 1 : Suffix(q, n)[i] = q[n + 1 + i - 1]
      /\ \A x : x \in Elems(Suffix(q, n)) <=> \E i \in n + 1 .. Len(q) : q[i] = x
      /\ IsInjective(q) => IsInjective(Suffix(q, n))
  BY <1>0, Piece DEF Suffix
<1>2. Len(q) - (n + 1) + 1 = Len(q) - n BY <1>0
<1>3. ASSUME NEW i \in 1 .. Len(q) - n PROVE Suffix(q, n)[i] = q[n + i]
  <2>1. i \in 1 .. Len(q) - (n + 1) + 1 /\ n + 1 + i - 1 = n + i BY <1>2
  <2>2. Suffix(q, n)[i] = q[n + 1 + i - 1] BY <1>1, <2>1
  <2> QED BY <2>1, <2>2
<1>4. ASSUME n < Len(q) PROVE Suffix(q, n)[Len(q) - n] = q[Len(q)]
  <2>1. Len(q) - n \in 1 .. Len(q) - n /\ n + (Len(q) - n) = Len(q) BY <1>0, <1>4
  <2> QED BY <1>3, <2>1
<1> QED BY <1>1, <1>2, <1>3, <1>4

LEMMA PrefixFacts ==
    ASSUME NEW S, NEW q \in Seq(S), NEW n \in Nat
    PROVE  /\ Prefix(q, n) \in Seq(S)
           /\ Len(Prefix(q, n)) = IF n < Len(q) THEN n ELSE Len(q)
           /\ \A x : x \in Elems(Prefix(q, n)) <=> \E i \in 1 .. Len(q) : i <= n /\ q[i] = x
           /\ IsInjective(q) => IsInjective(Prefix(q, n))
           /\ n > 0 /\ Len(q) > 0 => Prefix(q, n)[1] = q[1]
<1> DEFINE k == IF n < Len(q) THEN n ELSE Len(q)
<1>0. Len(q) \in Nat BY ElemsOf
<1>1. k \in Nat /\ k <= Len(q) /\ 1 <= k + 1 /\ Prefix(q, n) = SubSeq(q, 1, k)
  BY <1>0 DEF Prefix
<1>2. \A i \in 1 .. k : i \in 1 .. Len(q) /\ i <= n BY <1>0
<1>3. \A i \in 1 .. Len(q) : i <= n => i \in 1 .. k BY <1>0
<1> HIDE DEF k
<1>4. /\ SubSeq(q, 1, k) \in Seq(S) /\ Len(SubSeq(q, 1, k)) = k - 1 + 1
      /\ \A i \in 1 .. k - 1 + 1 : SubSeq(q, 1, k)[i] = q[1 + i - 1]
      /\ \A x : x \in Elems(SubSeq(q, 1, k)) <=> \E i \in 1 .. k : q[i] = x
      /\ IsInjective(q) => IsInjective(SubSeq(q, 1, k))
  BY <1>1, Piece
<1>5. ASSUME NEW x
      PROVE  x \in Elems(Prefix(q, n)) <=> \E i \in 1 .. Len(q) : i <= n /\ q[i] = x
  BY <1>1, <1>2, <1>3, <1>4
<1>6. ASSUME n > 0, Len(q) > 0 PROVE Prefix(q, n)[1] = q[1]
  <2>1. 1 \in 1 .. k - 1 + 1 /\ 1 + 1 - 1 = 1 BY <1>0, <1>1, <1>6 DEF k
  <2>2. SubSeq(q, 1, k)[1] = q[1 + 1 - 1] BY <1>4, <2>1
  <2> QED BY <1>1, <2>1, <2>2
<1>7. Len(Prefix(q, n)) = k BY <1>1, <1>4
<1> QED BY <1>1, <1>4, <1>5, <1>6, <1>7 DEF k

LEMMA TailFacts ==
    ASSUME NEW S, NEW q \in Seq(S), Len(q) > 0
    PROVE  Tail(q) = Suffix(q, 1) /\ Head(q) = q[1] /\ q[1] \in S
<1>1. q # <<>> BY EmptyElems
<1>2. Tail(q) = SubSeq(q, 2, Len(q)) BY <1>1, TailIsSubSeq
<1>3. q[1] \in S BY ElementOfSeq, ElemsOf
<1> QED BY <1>1, <1>2, <1>3 DEF Suffix

LEMMA AppendConcat ==
    ASSUME NEW S, NEW q \in Seq(S), NEW x \in S
    PROVE  Append(q, x) = q \o <<x>>
OBVIOUS

-------------------------------------------------------------------------------
(***************************************************************************)
(* Numbers: least and greatest elements, and the k-th element of a set.    *)
(***************************************************************************)
LEMMA Least ==
    ASSUME NEW S, S \subseteq Nat, S # {}
    PROVE  \E i \in S : \A j \in S : i <= j
<1> DEFINE R == OpToRel(<, Nat)
<1>1. IsWellFoundedOn(R, Nat) BY NatLessThanWellFounded
<1>2. \E i \in S : \A j \in S : ~ (<<j, i>> \in R)
  <2> HIDE DEF R
  <2> QED BY <1>1, WFMin
<1>3. PICK i \in S : \A j \in S : ~ (<<j, i>> \in R) BY <1>2
<1>4. \A j \in S : ~ (j < i) BY <1>3 DEF OpToRel
<1> QED BY <1>4

LEMMA MaxIn ==
    ASSUME NEW n \in Nat, NEW S, S \subseteq 0 .. n, S # {}
    PROVE  Max(S) \in S
<1> DEFINE T == {i \in 0 .. n : n - i \in S}
<1>1. T \subseteq Nat /\ T # {}
  <2>1. PICK i \in S : TRUE OBVIOUS
  <2>2. n - i \in 0 .. n /\ n - (n - i) = i BY <2>1
  <2>3. n - i \in T BY <2>1, <2>2
  <2>4. \A k \in 0 .. n : k \in Nat OBVIOUS
  <2> QED BY <2>3, <2>4
<1>2. PICK i \in T : \A j \in T : i <= j BY <1>1, Least
<1>3. n - i \in S OBVIOUS
<1>4. ASSUME NEW y \in S PROVE n - i >= y
  <2>1. y \in 0 .. n /\ n - y \in 0 .. n /\ n - (n - y) = y OBVIOUS
  <2>2. n - y \in T BY <2>1
  <2>3. i <= n - y BY <1>2, <2>2
  <2> QED BY <2>1, <2>3
<1>5. \E x \in S : \A y \in S : x >= y BY <1>3, <1>4
<1>6. (CHOOSE x \in S : \A y \in S : x >= y) \in S BY <1>5
<1> QED BY <1>6 DEF Max

(* How many elements of I are at most i. *)
Rank(I, i) == Cardinality({k \in I : k <= i})

LEMMA Ranked ==
    ASSUME NEW n \in Nat, NEW I, I \subseteq 1 .. n
    PROVE  /\ Cardinality(I) \in Nat
           /\ \A j \in 1 .. Cardinality(I) : \E i \in I : Rank(I, i) = j
<1> DEFINE Up(i) == {k \in I : k <= i}
<1>0. \A k \in I : k \in Nat /\ 1 <= k /\ k <= n OBVIOUS
<1>1. IsFiniteSet(1 .. n) BY FS_Interval
<1>2. IsFiniteSet(I) /\ Cardinality(I) \in Nat BY <1>1, FS_Subset, FS_CardinalityType
<1>3. \A i : Rank(I, i) \in Nat
  <2> SUFFICES ASSUME NEW i PROVE Rank(I, i) \in Nat OBVIOUS
  <2>1. Up(i) \in SUBSET I OBVIOUS
  <2>2. IsFiniteSet(Up(i)) BY <1>2, <2>1, FS_Subset
  <2> QED BY <2>2, FS_CardinalityType DEF Rank
<1>4. Rank(I, n) = Cardinality(I)
  <2>1. Up(n) = I BY <1>0
  <2> QED BY <2>1 DEF Rank
<1>5. Rank(I, 0) = 0
  <2>0. \A k \in I : ~(k <= 0) BY <1>0
  <2>1. Up(0) = {} BY <2>0
  <2> QED BY <2>1, FS_EmptySet DEF Rank
<1>6. ASSUME NEW i \in Nat \ {0}
      PROVE  Rank(I, i) = IF i \in I THEN Rank(I, i - 1) + 1 ELSE Rank(I, i - 1)
  <2>1. Up(i - 1) \in SUBSET I /\ i \notin Up(i - 1) OBVIOUS
  <2>2. IsFiniteSet(Up(i - 1)) BY <1>2, <2>1, FS_Subset
  <2>3. CASE i \in I
    <3>0. \A k \in I : k <= i <=> k <= i - 1 \/ k = i BY <1>0
    <3>1. Up(i) = Up(i - 1) \cup {i} BY <2>3, <3>0
    <3> HIDE DEF Up
    <3>2. Cardinality(Up(i)) = Cardinality(Up(i - 1)) + 1 BY <2>1, <2>2, <3>1, FS_AddElement
    <3> QED BY <2>3, <3>2 DEF Rank, Up
  <2>4. CASE i \notin I
    <3>0. \A k \in I : k <= i <=> k <= i - 1 BY <1>0, <2>4
    <3>1. Up(i) = Up(i - 1) BY <3>0
    <3> QED BY <2>4, <3>1 DEF Rank
  <2> QED BY <2>3, <2>4
<1> HIDE DEF Up
<1>7. ASSUME NEW j \in 1 .. Cardinality(I) PROVE \E i \in I : Rank(I, i) = j
  <2> DEFINE U == {i \in Nat : Rank(I, i) >= j}
  <2>1. n \in U BY <1>2, <1>4
  <2>2. PICK i \in U : \A k \in U : i <= k
    <3> HIDE DEF U
    <3>1. U \subseteq Nat BY DEF U
    <3> QED BY <2>1, <3>1, Least
  <2>3. i \in Nat \ {0} BY <1>5, <2>2
  <2>4. i - 1 \notin U BY <2>2, <2>3
  <2>5. Rank(I, i - 1) < j BY <1>3, <2>3, <2>4
  <2>6. i \in I /\ Rank(I, i) = j BY <1>3, <1>6, <2>2, <2>3, <2>5
  <2> QED BY <2>6
<1> QED BY <1>2, <1>7

LEMMA AtFacts ==
    ASSUME NEW S, NEW q \in Seq(S), NEW I, I \subseteq 1 .. Len(q)
    PROVE  /\ At(q, I) \in Seq(S)
           /\ \A x \in Elems(At(q, I)) : \E i \in I : q[i] = x
           /\ IsInjective(q) => IsInjective(At(q, I))
<1> DEFINE n == Cardinality(I)
           pos(j) == CHOOSE i \in I : Rank(I, i) = j
<1>0. Len(q) \in Nat /\ \A i \in 1 .. Len(q) : q[i] \in S BY ElemsOf
<1>1. n \in Nat /\ \A j \in 1 .. n : \E i \in I : Rank(I, i) = j BY <1>0, Ranked
<1>2. \A j \in 1 .. n : pos(j) \in I /\ Rank(I, pos(j)) = j BY <1>1
<1>3. At(q, I) = [j \in 1 .. n |-> q[pos(j)]] BY DEF At, Rank
<1> HIDE DEF n, pos
<1>4. PICK a : a = At(q, I) OBVIOUS
<1>5. \A j \in 1 .. n : q[pos(j)] \in S BY <1>0, <1>2
<1>6. a \in [1 .. n -> S] BY <1>3, <1>4, <1>5
<1>7. a \in Seq(S) /\ Len(a) = n BY <1>1, <1>6
<1>8. \A j \in 1 .. n : a[j] = q[pos(j)] BY <1>3, <1>4
<1>9. ASSUME NEW x \in Elems(a) PROVE \E i \in I : q[i] = x
  <2>1. PICK j \in 1 .. n : a[j] = x BY <1>7, ElemsOf
  <2> QED BY <1>2, <1>8, <2>1
<1>10. ASSUME IsInjective(q) PROVE IsInjective(a)
  <2> SUFFICES ASSUME NEW j \in 1 .. n, NEW k \in 1 .. n, a[j] = a[k] PROVE j = k
    BY <1>7, ElemsOf
  <2>1. pos(j) \in 1 .. Len(q) /\ pos(k) \in 1 .. Len(q) /\ q[pos(j)] = q[pos(k)]
    BY <1>2, <1>8
  <2>2. pos(j) = pos(k) BY <1>10, <2>1, ElemsOf
  <2> QED BY <1>2, <2>2
<1> QED BY <1>4, <1>7, <1>9, <1>10

-------------------------------------------------------------------------------
(***************************************************************************)
(* Counting nodes.                                                         *)
(***************************************************************************)
LEMMA DistinctExist ==
    ASSUME NEW S, IsFiniteSet(S), NEW n \in Nat, n <= Cardinality(S)
    PROVE  \E q \in [1 .. n -> S] : \A i, j \in 1 .. n : q[i] = q[j] => i = j
<1> DEFINE c == Cardinality(S)
<1>1. c \in Nat /\ ExistsBijection(1 .. c, S) BY FS_CardinalityType
<1>2. PICK f : f \in Bijection(1 .. c, S) BY <1>1 DEF ExistsBijection
<1>3. f \in [1 .. c -> S] /\ \A i, j \in 1 .. c : f[i] = f[j] => i = j
  BY <1>2 DEF Bijection, Injection, IsInjective
<1>4. \A i \in 1 .. n : i \in 1 .. c BY <1>1
<1> DEFINE q == [i \in 1 .. n |-> f[i]]
<1>5. q \in [1 .. n -> S] BY <1>3, <1>4
<1>6. \A i, j \in 1 .. n : q[i] = q[j] => i = j BY <1>3, <1>4
<1> QED BY <1>5, <1>6

LEMMA FewElems ==
    ASSUME NEW S, NEW q \in Seq(S)
    PROVE  IsFiniteSet(Elems(q)) /\ Cardinality(Elems(q)) \in Nat
           /\ Cardinality(Elems(q)) <= Len(q)
<1>1. Len(q) \in Nat /\ \A x : x \in Elems(q) <=> \E i \in 1 .. Len(q) : q[i] = x BY ElemsOf
<1>2. q \in [1 .. Len(q) -> Elems(q)]
  <2>1. DOMAIN q = 1 .. Len(q) /\ q = [i \in DOMAIN q |-> q[i]] OBVIOUS
  <2> QED BY <1>1, <2>1
<1>3. q \in Surjection(1 .. Len(q), Elems(q)) BY <1>1, <1>2 DEF Surjection
<1>4. ExistsSurjection(1 .. Len(q), Elems(q)) BY <1>3 DEF ExistsSurjection
<1>5. IsFiniteSet(Elems(q)) BY <1>1, <1>4, FS_NatSurjection
<1>6. Cardinality(Elems(q)) <= Len(q) BY <1>1, <1>4, FS_SurjCardinalityBound
<1> QED BY <1>5, <1>6, FS_CardinalityType

LEMMA Monotone ==
    ASSUME NEW A, A \subseteq Slots, NEW B, B \subseteq A
    PROVE  IsFiniteSet(A) /\ Cardinality(A) \in Nat /\ IsFiniteSet(B)
           /\ Cardinality(B) \in Nat /\ Cardinality(B) <= Cardinality(A)
<1>1. IsFiniteSet(A) BY MinSizeOK, FS_Subset
<1>2. IsFiniteSet(B) /\ Cardinality(B) <= Cardinality(A) BY <1>1, FS_Subset
<1> QED BY <1>1, <1>2, FS_CardinalityType

LEMMA GarbageSlots ==
    Garbage \subseteq Slots /\ IsFiniteSet(Garbage) /\ Cardinality(Garbage) \in Nat
<1>1. Garbage \subseteq Slots BY DEF Garbage
<1> HIDE DEF Garbage
<1> QED BY <1>1, Monotone

LEMMA NewNodesFacts ==
    ASSUME NEW n \in Nat, n <= Cardinality(Garbage)
    PROVE  /\ NewNodes(n) \in Seq(Slots) /\ Len(NewNodes(n)) = n
           /\ IsInjective(NewNodes(n)) /\ Elems(NewNodes(n)) \subseteq Garbage
<1>1. \E q \in [1 .. n -> Garbage] : \A i, j \in 1 .. n : q[i] = q[j] => i = j
  BY GarbageSlots, DistinctExist
<1>2. /\ NewNodes(n) \in [1 .. n -> Garbage]
      /\ \A i, j \in 1 .. n : NewNodes(n)[i] = NewNodes(n)[j] => i = j
  BY <1>1 DEF NewNodes
<1>3. PICK q : q = NewNodes(n) OBVIOUS
<1>4. q \in Seq(Garbage) /\ Len(q) = n BY <1>2, <1>3
<1>5. q \in Seq(Slots) BY <1>4, GarbageSlots
<1>6. Elems(q) \subseteq Garbage BY <1>4, ElemsOf
<1>7. IsInjective(q) BY <1>2, <1>3, <1>4, ElemsOf
<1> QED BY <1>3, <1>4, <1>5, <1>6, <1>7

(***************************************************************************)
(* glow: the nodes that go in are distinct and not in the ring, what stays *)
(* in the pool is apart from them, and only what the pool lacks is taken   *)
(* from outside.                                                           *)
(***************************************************************************)
LEMMA GlowFacts ==
    ASSUME TypeOK, RingShape, NEW n \in Nat \ {0}, n <= Len(pool) + Cardinality(Garbage)
    PROVE  /\ GlowItems(n) \in Seq(Slots) /\ Len(GlowItems(n)) = n /\ IsInjective(GlowItems(n))
           /\ Elems(GlowItems(n)) \subseteq (Elems(pool) \cup Garbage)
           /\ PoolAfterGlow(n) \in Seq(Slots) /\ IsInjective(PoolAfterGlow(n))
           /\ Elems(PoolAfterGlow(n)) \subseteq Elems(pool)
           /\ Elems(PoolAfterGlow(n)) \cap Elems(GlowItems(n)) = {}
           /\ Len(PoolAfterGlow(n)) + Cardinality(Garbage \ Elems(GlowItems(n)))
                 >= Len(pool) + Cardinality(Garbage) - n
<1>0. /\ ring \in Seq(Slots) /\ pool \in Seq(Slots) /\ Len(pool) \in Nat
      /\ Len(ring) \in Nat /\ Cardinality(Garbage) \in Nat
      /\ IsInjective(pool) /\ Elems(ring) \cap Elems(pool) = {}
  BY ElemsOf, GarbageSlots DEF TypeOK, RingShape
<1>1. CASE n > Len(pool)
  <2> DEFINE m == n - Len(pool)
  <2>1. m \in Nat /\ m <= Cardinality(Garbage) BY <1>0, <1>1
  <2>2. GlowItems(n) = NewNodes(m) \o pool BY <1>1 DEF GlowItems
  <2>3. PoolAfterGlow(n) = <<>> BY <1>0, <1>1 DEF PoolAfterGlow
  <2> HIDE DEF m
  <2>4. /\ NewNodes(m) \in Seq(Slots) /\ Len(NewNodes(m)) = m
        /\ IsInjective(NewNodes(m)) /\ Elems(NewNodes(m)) \subseteq Garbage
    BY <2>1, NewNodesFacts
  <2>5. Elems(NewNodes(m)) \cap Elems(pool) = {} BY <2>4 DEF Garbage
  <2>6. /\ GlowItems(n) \in Seq(Slots) /\ Len(GlowItems(n)) = m + Len(pool)
        /\ Elems(GlowItems(n)) = Elems(NewNodes(m)) \cup Elems(pool)
        /\ IsInjective(GlowItems(n))
    <3> PICK a : a = NewNodes(m) OBVIOUS
    <3> QED BY <1>0, <2>2, <2>4, <2>5, ConcatElems
  <2>7. Cardinality(Garbage \ Elems(GlowItems(n))) >= Cardinality(Garbage) - m
    <3>1. Garbage \ Elems(GlowItems(n)) = Garbage \ Elems(NewNodes(m))
      BY <2>6 DEF Garbage
    <3>2. Cardinality(Garbage \ Elems(NewNodes(m)))
             = Cardinality(Garbage) - Cardinality(Garbage \cap Elems(NewNodes(m)))
      BY GarbageSlots, FS_Difference
    <3>3. Garbage \cap Elems(NewNodes(m)) = Elems(NewNodes(m)) BY <2>4
    <3>4. Cardinality(Elems(NewNodes(m))) \in Nat /\ Cardinality(Elems(NewNodes(m))) <= m
      BY <2>4, FewElems
    <3>5. Cardinality(Garbage \ Elems(GlowItems(n)))
             = Cardinality(Garbage) - Cardinality(Elems(NewNodes(m)))
      BY <3>1, <3>2, <3>3, Zenon
    <3> QED BY <1>0, <2>1, <3>4, <3>5
  <2>8. Cardinality(Garbage \ Elems(GlowItems(n))) \in Nat
    <3>1. (Garbage \ Elems(GlowItems(n))) \subseteq Garbage OBVIOUS
    <3> QED BY <3>1, GarbageSlots, Monotone
  <2>9. m + Len(pool) = n BY <1>0 DEF m
  <2>10. /\ Len(PoolAfterGlow(n)) + Cardinality(Garbage \ Elems(GlowItems(n)))
                 >= Len(pool) + Cardinality(Garbage) - n
    BY <1>0, <2>1, <2>3, <2>7, <2>8, <2>9, EmptyElems
  <2>11. /\ PoolAfterGlow(n) \in Seq(Slots) /\ IsInjective(PoolAfterGlow(n))
         /\ Elems(PoolAfterGlow(n)) = {}
    BY <2>3, EmptyElems
  <2> QED BY <2>4, <2>6, <2>9, <2>10, <2>11
<1>2. CASE n <= Len(pool)
  <2>0. Len(pool) > 0 BY <1>0, <1>2
  <2> DEFINE t == Tail(pool)
             h == Head(pool)
             c == Append(t, h)
  <2>1. t = Suffix(pool, 1) /\ h = pool[1] /\ h \in Slots BY <1>0, <2>0, TailFacts
  <2>2. /\ t \in Seq(Slots) /\ Len(t) = Len(pool) - 1
        /\ \A i \in 1 .. Len(pool) - 1 : t[i] = pool[1 + i]
        /\ \A x : x \in Elems(t) <=> \E i \in 1 + 1 .. Len(pool) : pool[i] = x
        /\ IsInjective(t)
    <3>1. PICK k \in Nat : k = 1 /\ k <= Len(pool) BY <1>0, <2>0
    <3>2. /\ Suffix(pool, k) \in Seq(Slots) /\ Len(Suffix(pool, k)) = Len(pool) - k
          /\ \A i \in 1 .. Len(pool) - k : Suffix(pool, k)[i] = pool[k + i]
          /\ \A x : x \in Elems(Suffix(pool, k)) <=> \E i \in k + 1 .. Len(pool) : pool[i] = x
          /\ IsInjective(Suffix(pool, k))
      BY <1>0, <3>1, SuffixFacts
    <3> HIDE DEF t
    <3> QED BY <2>1, <3>1, <3>2, Zenon
  <2>3. c = t \o <<h>> BY <2>1, <2>2, AppendConcat
  <2>4. \A i, j \in 1 .. Len(pool) : pool[i] = pool[j] => i = j BY <1>0, ElemsOf
  <2> HIDE DEF t, h
  <2>5. h \notin Elems(t)
    <3>1. \A i \in 1 + 1 .. Len(pool) : i \in 1 .. Len(pool) /\ i # 1 BY <1>0
    <3>2. 1 \in 1 .. Len(pool) BY <1>0, <2>0
    <3> QED BY <2>1, <2>2, <2>4, <3>1, <3>2
  <2>6. <<h>> \in Seq(Slots) /\ Len(<<h>>) = 1 /\ <<h>>[1] = h /\ Elems(<<h>>) = {h}
        /\ IsInjective(<<h>>)
    BY <2>1, Single
  <2>7. /\ c \in Seq(Slots) /\ Len(c) = Len(pool) - 1 + 1 /\ Elems(c) = Elems(t) \cup {h}
        /\ IsInjective(c)
    <3>1. PICK b \in Seq(Slots) : b = <<h>> BY <2>6
    <3>2. Elems(t) \cap Elems(b) = {} BY <2>5, <2>6, <3>1
    <3>3. Len(b) = 1 /\ Elems(b) = {h} /\ IsInjective(b) /\ c = t \o b
      BY <2>3, <2>6, <3>1, Zenon
    <3> HIDE DEF c
    <3>4. /\ t \o b \in Seq(Slots) /\ Len(t \o b) = Len(t) + Len(b)
          /\ Elems(t \o b) = Elems(t) \cup Elems(b) /\ IsInjective(t \o b)
      BY <2>2, <3>2, <3>3, ConcatElems
    <3> QED BY <2>2, <3>3, <3>4, Zenon
  <2>8. \A i \in 1 .. Len(pool) - 1 : c[i] = t[i]
    <3> PICK b : b = <<h>> OBVIOUS
    <3> QED BY <2>2, <2>3, <2>6, ConcatAt
  <2>9. c[Len(pool)] = h
    <3> PICK b : b = <<h>> OBVIOUS
    <3>1. Len(t) + 1 = Len(pool) BY <1>0, <2>2
    <3>2. 1 \in 1 .. Len(b) BY <2>6
    <3> QED BY <2>2, <2>3, <2>6, <3>1, <3>2, ConcatAt
  <2> HIDE DEF c
  <2>10. GlowItems(n) = Prefix(c, n) BY <1>0, <1>2 DEF GlowItems, c, t, h
  <2>11. Len(c) = Len(pool) BY <1>0, <2>7
  <2>12. /\ Prefix(c, n) \in Seq(Slots)
         /\ Len(Prefix(c, n)) = IF n < Len(c) THEN n ELSE Len(c)
         /\ \A x : x \in Elems(Prefix(c, n)) <=> \E i \in 1 .. Len(c) : i <= n /\ c[i] = x
         /\ IsInjective(Prefix(c, n))
    BY <2>7, PrefixFacts
  <2>13. Len(GlowItems(n)) = n BY <1>0, <1>2, <2>10, <2>11, <2>12
  <2>14. Elems(pool) = Elems(t) \cup {h}
    <3>1. \A x : x \in Elems(pool) <=> \E i \in 1 .. Len(pool) : pool[i] = x BY <1>0, ElemsOf
    <3>2. \A i \in 1 .. Len(pool) : i = 1 \/ i \in 1 + 1 .. Len(pool) BY <1>0
    <3>3. 1 \in 1 .. Len(pool) /\ \A i \in 1 + 1 .. Len(pool) : i \in 1 .. Len(pool)
      BY <1>0, <2>0
    <3>4. \A x : x \in Elems(pool) <=> x \in Elems(t) \/ x = h BY <2>1, <2>2, <3>1, <3>2, <3>3
    <3> QED BY <3>4
  <2>15. Elems(GlowItems(n)) \subseteq Elems(pool)
    <3>1. \A x : x \in Elems(c) <=> \E i \in 1 .. Len(c) : c[i] = x BY <2>7, ElemsOf
    <3> QED BY <2>7, <2>10, <2>12, <2>14, <3>1
  <2>16. Garbage \ Elems(GlowItems(n)) = Garbage BY <2>15 DEF Garbage
  <2>17. CASE n = Len(pool)
    <3>1. PoolAfterGlow(n) = <<>> BY <1>0, <2>17 DEF PoolAfterGlow
    <3>2. /\ PoolAfterGlow(n) \in Seq(Slots) /\ IsInjective(PoolAfterGlow(n))
          /\ Elems(PoolAfterGlow(n)) = {} /\ Len(PoolAfterGlow(n)) = 0
      BY <3>1, EmptyElems
    <3>3. Len(PoolAfterGlow(n)) + Cardinality(Garbage) >= Len(pool) + Cardinality(Garbage) - n
      BY <1>0, <2>17, <3>2
    <3> QED BY <2>10, <2>12, <2>13, <2>15, <2>16, <3>2, <3>3
  <2>18. CASE n < Len(pool)
    <3> DEFINE u == Suffix(pool, n + 1)
    <3>1. PoolAfterGlow(n) = <<h>> \o u BY <1>0, <2>18 DEF PoolAfterGlow, h
    <3>2. n + 1 \in Nat /\ n + 1 <= Len(pool) BY <1>0, <2>18
    <3>3. /\ u \in Seq(Slots) /\ Len(u) = Len(pool) - (n + 1)
          /\ \A x : x \in Elems(u) <=> \E i \in n + 1 + 1 .. Len(pool) : pool[i] = x
          /\ IsInjective(u)
      <4>1. PICK k \in Nat : k = n + 1 /\ k <= Len(pool) BY <3>2
      <4>2. /\ Suffix(pool, k) \in Seq(Slots) /\ Len(Suffix(pool, k)) = Len(pool) - k
            /\ \A x : x \in Elems(Suffix(pool, k)) <=> \E i \in k + 1 .. Len(pool) : pool[i] = x
            /\ IsInjective(Suffix(pool, k))
        <5>1. pool \in Seq(Slots) /\ IsInjective(pool) /\ k <= Len(pool) BY <1>0, <4>1
        <5> HIDE DEF u
        <5> QED BY <5>1, SuffixFacts
      <4> QED BY <4>1, <4>2, Zenon
    <3> HIDE DEF u
    <3>4. \A i \in n + 1 + 1 .. Len(pool) : i \in 1 + 1 .. Len(pool) /\ i \in 1 .. Len(pool)
      BY <1>0
    <3>5. Elems(u) \subseteq Elems(t) BY <2>2, <3>3, <3>4
    <3>6. Elems(<<h>>) \cap Elems(u) = {} BY <2>5, <2>6, <3>5
    <3>7. /\ PoolAfterGlow(n) \in Seq(Slots) /\ Len(PoolAfterGlow(n)) = 1 + Len(u)
          /\ Elems(PoolAfterGlow(n)) = {h} \cup Elems(u) /\ IsInjective(PoolAfterGlow(n))
      <4>1. PICK b \in Seq(Slots) : b = <<h>> BY <2>6
      <4>2. Len(b) = 1 /\ Elems(b) = {h} /\ IsInjective(b) /\ PoolAfterGlow(n) = b \o u
            /\ Elems(b) \cap Elems(u) = {}
        BY <2>6, <3>1, <3>6, <4>1, Zenon
      <4>3. /\ b \o u \in Seq(Slots) /\ Len(b \o u) = Len(b) + Len(u)
            /\ Elems(b \o u) = Elems(b) \cup Elems(u) /\ IsInjective(b \o u)
        <5>1. u \in Seq(Slots) /\ IsInjective(u) BY <3>3
        <5>2. IsInjective(b) /\ Elems(b) \cap Elems(u) = {} BY <4>2
        <5> QED BY <5>1, <5>2, ConcatElems
      <4> QED BY <4>2, <4>3, Zenon
    <3>8. \A x \in Elems(GlowItems(n)) : \E i \in 1 + 1 .. n + 1 : pool[i] = x
      <4> SUFFICES ASSUME NEW x \in Elems(GlowItems(n))
                   PROVE  \E i \in 1 + 1 .. n + 1 : pool[i] = x
        OBVIOUS
      <4>1. PICK i \in 1 .. Len(c) : i <= n /\ c[i] = x BY <2>10, <2>12
      <4>2. i \in 1 .. Len(pool) - 1 /\ 1 + i \in 1 + 1 .. n + 1 BY <1>0, <2>11, <2>18, <4>1
      <4>3. pool[1 + i] = x BY <2>2, <2>8, <4>1, <4>2
      <4> QED BY <4>2, <4>3
    <3>9. Elems(PoolAfterGlow(n)) \cap Elems(GlowItems(n)) = {}
      <4>1. \A i \in 1 + 1 .. n + 1 : i \in 1 .. Len(pool) /\ i \in 1 + 1 .. Len(pool)
        BY <1>0, <2>18
      <4>2. \A i \in 1 + 1 .. n + 1, k \in n + 1 + 1 .. Len(pool) : i # k BY <1>0
      <4>3. \A x \in Elems(GlowItems(n)) : x \in Elems(t) BY <2>2, <3>8, <4>1
      <4>4. ASSUME NEW x \in Elems(GlowItems(n)) PROVE x \notin Elems(u)
        <5>1. PICK i \in 1 + 1 .. n + 1 : pool[i] = x BY <3>8
        <5>2. \A k \in n + 1 + 1 .. Len(pool) : pool[k] # x BY <2>4, <3>4, <4>1, <4>2, <5>1
        <5> QED BY <3>3, <5>2
      <4> QED BY <2>5, <3>7, <4>3, <4>4
    <3>10. Len(PoolAfterGlow(n)) + Cardinality(Garbage) >= Len(pool) + Cardinality(Garbage) - n
      <4>1. 1 + (Len(pool) - (n + 1)) = Len(pool) - n BY <1>0
      <4>2. Len(PoolAfterGlow(n)) = Len(pool) - n BY <3>3, <3>7, <4>1
      <4> QED BY <1>0, <4>2
    <3>11. Elems(PoolAfterGlow(n)) \subseteq Elems(pool) BY <2>14, <3>5, <3>7
    <3> QED BY <2>10, <2>12, <2>13, <2>15, <2>16, <3>7, <3>9, <3>10, <3>11
  <2> QED BY <1>0, <1>2, <2>17, <2>18
<1> QED BY <1>0, <1>1, <1>2

-------------------------------------------------------------------------------
(***************************************************************************)
(* What Step does to the ring: rotate it, exchange a node, grow it and     *)
(* shrink it.                                                              *)
(***************************************************************************)
LEMMA ThreePieces ==
    ASSUME NEW S, NEW p \in Seq(S), NEW q \in Seq(S), NEW t \in Seq(S)
    PROVE  /\ p \o q \o t \in Seq(S) /\ Len(p \o q \o t) = Len(p) + Len(q) + Len(t)
           /\ Elems(p \o q \o t) = (Elems(p) \cup Elems(q)) \cup Elems(t)
           /\ Len(p) > 0 => (p \o q \o t)[1] = p[1]
           /\ Len(t) > 0 => (p \o q \o t)[Len(p) + Len(q) + Len(t)] = t[Len(t)]
<1>0. Len(p) \in Nat /\ Len(q) \in Nat /\ Len(t) \in Nat BY ElemsOf
<1>1. /\ p \o q \in Seq(S) /\ Len(p \o q) = Len(p) + Len(q)
      /\ Elems(p \o q) = Elems(p) \cup Elems(q)
      /\ IsInjective(p) /\ IsInjective(q) /\ Elems(p) \cap Elems(q) = {}
                 => IsInjective(p \o q)
      /\ Len(p) > 0 => (p \o q)[1] = p[1]
  BY ConcatElems
<1>9. PICK a \in Seq(S) : a = p \o q BY <1>1
<1>2. /\ a \o t \in Seq(S) /\ Len(a \o t) = Len(a) + Len(t)
      /\ Elems(a \o t) = Elems(a) \cup Elems(t)
      /\ IsInjective(a) /\ IsInjective(t) /\ Elems(a) \cap Elems(t) = {}
                 => IsInjective(a \o t)
      /\ Len(a) > 0 => (a \o t)[1] = a[1]
      /\ Len(t) > 0 => (a \o t)[Len(a) + Len(t)] = t[Len(t)]
  BY ConcatElems
<1>3. Len(p) > 0 => Len(a) > 0 BY <1>0, <1>1, <1>9
<1>4. Len(p \o q \o t) = Len(p) + Len(q) + Len(t) BY <1>1, <1>2, <1>9, Zenon
<1>5. Elems(p \o q \o t) = (Elems(p) \cup Elems(q)) \cup Elems(t) BY <1>1, <1>2, <1>9, Zenon
<1>6. Len(p) > 0 => (p \o q \o t)[1] = p[1] BY <1>1, <1>2, <1>3, <1>9, Zenon
<1>7. Len(t) > 0 => (p \o q \o t)[Len(p) + Len(q) + Len(t)] = t[Len(t)] BY <1>1, <1>2, <1>9, Zenon
<1>10. p \o q \o t \in Seq(S) BY <1>2, <1>9, Zenon
<1> QED BY <1>10, <1>4, <1>5, <1>6, <1>7

LEMMA ThreeApart ==
    ASSUME NEW S, NEW p \in Seq(S), NEW q \in Seq(S), NEW t \in Seq(S),
           IsInjective(p), IsInjective(q), IsInjective(t), Elems(p) \cap Elems(q) = {},
           Elems(p) \cap Elems(t) = {}, Elems(q) \cap Elems(t) = {}
    PROVE  IsInjective(p \o q \o t)
<1>1. p \o q \in Seq(S) /\ Elems(p \o q) = Elems(p) \cup Elems(q) /\ IsInjective(p \o q)
  BY ConcatElems
<1>2. PICK a \in Seq(S) : a = p \o q BY <1>1
<1>3. Elems(a) = Elems(p) \cup Elems(q) /\ IsInjective(a) BY <1>1, <1>2, Zenon
<1>4. Elems(a) \cap Elems(t) = {} BY <1>3
<1>5. IsInjective(a \o t)
  <2>1. IsInjective(a) BY <1>3
  <2> QED BY <1>4, <2>1, ConcatElems
<1> QED BY <1>2, <1>5, Zenon

(* The first element, the second and the rest. *)
LEMMA FirstAndRest ==
    ASSUME NEW S, NEW q \in Seq(S), Len(q) > 1
    PROVE  /\ q[1] \in S /\ q[2] \in S /\ q[1] \in Elems(q) /\ q[2] \in Elems(q)
           /\ q[Len(q)] \in Elems(q)
           /\ Tail(q) \in Seq(S) /\ Len(Tail(q)) = Len(q) - 1 /\ Tail(q)[1] = q[2]
           /\ Tail(q)[Len(q) - 1] = q[Len(q)]
           /\ Elems(q) = {q[1]} \cup Elems(Tail(q))
           /\ IsInjective(q) => /\ IsInjective(Tail(q)) /\ q[1] \notin Elems(Tail(q))
                                /\ q[1] # q[2] /\ q[1] # q[Len(q)]
                                /\ Len(q) > 2 => q[2] # q[Len(q)]
<1>0. /\ Len(q) \in Nat
      /\ \A x : x \in Elems(q) <=> \E i \in 1 .. Len(q) : q[i] = x
      /\ \A i \in 1 .. Len(q) : q[i] \in S
      /\ IsInjective(q) <=> \A i, j \in 1 .. Len(q) : q[i] = q[j] => i = j
  BY ElemsOf
<1>1. 1 \in 1 .. Len(q) /\ 2 \in 1 .. Len(q) /\ Len(q) \in 1 .. Len(q) /\ Len(q) # 1
      /\ Len(q) > 0
  BY <1>0
<1>2. Tail(q) = Suffix(q, 1) BY <1>1, TailFacts
<1>3. PICK k \in Nat : k = 1 /\ k <= Len(q) BY <1>1
<1>4. /\ Suffix(q, k) \in Seq(S) /\ Len(Suffix(q, k)) = Len(q) - k
      /\ \A i \in 1 .. Len(q) - k : Suffix(q, k)[i] = q[k + i]
      /\ \A x : x \in Elems(Suffix(q, k)) <=> \E i \in k + 1 .. Len(q) : q[i] = x
      /\ IsInjective(q) => IsInjective(Suffix(q, k))
      /\ k < Len(q) => Suffix(q, k)[Len(q) - k] = q[Len(q)]
  <2>1. k <= Len(q) BY <1>3
  <2> QED BY <2>1, SuffixFacts
<1> PICK t : t = Tail(q) OBVIOUS
<1>5. /\ t \in Seq(S) /\ Len(t) = Len(q) - 1
      /\ \A i \in 1 .. Len(q) - 1 : t[i] = q[1 + i]
      /\ \A x : x \in Elems(t) <=> \E i \in 1 + 1 .. Len(q) : q[i] = x
      /\ IsInjective(q) => IsInjective(t)
      /\ 1 < Len(q) => t[Len(q) - 1] = q[Len(q)]
  BY <1>2, <1>3, <1>4, Zenon
<1>6. \A i \in 1 + 1 .. Len(q) : i \in 1 .. Len(q) /\ i # 1 BY <1>0
<1>7. \A i \in 1 .. Len(q) : i = 1 \/ i \in 1 + 1 .. Len(q) BY <1>0
<1>8. \A x : x \in Elems(q) <=> x = q[1] \/ x \in Elems(t)
  BY <1>0, <1>1, <1>5, <1>6, <1>7
<1>9. Elems(q) = {q[1]} \cup Elems(t) BY <1>8
<1>10. t[1] = q[2]
  <2>1. 1 \in 1 .. Len(q) - 1 /\ 1 + 1 = 2 BY <1>0
  <2> QED BY <1>5, <2>1
<1>11. t[Len(q) - 1] = q[Len(q)] BY <1>0, <1>5
<1>12. ASSUME IsInjective(q)
       PROVE  /\ IsInjective(t) /\ q[1] \notin Elems(t) /\ q[1] # q[2] /\ q[1] # q[Len(q)]
              /\ Len(q) > 2 => q[2] # q[Len(q)]
  <2>1. \A i, j \in 1 .. Len(q) : q[i] = q[j] => i = j BY <1>0, <1>12
  <2>2. q[1] \notin Elems(t) BY <1>1, <1>5, <1>6, <2>1
  <2> QED BY <1>0, <1>1, <1>5, <1>12, <2>1, <2>2
<1> QED BY <1>0, <1>1, <1>5, <1>9, <1>10, <1>11, <1>12

(* Claim: the ring turns by one node. *)
LEMMA Rotated ==
    ASSUME NEW S, NEW q \in Seq(S), Len(q) > 1
    PROVE  LET t == Append(Tail(q), q[1])
           IN  /\ t \in Seq(S) /\ Len(t) = Len(q) /\ Elems(t) = Elems(q)
               /\ t[1] = q[2] /\ t[Len(q)] = q[1]
               /\ IsInjective(q) => IsInjective(t)
<1> DEFINE t == Append(Tail(q), q[1])
<1>0. Len(q) \in Nat BY ElemsOf
<1>1. /\ q[1] \in S /\ Tail(q) \in Seq(S) /\ Len(Tail(q)) = Len(q) - 1 /\ Tail(q)[1] = q[2]
      /\ Elems(q) = {q[1]} \cup Elems(Tail(q))
      /\ IsInjective(q) => IsInjective(Tail(q)) /\ q[1] \notin Elems(Tail(q))
  BY FirstAndRest
<1> PICK a \in Seq(S) : a = Tail(q) BY <1>1
<1>2. PICK b \in Seq(S) : /\ b = <<q[1]>> /\ Len(b) = 1 /\ b[1] = q[1] /\ Elems(b) = {q[1]}
                          /\ IsInjective(b)
  BY <1>1, SingleIs
<1>3. t = a \o b BY <1>1, <1>2, AppendConcat, Zenon
<1>4. /\ a \o b \in Seq(S) /\ Len(a \o b) = Len(a) + Len(b)
      /\ Elems(a \o b) = Elems(a) \cup Elems(b)
      /\ (IsInjective(a) /\ IsInjective(b) /\ Elems(a) \cap Elems(b) = {}) => IsInjective(a \o b)
      /\ Len(a) > 0 => (a \o b)[1] = a[1]
      /\ Len(b) > 0 => (a \o b)[Len(a) + Len(b)] = b[Len(b)]
  <2>1. a \in Seq(S) /\ b \in Seq(S) BY <1>2
  <2> QED BY ONLY <2>1, ConcatElems, SMT
<1> HIDE DEF t
<1>5. Len(t) = Len(q) /\ Len(a) > 0 /\ Len(b) > 0 /\ Len(a) + Len(b) = Len(q)
  <2>1. Len(a) = Len(q) - 1 /\ Len(b) = 1 /\ Len(t) = Len(a) + Len(b)
    BY <1>1, <1>2, <1>3, <1>4, Zenon
  <2>2. Len(a) > 0 /\ Len(b) > 0 /\ Len(a) + Len(b) = Len(q) BY <1>0, <2>1
  <2> QED BY <2>1, <2>2, Zenon
<1>6. t[1] = q[2] /\ t[Len(q)] = q[1] BY <1>1, <1>2, <1>3, <1>4, <1>5, Zenon
<1>7. Elems(t) = Elems(q)
  <2>1. Elems(t) = Elems(a) \cup Elems(b) BY <1>3, <1>4, Zenon
  <2> QED BY <1>1, <1>2, <2>1
<1>8. ASSUME IsInjective(q) PROVE IsInjective(t)
  <2>1. IsInjective(a) /\ q[1] \notin Elems(a) BY <1>1, <1>8, Zenon
  <2>2. Elems(a) \cap Elems(b) = {} BY <1>2, <2>1
  <2> QED BY <1>2, <1>3, <1>4, <2>1, <2>2, Zenon
<1>9. t \in Seq(S) BY <1>3, <1>4, Zenon
<1> QED BY <1>5, <1>6, <1>7, <1>8, <1>9 DEF t

(* Refill: a new node takes the place of the one after Value and becomes Value. *)
Exchange(q, x) == <<x>> \o Suffix(q, 2) \o <<q[1]>>

LEMMA Exchanged ==
    ASSUME NEW S, NEW q \in Seq(S), Len(q) > 2, IsInjective(q), NEW x \in S, x \notin Elems(q)
    PROVE  /\ Exchange(q, x) \in Seq(S) /\ Len(Exchange(q, x)) = Len(q)
           /\ IsInjective(Exchange(q, x))
           /\ Elems(Exchange(q, x)) \subseteq (Elems(q) \cup {x})
           /\ Exchange(q, x)[1] = x /\ Exchange(q, x)[Len(q)] = q[1]
<1> PICK t : t = Exchange(q, x) OBVIOUS
<1>0. Len(q) \in Nat /\ Len(q) > 1 BY ElemsOf
<1>1. q[1] \in S /\ q[1] \in Elems(q) BY <1>0, FirstAndRest
<1>2. PICK k \in Nat : k = 2 BY <1>0
<1>3. /\ Suffix(q, k) \in Seq(S) /\ Len(Suffix(q, k)) = Len(q) - k
      /\ \A y : y \in Elems(Suffix(q, k)) <=> \E i \in k + 1 .. Len(q) : q[i] = y
      /\ IsInjective(Suffix(q, k))
  <2>1. k <= Len(q) BY <1>0, <1>2
  <2> QED BY <2>1, SuffixFacts
<1>4. PICK a \in Seq(S) : a = Suffix(q, 2) BY <1>2, <1>3, Zenon
<1>5. /\ Len(a) = Len(q) - 2 /\ IsInjective(a)
      /\ \A y : y \in Elems(a) <=> \E i \in 2 + 1 .. Len(q) : q[i] = y
  BY <1>2, <1>3, <1>4, Zenon
<1>6. PICK b \in Seq(S) : /\ b = <<x>> /\ Len(b) = 1 /\ b[1] = x /\ Elems(b) = {x}
                          /\ IsInjective(b)
  BY SingleIs
<1>7. PICK c \in Seq(S) : /\ c = <<q[1]>> /\ Len(c) = 1 /\ c[1] = q[1] /\ Elems(c) = {q[1]}
                          /\ IsInjective(c)
  BY <1>1, SingleIs
<1>8. t = b \o a \o c BY <1>4, <1>6, <1>7, Zenon DEF Exchange
<1>9. Elems(a) \subseteq Elems(q) /\ q[1] \notin Elems(a)
  <2>1. \A i \in 2 + 1 .. Len(q) : i \in 1 .. Len(q) /\ i # 1 BY <1>0
  <2>2. 1 \in 1 .. Len(q) BY <1>0
  <2>3. \A i, j \in 1 .. Len(q) : q[i] = q[j] => i = j BY ElemsOf
  <2>4. \A y : y \in Elems(q) <=> \E i \in 1 .. Len(q) : q[i] = y BY ElemsOf
  <2>5. q[1] \notin Elems(a) BY <1>5, <2>1, <2>2, <2>3
  <2> QED BY <1>5, <2>1, <2>4, <2>5
<1>10. Elems(b) \cap Elems(a) = {} /\ Elems(b) \cap Elems(c) = {} /\ Elems(a) \cap Elems(c) = {}
  BY <1>1, <1>6, <1>7, <1>9
<1>11. /\ b \o a \o c \in Seq(S) /\ Len(b \o a \o c) = Len(b) + Len(a) + Len(c)
       /\ Elems(b \o a \o c) = (Elems(b) \cup Elems(a)) \cup Elems(c)
       /\ IsInjective(b \o a \o c)
       /\ Len(b) > 0 => (b \o a \o c)[1] = b[1]
       /\ Len(c) > 0 => (b \o a \o c)[Len(b) + Len(a) + Len(c)] = c[Len(c)]
  <2>1. IsInjective(a) /\ IsInjective(b) /\ IsInjective(c) BY <1>5, <1>6, <1>7
  <2>2. /\ b \o a \o c \in Seq(S) /\ Len(b \o a \o c) = Len(b) + Len(a) + Len(c)
        /\ Elems(b \o a \o c) = (Elems(b) \cup Elems(a)) \cup Elems(c)
        /\ Len(b) > 0 => (b \o a \o c)[1] = b[1]
        /\ Len(c) > 0 => (b \o a \o c)[Len(b) + Len(a) + Len(c)] = c[Len(c)]
    BY ThreePieces
  <2>3. IsInjective(b \o a \o c) BY <1>10, <2>1, ThreeApart, Zenon
  <2> QED BY <2>2, <2>3, Zenon
<1>12. Len(b) > 0 /\ Len(c) > 0 /\ Len(b) + Len(a) + Len(c) = Len(q)
  BY <1>0, <1>5, <1>6, <1>7
<1>13. /\ t \in Seq(S) /\ Len(t) = Len(q) /\ IsInjective(t) /\ t[1] = x /\ t[Len(q)] = q[1]
       /\ Elems(t) = (Elems(b) \cup Elems(a)) \cup Elems(c)
  BY <1>6, <1>7, <1>8, <1>11, <1>12, Zenon
<1>14. Elems(t) \subseteq (Elems(q) \cup {x}) BY <1>1, <1>6, <1>7, <1>9, <1>13
<1> QED BY <1>13, <1>14

(* glow: the new nodes go in behind Value. *)
LEMMA Grown ==
    ASSUME NEW S, NEW q \in Seq(S), Len(q) > 1, IsInjective(q),
           NEW a \in Seq(S), IsInjective(a), Elems(a) \cap Elems(q) = {}
    PROVE  LET t == <<q[1]>> \o a \o Tail(q)
           IN  /\ t \in Seq(S) /\ Len(t) = Len(q) + Len(a) /\ IsInjective(t)
               /\ Elems(t) = Elems(q) \cup Elems(a)
               /\ t[1] = q[1] /\ t[Len(t)] = q[Len(q)]
<1> DEFINE t == <<q[1]>> \o a \o Tail(q)
<1>0. Len(q) \in Nat /\ Len(a) \in Nat BY ElemsOf
<1>1. /\ q[1] \in S /\ q[1] \in Elems(q)
      /\ Tail(q) \in Seq(S) /\ Len(Tail(q)) = Len(q) - 1
      /\ Tail(q)[Len(q) - 1] = q[Len(q)]
      /\ Elems(q) = {q[1]} \cup Elems(Tail(q))
      /\ IsInjective(Tail(q)) /\ q[1] \notin Elems(Tail(q))
  BY FirstAndRest
<1>2. PICK c \in Seq(S) : c = Tail(q) BY <1>1
<1>3. PICK b \in Seq(S) : /\ b = <<q[1]>> /\ Len(b) = 1 /\ b[1] = q[1] /\ Elems(b) = {q[1]}
                          /\ IsInjective(b)
  BY <1>1, SingleIs
<1>4. /\ Len(c) = Len(q) - 1 /\ c[Len(q) - 1] = q[Len(q)] /\ IsInjective(c)
      /\ Elems(q) = {q[1]} \cup Elems(c) /\ q[1] \notin Elems(c)
  BY <1>1, <1>2, Zenon
<1>5. Elems(b) \cap Elems(a) = {} /\ Elems(b) \cap Elems(c) = {} /\ Elems(a) \cap Elems(c) = {}
  BY <1>3, <1>4
<1>6. t = b \o a \o c BY <1>2, <1>3, Zenon
<1>7. /\ b \o a \o c \in Seq(S) /\ Len(b \o a \o c) = Len(b) + Len(a) + Len(c)
      /\ Elems(b \o a \o c) = (Elems(b) \cup Elems(a)) \cup Elems(c)
      /\ IsInjective(b \o a \o c)
      /\ Len(b) > 0 => (b \o a \o c)[1] = b[1]
      /\ Len(c) > 0 => (b \o a \o c)[Len(b) + Len(a) + Len(c)] = c[Len(c)]
  <2>1. IsInjective(b) /\ IsInjective(c) BY <1>3, <1>4
  <2> HIDE DEF t
  <2>2. /\ b \o a \o c \in Seq(S) /\ Len(b \o a \o c) = Len(b) + Len(a) + Len(c)
        /\ Elems(b \o a \o c) = (Elems(b) \cup Elems(a)) \cup Elems(c)
        /\ Len(b) > 0 => (b \o a \o c)[1] = b[1]
        /\ Len(c) > 0 => (b \o a \o c)[Len(b) + Len(a) + Len(c)] = c[Len(c)]
    BY ThreePieces
  <2>3. IsInjective(b \o a \o c) BY <1>5, <2>1, ThreeApart, Zenon
  <2> QED BY <2>2, <2>3, Zenon
<1> HIDE DEF t
<1>8. Len(b) > 0 /\ Len(c) > 0 /\ Len(b) + Len(a) + Len(c) = Len(q) + Len(a)
  BY <1>0, <1>3, <1>4
<1>9. /\ t \in Seq(S) /\ Len(t) = Len(q) + Len(a) /\ IsInjective(t)
      /\ Elems(t) = (Elems(b) \cup Elems(a)) \cup Elems(c)
      /\ t[1] = q[1] /\ t[Len(t)] = q[Len(q)]
  BY <1>3, <1>4, <1>6, <1>7, <1>8, Zenon
<1>10. Elems(t) = Elems(q) \cup Elems(a) BY <1>3, <1>4, <1>9
<1> QED BY <1>9, <1>10 DEF t

(* reduce: the n nodes behind Value leave the ring. *)
Kept(q, n) == <<q[1]>> \o Suffix(q, n + 1)
Cut(q, n)  == SubSeq(q, 2, n + 1)

LEMMA Shrunk ==
    ASSUME NEW S, NEW q \in Seq(S), NEW n \in Nat \ {0}, n + 1 < Len(q), IsInjective(q)
    PROVE  /\ Kept(q, n) \in Seq(S) /\ Len(Kept(q, n)) = Len(q) - n /\ IsInjective(Kept(q, n))
           /\ Kept(q, n)[1] = q[1] /\ Kept(q, n)[Len(Kept(q, n))] = q[Len(q)]
           /\ Cut(q, n) \in Seq(S) /\ Len(Cut(q, n)) = n /\ IsInjective(Cut(q, n))
           /\ Elems(Cut(q, n)) \subseteq Elems(q) /\ Elems(Kept(q, n)) \subseteq Elems(q)
           /\ Elems(Kept(q, n)) \cap Elems(Cut(q, n)) = {}
<1> DEFINE t == Kept(q, n) out == Cut(q, n)
<1>0. /\ Len(q) \in Nat /\ Len(q) > 1
      /\ \A y : y \in Elems(q) <=> \E i \in 1 .. Len(q) : q[i] = y
      /\ \A i, j \in 1 .. Len(q) : q[i] = q[j] => i = j
  BY ElemsOf
<1>1. q[1] \in S /\ q[1] \in Elems(q) BY <1>0, FirstAndRest
<1>2. PICK k \in Nat : k = n + 1 OBVIOUS
<1>3. k <= Len(q) /\ k < Len(q) /\ 2 <= k + 1 BY <1>0, <1>2
<1>4. /\ Suffix(q, k) \in Seq(S) /\ Len(Suffix(q, k)) = Len(q) - k
      /\ \A x : x \in Elems(Suffix(q, k)) <=> \E i \in k + 1 .. Len(q) : q[i] = x
      /\ IsInjective(Suffix(q, k)) /\ Suffix(q, k)[Len(q) - k] = q[Len(q)]
  BY <1>3, SuffixFacts
<1>5. /\ SubSeq(q, 2, k) \in Seq(S) /\ Len(SubSeq(q, 2, k)) = k - 2 + 1
      /\ \A x : x \in Elems(SubSeq(q, 2, k)) <=> \E i \in 2 .. k : q[i] = x
      /\ IsInjective(SubSeq(q, 2, k))
  <2>1. 2 \in Nat \ {0} OBVIOUS
  <2> QED BY <1>3, <2>1, Piece
<1>6. PICK c \in Seq(S) : c = Suffix(q, k) BY <1>4
<1>7. PICK b \in Seq(S) : /\ b = <<q[1]>> /\ Len(b) = 1 /\ b[1] = q[1] /\ Elems(b) = {q[1]}
                          /\ IsInjective(b)
  BY <1>1, SingleIs
<1>8. t = b \o c /\ out = SubSeq(q, 2, k) BY <1>2, <1>6, <1>7, Zenon DEF Kept, Cut
<1> HIDE DEF t, out
<1>9. \A i \in k + 1 .. Len(q) : i \in 1 .. Len(q) /\ i # 1 BY <1>0, <1>3
<1>10. \A i \in 2 .. k : i \in 1 .. Len(q) /\ i # 1 /\ i \notin k + 1 .. Len(q) BY <1>0, <1>3
<1>11. 1 \in 1 .. Len(q) BY <1>0
<1>12. Elems(c) \subseteq Elems(q) /\ q[1] \notin Elems(c)
  BY <1>0, <1>4, <1>6, <1>9, <1>11
<1>13. \A y \in Elems(out) : y \in Elems(q) /\ y # q[1] /\ y \notin Elems(c)
  <2> SUFFICES ASSUME NEW y \in Elems(out) PROVE y \in Elems(q) /\ y # q[1] /\ y \notin Elems(c)
    OBVIOUS
  <2>1. PICK i \in 2 .. k : q[i] = y BY <1>5, <1>8
  <2>2. y \in Elems(q) /\ y # q[1] BY <1>0, <1>10, <1>11, <2>1
  <2>3. \A j \in k + 1 .. Len(q) : q[j] # y BY <1>0, <1>9, <1>10, <2>1
  <2> QED BY <1>4, <1>6, <2>2, <2>3
<1>14. Elems(b) \cap Elems(c) = {} BY <1>7, <1>12
<1>15. /\ b \o c \in Seq(S) /\ Len(b \o c) = Len(b) + Len(c)
       /\ Elems(b \o c) = Elems(b) \cup Elems(c) /\ IsInjective(b \o c)
       /\ Len(b) > 0 => (b \o c)[1] = b[1]
       /\ Len(c) > 0 => (b \o c)[Len(b) + Len(c)] = c[Len(c)]
  <2>1. IsInjective(b) /\ IsInjective(c) BY <1>4, <1>6, <1>7
  <2> QED BY <1>14, <2>1, ConcatElems
<1>16. Len(c) = Len(q) - k /\ c[Len(q) - k] = q[Len(q)] BY <1>4, <1>6, Zenon
<1>17. Len(b) > 0 /\ Len(c) > 0 /\ Len(b) + Len(c) = Len(q) - n /\ k - 2 + 1 = n
  BY <1>0, <1>2, <1>3, <1>7, <1>16
<1>18. /\ t \in Seq(S) /\ Len(t) = Len(q) - n /\ IsInjective(t) /\ t[1] = q[1]
       /\ t[Len(t)] = q[Len(q)] /\ Elems(t) = Elems(b) \cup Elems(c)
  BY <1>7, <1>8, <1>15, <1>16, <1>17, Zenon
<1>19. out \in Seq(S) /\ Len(out) = n /\ IsInjective(out) BY <1>5, <1>8, <1>17, Zenon
<1>20. Elems(t) \subseteq Elems(q) BY <1>1, <1>7, <1>12, <1>18
<1>21. Elems(t) \cap Elems(out) = {} BY <1>7, <1>13, <1>18
<1>22. Elems(out) \subseteq Elems(q) BY <1>13
<1> QED BY <1>18, <1>19, <1>20, <1>21, <1>22, Zenon DEF t, out

-------------------------------------------------------------------------------
(***************************************************************************)
(* The operators that the actions are built from.                          *)
(***************************************************************************)
LEMMA FrameOps ==
    /\ NewNode \in Frame
    /\ \A f \in Frame : /\ Reset(f) \in Frame
                        /\ Reset(f).seq = f.seq /\ Reset(f).ready = f.ready
<1>1. NewNode \in Frame BY BoundsGiven DEF NewNode, Frame
<1>2. ASSUME NEW f \in Frame
      PROVE  Reset(f) \in Frame /\ Reset(f).seq = f.seq /\ Reset(f).ready = f.ready
  BY DEF Reset, Frame
<1> QED BY <1>1, <1>2

LEMMA RingFacts ==
    ASSUME TypeOK, RingShape
    PROVE  /\ Len(ring) \in Nat /\ Len(ring) > 2 /\ Len(ring) > 1
           /\ ring[1] \in Slots /\ ring[2] \in Slots /\ ring[Len(ring)] \in Slots
           /\ ring[1] \in Elems(ring) /\ ring[2] \in Elems(ring) /\ ring[Len(ring)] \in Elems(ring)
           /\ ring[1] # ring[2] /\ ring[1] # ring[Len(ring)] /\ ring[2] # ring[Len(ring)]
<1>1. ring \in Seq(Slots) /\ IsInjective(ring) /\ Len(ring) >= MinSize BY DEF TypeOK, RingShape
<1>2. Len(ring) \in Nat BY <1>1, ElemsOf
<1>3. Len(ring) > 2 /\ Len(ring) > 1 BY <1>1, <1>2, MinSizeOK
<1>4. Elems(ring) \subseteq Slots BY <1>1, ElemsOf
<1>5. /\ ring[1] \in Slots /\ ring[2] \in Slots
      /\ ring[1] \in Elems(ring) /\ ring[2] \in Elems(ring) /\ ring[Len(ring)] \in Elems(ring)
      /\ ring[1] # ring[2] /\ ring[1] # ring[Len(ring)] /\ ring[2] # ring[Len(ring)]
  BY <1>1, <1>3, FirstAndRest
<1> QED BY <1>2, <1>3, <1>4, <1>5

(* PushIDR and DropStale keep a list of nodes that were in it, or Value. *)
LEMMA ListFacts ==
    ASSUME TypeOK, RingShape
    PROVE  /\ DropStale(PushIDR) \in Seq(Slots)
           /\ Elems(DropStale(PushIDR)) \subseteq (Elems(idrs) \cup {Value})
<1>1. Value \in Slots BY RingFacts DEF Value
<1>2. idrs \in Seq(Slots) BY DEF TypeOK
<1>3. PushIDR \in Seq(Slots) /\ Elems(PushIDR) \subseteq (Elems(idrs) \cup {Value})
  <2>1. CASE frame[Value].idr
    <3>1. PICK b \in Seq(Slots) : b = <<Value>> /\ Elems(b) = {Value} BY <1>1, SingleIs
    <3>2. PushIDR = idrs \o b BY <1>1, <1>2, <2>1, <3>1, AppendConcat DEF PushIDR
    <3>3. idrs \o b \in Seq(Slots) /\ Elems(idrs \o b) = Elems(idrs) \cup Elems(b)
      BY <1>2, ConcatElems
    <3> QED BY <3>1, <3>2, <3>3
  <2>2. CASE ~frame[Value].idr
    <3>1. PushIDR = idrs BY <2>2 DEF PushIDR
    <3> QED BY <1>2, <3>1
  <2> QED BY <2>1, <2>2
<1>4. PICK list \in Seq(Slots) : list = PushIDR BY <1>3
<1>5. DropStale(list) \in Seq(Slots) /\ Elems(DropStale(list)) \subseteq Elems(list)
  <2>1. CASE list = <<>>
    <3>1. DropStale(list) = list BY <2>1 DEF DropStale
    <3> QED BY <3>1
  <2>2. CASE list # <<>>
    <3> DEFINE K == {k \in 0 .. Len(list) - 1 :
                        \A j \in 1 .. k : DurationFrom(list[j + 1]) > BufferTime}
    <3>1. Len(list) \in Nat /\ Len(list) # 0 BY <2>2, ElemsOf, EmptySeq
    <3>2. PICK n \in Nat : n = Len(list) - 1 BY <3>1
    <3>3. 0 \in K BY <3>1
    <3>4. K \subseteq 0 .. n BY <3>2
    <3>5. DropStale(list) = Suffix(list, Max(K)) BY <2>2 DEF DropStale
    <3> HIDE DEF K
    <3>6. Max(K) \in K BY <3>3, <3>4, MaxIn
    <3>7. PICK m : m = Max(K) OBVIOUS
    <3>13. m \in 0 .. n BY <3>4, <3>6, <3>7, Zenon
    <3>8. m \in Nat /\ m <= Len(list) BY <3>1, <3>2, <3>13
    <3>9. /\ Suffix(list, m) \in Seq(Slots)
          /\ \A x : x \in Elems(Suffix(list, m)) <=> \E i \in m + 1 .. Len(list) : list[i] = x
      BY <3>8, SuffixFacts
    <3>10. \A i \in m + 1 .. Len(list) : i \in 1 .. Len(list) BY <3>1, <3>8
    <3>11. \A x : x \in Elems(list) <=> \E i \in 1 .. Len(list) : list[i] = x BY ElemsOf
    <3>12. Elems(Suffix(list, m)) \subseteq Elems(list) BY <3>9, <3>10, <3>11
    <3> QED BY <3>5, <3>7, <3>9, <3>12
  <2> QED BY <2>1, <2>2
<1> QED BY <1>3, <1>4, <1>5

(***************************************************************************)
(* What glow, reduce and neither of them leave behind: two cycles with     *)
(* Value and its predecessor in their places, the stamps of every node in  *)
(* use, and a node for Refill.                                             *)
(***************************************************************************)
Stamp(f, g) == f.seq = g.seq /\ f.ready = g.ready

Resized ==
    /\ ring' \in Seq(Slots) /\ pool' \in Seq(Slots) /\ RingShape'
    /\ ring'[1] = ring[1] /\ ring'[Len(ring')] = ring[Len(ring)]
    /\ frame' \in [Slots -> Frame] /\ discard' \in [Slots -> BOOLEAN]
    /\ \A s \in Slots \ Garbage : Stamp(frame'[s], frame[s])
    /\ \E G \in SUBSET Garbage :
          /\ Len(pool') + Cardinality(G) > 0
          /\ G \cap Elems(ring') = {} /\ G \cap Elems(pool') = {}

(* RingShape speaks of the two cycles only. *)
LEMMA SameShape ==
    ASSUME RingShape, ring' = ring, pool' = pool
    PROVE  RingShape'
<1>1. /\ IsInjective(ring) /\ IsInjective(pool) /\ Len(ring) >= MinSize
      /\ Elems(ring) \cap Elems(pool) = {}
  BY Zenon DEF RingShape
<1>2. Elems(ring)' = Elems(ring) /\ Elems(pool)' = Elems(pool) BY Zenon DEF Elems
<1>3. IsInjective(ring)' = IsInjective(ring) /\ IsInjective(pool)' = IsInjective(pool)
  BY Zenon DEF IsInjective
<1>4. Len(ring)' = Len(ring) BY Zenon
<1> QED BY <1>1, <1>2, <1>3, <1>4, Zenon DEF RingShape

LEMMA KeepResizes ==
    ASSUME TypeOK, RingShape, Len(pool) + Cardinality(Garbage) > Chunk, Keep
    PROVE  Resized
<1>1. ring' = ring /\ pool' = pool /\ frame' = frame /\ discard' = discard
  BY DEF Keep, slotVars
<1>2. RingShape' BY <1>1, SameShape
<1>3. Garbage \cap Elems(ring') = {} /\ Garbage \cap Elems(pool') = {} BY <1>1 DEF Garbage
<1>4. Len(pool') + Cardinality(Garbage) > 0
  <2>1. Len(pool) \in Nat BY ElemsOf DEF TypeOK
  <2> QED BY <1>1, <2>1, GarbageSlots, BoundsGiven
<1>5. \E G \in SUBSET Garbage : /\ Len(pool') + Cardinality(G) > 0
                                /\ G \cap Elems(ring') = {} /\ G \cap Elems(pool') = {}
  BY <1>3, <1>4
<1>6. \A s \in Slots \ Garbage : Stamp(frame'[s], frame[s]) BY <1>1 DEF Stamp
<1>7. /\ ring' \in Seq(Slots) /\ pool' \in Seq(Slots)
      /\ frame' \in [Slots -> Frame] /\ discard' \in [Slots -> BOOLEAN]
  BY <1>1 DEF TypeOK
<1> QED BY <1>1, <1>2, <1>5, <1>6, <1>7 DEF Resized

LEMMA GlowResizes ==
    ASSUME TypeOK, RingShape, Len(pool) + Cardinality(Garbage) > Chunk, glow(Chunk)
    PROVE  Resized
<1>0. /\ Len(pool) \in Nat /\ Cardinality(Garbage) \in Nat /\ Chunk \in Nat \ {0}
      /\ Chunk <= Len(pool) + Cardinality(Garbage)
  <2>1. Len(pool) \in Nat BY ElemsOf DEF TypeOK
  <2> QED BY <2>1, GarbageSlots, BoundsGiven
<1>1. PICK n \in Nat \ {0} : n = Chunk BY <1>0
<1>2. /\ GlowItems(n) \in Seq(Slots) /\ Len(GlowItems(n)) = n /\ IsInjective(GlowItems(n))
      /\ Elems(GlowItems(n)) \subseteq (Elems(pool) \cup Garbage)
      /\ PoolAfterGlow(n) \in Seq(Slots) /\ IsInjective(PoolAfterGlow(n))
      /\ Elems(PoolAfterGlow(n)) \subseteq Elems(pool)
      /\ Elems(PoolAfterGlow(n)) \cap Elems(GlowItems(n)) = {}
      /\ Len(PoolAfterGlow(n)) + Cardinality(Garbage \ Elems(GlowItems(n)))
            >= Len(pool) + Cardinality(Garbage) - n
  BY <1>0, <1>1, GlowFacts
<1>3. PICK a \in Seq(Slots) : a = GlowItems(n) BY <1>2
<1>4. /\ IsInjective(a) /\ Elems(a) \subseteq (Elems(pool) \cup Garbage) /\ Len(a) = n
      /\ pool' \in Seq(Slots) /\ IsInjective(pool')
      /\ Elems(pool') \subseteq Elems(pool) /\ Elems(pool') \cap Elems(a) = {}
      /\ Len(pool') + Cardinality(Garbage \ Elems(a)) >= Len(pool) + Cardinality(Garbage) - n
  <2>1. pool' = PoolAfterGlow(n) BY <1>1 DEF glow
  <2> QED BY <1>2, <1>3, <2>1
<1>5. /\ ring' = <<Value>> \o a \o Tail(ring)
      /\ frame' = [s \in Slots |-> IF s \in Elems(a) \ Elems(pool) THEN NewNode ELSE frame[s]]
      /\ discard' = [s \in Slots |-> discard[s] /\ s \notin (Elems(a) \ Elems(pool))]
  BY <1>1, <1>3, Zenon DEF glow
<1>6. /\ ring \in Seq(Slots) /\ IsInjective(ring) /\ Len(ring) > 1 /\ Len(ring) \in Nat
      /\ Elems(ring) \cap Elems(pool) = {} /\ Len(ring) >= MinSize
  BY RingFacts DEF TypeOK, RingShape
<1>7. Elems(a) \cap Elems(ring) = {} BY <1>4, <1>6 DEF Garbage
<1>8. /\ ring' \in Seq(Slots) /\ Len(ring') = Len(ring) + Len(a) /\ IsInjective(ring')
      /\ Elems(ring') = Elems(ring) \cup Elems(a)
      /\ ring'[1] = ring[1] /\ ring'[Len(ring')] = ring[Len(ring)]
  <2> DEFINE t == <<ring[1]>> \o a \o Tail(ring)
  <2>1. /\ t \in Seq(Slots) /\ Len(t) = Len(ring) + Len(a) /\ IsInjective(t)
        /\ Elems(t) = Elems(ring) \cup Elems(a)
        /\ t[1] = ring[1] /\ t[Len(t)] = ring[Len(ring)]
    BY <1>4, <1>6, <1>7, Grown
  <2>2. ring' = t BY <1>5 DEF Value
  <2> HIDE DEF t
  <2> QED BY <2>1, <2>2
<1>9. RingShape'
  <2>1. Elems(ring') \cap Elems(pool') = {} BY <1>4, <1>6, <1>8
  <2>2. Len(ring') >= MinSize BY <1>1, <1>4, <1>6, <1>8, MinSizeOK
  <2> QED BY <1>4, <1>8, <2>1, <2>2 DEF RingShape
<1>10. frame' \in [Slots -> Frame] BY <1>5, FrameOps DEF TypeOK
<1>11. discard' \in [Slots -> BOOLEAN] BY <1>5 DEF TypeOK
<1>12. \A s \in Slots \ Garbage : Stamp(frame'[s], frame[s])
  BY <1>4, <1>5 DEF Stamp
<1>13. \E G \in SUBSET Garbage : /\ Len(pool') + Cardinality(G) > 0
                                 /\ G \cap Elems(ring') = {} /\ G \cap Elems(pool') = {}
  <2>1. PICK G \in SUBSET Garbage : G = Garbage \ Elems(a) OBVIOUS
  <2>2. G \cap Elems(ring') = {} /\ G \cap Elems(pool') = {} BY <1>4, <1>8, <2>1 DEF Garbage
  <2>3. Len(pool') \in Nat BY <1>4, ElemsOf
  <2>4. Cardinality(G) \in Nat BY GarbageSlots, Monotone
  <2>5. Len(pool') + Cardinality(G) >= Len(pool) + Cardinality(Garbage) - n BY <1>4, <2>1
  <2>6. Len(pool') + Cardinality(G) > 0 BY <1>0, <1>1, <2>3, <2>4, <2>5
  <2> QED BY <2>2, <2>6
<1> QED BY <1>4, <1>8, <1>9, <1>10, <1>11, <1>12, <1>13 DEF Resized

(* The pool after reduce: its first node, the nodes that came free, and its other nodes. *)
LEMMA PoolRefilled ==
    ASSUME NEW S, NEW q \in Seq(S), IsInjective(q), NEW a \in Seq(S), IsInjective(a),
           Elems(a) \cap Elems(q) = {}
    PROVE  LET t == Prefix(q, 1) \o a \o Suffix(q, 1)
           IN  /\ t \in Seq(S) /\ Len(t) >= Len(q) /\ IsInjective(t)
               /\ Elems(t) \subseteq (Elems(q) \cup Elems(a))
<1> DEFINE t == Prefix(q, 1) \o a \o Suffix(q, 1)
<1>0. /\ Len(q) \in Nat /\ Len(a) \in Nat
      /\ \A x : x \in Elems(q) <=> \E i \in 1 .. Len(q) : q[i] = x
      /\ \A i, j \in 1 .. Len(q) : q[i] = q[j] => i = j
  BY ElemsOf
<1>1. PICK k \in Nat : k = 1 OBVIOUS
<1>2. /\ Prefix(q, k) \in Seq(S)
      /\ Len(Prefix(q, k)) = IF k < Len(q) THEN k ELSE Len(q)
      /\ \A x : x \in Elems(Prefix(q, k)) <=> \E i \in 1 .. Len(q) : i <= k /\ q[i] = x
      /\ IsInjective(Prefix(q, k))
  BY PrefixFacts
<1>3. PICK b \in Seq(S) : b = Prefix(q, k) BY <1>2
<1>4. /\ Suffix(q, k) \in Seq(S) /\ IsInjective(Suffix(q, k))
      /\ Len(Suffix(q, k)) = IF Len(q) = 0 THEN 0 ELSE Len(q) - k
      /\ \A x \in Elems(Suffix(q, k)) : \E i \in k + 1 .. Len(q) : q[i] = x
  <2>1. CASE Len(q) = 0
    <3>1. Suffix(q, k) = <<>>
      <4>1. k + 1 > Len(q) BY <1>1, <2>1
      <4> QED BY <4>1, SubSeqEmpty, <1>0, <1>1 DEF Suffix
    <3> QED BY <2>1, <3>1, EmptyElems
  <2>2. CASE Len(q) # 0
    <3>1. k <= Len(q) BY <1>0, <1>1, <2>2
    <3>2. /\ Suffix(q, k) \in Seq(S) /\ Len(Suffix(q, k)) = Len(q) - k
          /\ \A x : x \in Elems(Suffix(q, k)) <=> \E i \in k + 1 .. Len(q) : q[i] = x
          /\ IsInjective(Suffix(q, k))
      BY <3>1, SuffixFacts
    <3> QED BY <2>2, <3>2
  <2> QED BY <2>1, <2>2
<1>5. PICK c \in Seq(S) : c = Suffix(q, k) BY <1>4
<1>6. t = b \o a \o c BY <1>1, <1>3, <1>5, Zenon
<1> HIDE DEF t
<1>7. Elems(b) \subseteq Elems(q) BY <1>0, <1>2, <1>3
<1>8. Elems(c) \subseteq Elems(q)
  <2>1. \A i \in k + 1 .. Len(q) : i \in 1 .. Len(q) BY <1>0
  <2> QED BY <1>0, <1>4, <1>5, <2>1
<1>9. Elems(b) \cap Elems(c) = {}
  <2> SUFFICES ASSUME NEW x \in Elems(b), x \in Elems(c) PROVE FALSE OBVIOUS
  <2>1. PICK i \in 1 .. Len(q) : i <= k /\ q[i] = x BY <1>2, <1>3
  <2>2. PICK j \in k + 1 .. Len(q) : q[j] = x BY <1>4, <1>5
  <2>3. j \in 1 .. Len(q) /\ i # j BY <1>0, <2>1, <2>2
  <2> QED BY <1>0, <2>1, <2>2, <2>3
<1>10. Elems(b) \cap Elems(a) = {} /\ Elems(a) \cap Elems(c) = {} BY <1>7, <1>8
<1>11. /\ b \o a \o c \in Seq(S) /\ Len(b \o a \o c) = Len(b) + Len(a) + Len(c)
       /\ Elems(b \o a \o c) = (Elems(b) \cup Elems(a)) \cup Elems(c)
  BY ThreePieces
<1>12. IsInjective(b \o a \o c)
  <2>1. IsInjective(b) /\ IsInjective(c) BY <1>2, <1>3, <1>4, <1>5
  <2> QED BY <1>9, <1>10, <2>1, ThreeApart
<1>13. /\ t \in Seq(S) /\ Len(t) = Len(b) + Len(a) + Len(c) /\ IsInjective(t)
       /\ Elems(t) = (Elems(b) \cup Elems(a)) \cup Elems(c)
  BY <1>6, <1>11, <1>12, Zenon
<1>14. Len(t) >= Len(q)
  <2>1. Len(b) = IF k < Len(q) THEN k ELSE Len(q) BY <1>2, <1>3
  <2>2. Len(c) = IF Len(q) = 0 THEN 0 ELSE Len(q) - k BY <1>4, <1>5
  <2>3. Len(t) = Len(b) + Len(a) + Len(c) BY <1>13
  <2>4. CASE Len(q) = 0 BY <1>0, <1>1, <2>1, <2>2, <2>3, <2>4
  <2>5. CASE Len(q) # 0
    <3>0. Len(q) \in Nat /\ Len(a) \in Nat BY <1>0
    <3>3. Len(b) = IF 1 < Len(q) THEN 1 ELSE Len(q) BY <1>1, <2>1, Zenon
    <3>6. \A i \in Nat : i # 0 => 1 < i \/ i = 1 OBVIOUS
    <3>4. 1 < Len(q) \/ Len(q) = 1 BY <2>5, <3>0, <3>6, Zenon
    <3>5. ~(1 < 1) OBVIOUS
    <3>1. Len(b) = 1 BY <3>3, <3>4, <3>5, Zenon
    <3>2. Len(c) = Len(q) - 1 BY <1>1, <2>2, <2>5
    <3> QED BY <2>3, <3>0, <3>1, <3>2
  <2> QED BY <2>4, <2>5
<1>15. Elems(t) \subseteq (Elems(q) \cup Elems(a)) BY <1>7, <1>8, <1>13
<1> QED BY <1>13, <1>14, <1>15 DEF t

LEMMA ReduceResizes ==
    ASSUME TypeOK, RingShape, Len(pool) + Cardinality(Garbage) > Chunk,
           Size > MinSize + Chunk, reduce(Chunk)
    PROVE  Resized
<1>0. /\ ring \in Seq(Slots) /\ pool \in Seq(Slots) /\ IsInjective(ring) /\ IsInjective(pool)
      /\ Elems(ring) \cap Elems(pool) = {} /\ Len(ring) \in Nat /\ Len(pool) \in Nat
  BY ElemsOf DEF TypeOK, RingShape
<1>1. PICK n \in Nat \ {0} : n = Chunk BY BoundsGiven
<1>2. n + 1 < Len(ring) /\ Len(ring) - n >= MinSize BY <1>0, <1>1, MinSizeOK DEF Size
<1>3. PICK out : out = SubSeq(ring, 2, n + 1) OBVIOUS
<1>4. PICK rest : rest = <<ring[1]>> \o Suffix(ring, n + 1) OBVIOUS
<1>5. /\ rest \in Seq(Slots) /\ Len(rest) = Len(ring) - n /\ IsInjective(rest)
      /\ rest[1] = ring[1] /\ rest[Len(rest)] = ring[Len(ring)]
      /\ out \in Seq(Slots) /\ Len(out) = n /\ IsInjective(out)
      /\ Elems(out) \subseteq Elems(ring) /\ Elems(rest) \subseteq Elems(ring)
      /\ Elems(rest) \cap Elems(out) = {}
  <2>1. ring \in Seq(Slots) /\ IsInjective(ring) BY <1>0
  <2>2. n + 1 < Len(ring) /\ n \in Nat \ {0} BY <1>1, <1>2
  <2>3. rest = Kept(ring, n) /\ out = Cut(ring, n) BY <1>3, <1>4, Zenon DEF Kept, Cut
  <2>4. /\ Kept(ring, n) \in Seq(Slots) /\ Len(Kept(ring, n)) = Len(ring) - n
        /\ IsInjective(Kept(ring, n))
        /\ Kept(ring, n)[1] = ring[1] /\ Kept(ring, n)[Len(Kept(ring, n))] = ring[Len(ring)]
        /\ Cut(ring, n) \in Seq(Slots) /\ Len(Cut(ring, n)) = n /\ IsInjective(Cut(ring, n))
        /\ Elems(Cut(ring, n)) \subseteq Elems(ring) /\ Elems(Kept(ring, n)) \subseteq Elems(ring)
        /\ Elems(Kept(ring, n)) \cap Elems(Cut(ring, n)) = {}
    BY ONLY <2>1, <2>2, Shrunk, SMT
  <2> QED BY <2>3, <2>4, Zenon
<1>6. PICK I : I = {i \in 1 .. n : CanStartWrite(out[i])} OBVIOUS
<1>7. PICK busy : busy = {s \in Elems(out) : ~CanStartWrite(s)} OBVIOUS
<1>8. PICK a : a = At(out, I) OBVIOUS
<1>9. /\ ring' = rest
      /\ pool' = Prefix(pool, 1) \o a \o Suffix(pool, 1)
      /\ frame' = [s \in Slots |-> IF s \in Elems(out) THEN Reset(frame[s]) ELSE frame[s]]
      /\ discard' = [s \in Slots |-> discard[s] \/ s \in busy]
  BY <1>1, <1>3, <1>4, <1>6, <1>7, <1>8, Zenon DEF reduce, Value
<1>10. a \in Seq(Slots) /\ IsInjective(a) /\ \A x \in Elems(a) : \E i \in I : out[i] = x
  <2>1. I \subseteq 1 .. Len(out) BY <1>5, <1>6
  <2>2. out \in Seq(Slots) /\ IsInjective(out) BY <1>5
  <2>3. /\ At(out, I) \in Seq(Slots) /\ IsInjective(At(out, I))
        /\ \A x \in Elems(At(out, I)) : \E i \in I : out[i] = x
    <3>1. \A I0 : I0 \subseteq 1 .. Len(out) =>
                     /\ At(out, I0) \in Seq(Slots)
                     /\ \A x \in Elems(At(out, I0)) : \E i \in I0 : out[i] = x
                     /\ IsInjective(out) => IsInjective(At(out, I0))
      BY <2>2, AtFacts
    <3> QED BY <2>1, <2>2, <3>1
  <2> QED BY <1>8, <2>3, Zenon
<1>11. Elems(a) \subseteq Elems(out)
  <2>1. \A x : x \in Elems(out) <=> \E i \in 1 .. Len(out) : out[i] = x BY <1>5, ElemsOf
  <2>2. I \subseteq 1 .. Len(out) BY <1>5, <1>6
  <2> QED BY <1>10, <2>1, <2>2
<1>12. Elems(a) \cap Elems(pool) = {} BY <1>0, <1>5, <1>11
<1>13. /\ pool' \in Seq(Slots) /\ Len(pool') >= Len(pool) /\ IsInjective(pool')
       /\ Elems(pool') \subseteq (Elems(pool) \cup Elems(a))
  <2>1. pool \in Seq(Slots) /\ IsInjective(pool) BY <1>0
  <2>2. a \in Seq(Slots) /\ IsInjective(a) BY <1>10
  <2> QED BY <1>9, <1>12, <2>1, <2>2, PoolRefilled, Zenon
<1>14. RingShape'
  <2>1. Elems(ring') \cap Elems(pool') = {} BY <1>0, <1>5, <1>9, <1>11, <1>13
  <2>2. Len(ring') >= MinSize BY <1>2, <1>5, <1>9
  <2> QED BY <1>5, <1>9, <1>13, <2>1, <2>2 DEF RingShape
<1>15. frame' \in [Slots -> Frame] BY <1>9, FrameOps DEF TypeOK
<1>16. discard' \in [Slots -> BOOLEAN] BY <1>9 DEF TypeOK
<1>17. \A s \in Slots \ Garbage : Stamp(frame'[s], frame[s])
  BY <1>9, FrameOps DEF Stamp, TypeOK
<1>18. \E G \in SUBSET Garbage : /\ Len(pool') + Cardinality(G) > 0
                                 /\ G \cap Elems(ring') = {} /\ G \cap Elems(pool') = {}
  <2>1. Garbage \cap Elems(ring') = {} /\ Garbage \cap Elems(pool') = {}
    BY <1>5, <1>9, <1>11, <1>13 DEF Garbage
  <2>2. Len(pool') \in Nat BY <1>13, ElemsOf
  <2>3. Len(pool') + Cardinality(Garbage) > 0 BY <1>0, <1>13, <2>2, GarbageSlots, BoundsGiven
  <2> QED BY <2>1, <2>3
<1> QED BY <1>5, <1>9, <1>13, <1>14, <1>15, <1>16, <1>17, <1>18 DEF Resized

(* The parts of the invariant that concern the lists, the frames and the readers. *)
RingPart == TypeOK /\ RingShape /\ ReadersPlaced /\ NodesLeft /\ LastPlaced

(* Resize: the first part of Step. *)
LEMMA ResizeKeeps ==
    ASSUME RingInv, Resize PROVE RingPart'
<1>0. TypeOK /\ RingShape /\ ReadersPlaced /\ NodesLeft /\ LastPlaced BY DEF RingInv
<1>1. /\ writer = "step" /\ writer' = "enter" /\ idrs' = DropStale(PushIDR)
      /\ wlocked' = wlocked /\ rlocked' = rlocked /\ status' = status /\ completed' = completed
      /\ lastValue' = lastValue /\ disposer' = disposer /\ stopped' = stopped
      /\ panicked' = panicked /\ fatal' = fatal /\ reader' = reader
  BY DEF Resize, lockVars, disposerVars
<1>2. Len(pool) + Cardinality(Garbage) > Chunk BY <1>0, <1>1 DEF NodesLeft
<1>3. \/ glow(Chunk) /\ reduceVol' = reduceVol
      \/ Size > MinSize + Chunk /\ reduce(Chunk) /\ reduceVol' = 0
      \/ /\ Keep
         /\ \/ reduceVol' = reduceVol
            \/ reduceVol' = 0
            \/ reduceVol < ReduceVol /\ reduceVol' = reduceVol + 1
  <2>1. reduceVol \in Nat /\ ReduceVol \in Nat BY <1>0, BoundsGiven DEF TypeOK
  <2> QED BY <2>1 DEF Resize
<1>4. Resized BY <1>0, <1>2, <1>3, GlowResizes, ReduceResizes, KeepResizes
<1>5. reduceVol' \in 0 .. ReduceVol BY <1>0, <1>3, BoundsGiven DEF TypeOK
<1>6. idrs' \in Seq(Slots) /\ Elems(idrs') \subseteq (Elems(idrs) \cup {Value})
  BY <1>0, <1>1, ListFacts
<1>7. buffered' \in Int
  <2>1. buffered' = IF idrs' # <<>> THEN DurationFrom(idrs'[1]) ELSE buffered
    BY <1>1 DEF Resize
  <2>2. CASE idrs' = <<>> BY <1>0, <2>1, <2>2 DEF TypeOK
  <2>3. CASE idrs' # <<>>
    <3>1. idrs'[1] \in Slots
      <4>1. Len(idrs') \in Nat /\ Len(idrs') # 0 BY <1>6, <2>3, ElemsOf, EmptySeq
      <4>2. 1 \in 1 .. Len(idrs') BY <4>1
      <4> QED BY <1>6, <4>2, ElementOfSeq
    <3>2. Value \in Slots BY <1>0, RingFacts DEF Value
    <3>3. \A s \in Slots : frame[s].ts \in Nat BY <1>0 DEF TypeOK, Frame
    <3> QED BY <2>1, <2>3, <3>1, <3>2, <3>3 DEF DurationFrom
  <2> QED BY <2>2, <2>3
<1>8. TypeOK' BY <1>0, <1>1, <1>4, <1>5, <1>6, <1>7 DEF TypeOK, Resized
<1>9. ReadersPlaced' BY <1>0, <1>1 DEF ReadersPlaced, Holding
<1>10. NodesLeft'
  <2>1. PICK G \in SUBSET Garbage : /\ Len(pool') + Cardinality(G) > 0
                                    /\ G \cap Elems(ring') = {} /\ G \cap Elems(pool') = {}
    BY <1>4 DEF Resized
  <2>2. Value \in Elems(ring) BY <1>0, RingFacts DEF Value
  <2>3. G \subseteq Garbage' BY <1>1, <1>6, <2>1, <2>2 DEF Garbage
  <2>4. Garbage' \subseteq Slots BY DEF Garbage
  <2>5. Cardinality(G) \in Nat /\ Cardinality(Garbage') \in Nat
        /\ Cardinality(G) <= Cardinality(Garbage')
    BY <2>3, <2>4, Monotone
  <2>6. Len(pool') \in Nat BY <1>4, ElemsOf DEF Resized
  <2>7. Len(pool') + Cardinality(Garbage') > 0 BY <2>1, <2>5, <2>6
  <2> QED BY <1>1, <2>7 DEF NodesLeft
<1>11. LastPlaced'
  <2>1. Value' = Value /\ ring'[Size'] = ring[Size] BY <1>4 DEF Resized, Value, Size
  <2>2. lastValue \in Slots \ Garbage /\ Value \in Slots \ Garbage
    <3>1. Value \in Elems(ring) /\ Value \in Slots BY <1>0, RingFacts DEF Value
    <3> QED BY <1>0, <3>1 DEF Garbage, TypeOK
  <2>3. /\ frame'[lastValue].ready = frame[lastValue].ready
        /\ frame'[Value].seq = frame[Value].seq
    BY <1>4, <2>2 DEF Resized, Stamp
  <2>4. LastKnown /\ LastValueReady BY <1>0, <1>1 DEF LastPlaced
  <2>5. LastKnown' BY <1>1, <2>1, <2>3, <2>4 DEF LastKnown
  <2>6. LastValueReady' BY <1>1, <2>1, <2>3, <2>4 DEF LastValueReady
  <2> QED BY <1>1, <2>5, <2>6 DEF LastPlaced
<1> QED BY <1>4, <1>8, <1>9, <1>10, <1>11 DEF RingPart, Resized

-------------------------------------------------------------------------------
(***************************************************************************)
(* What the invariant says at each place of the writing goroutine.         *)
(***************************************************************************)
LEMMA Modulo ==
    ASSUME NEW x \in Nat, NEW m \in Nat \ {0}
    PROVE  x % m \in 0 .. m - 1 /\ x % m <= x
OBVIOUS

LEMMA Stamped ==
    ASSUME NEW f \in Frame, NEW n \in 0 .. SeqMod - 1,
           NEW g, g = [f EXCEPT !.seq = n, !.ready = FALSE]
    PROVE  g \in Frame /\ g.seq = n
BY DEF Frame

LEMMA Filled ==
    ASSUME NEW f \in Frame, NEW key \in BOOLEAN,
           NEW g, g = [f EXCEPT !.ts = f.seq, !.idr = key, !.mem = TRUE]
    PROVE  g \in Frame /\ g.seq = f.seq /\ g.ready = f.ready
<1>0. f.seq \in Nat BY BoundsGiven DEF Frame
<1>1. CASE key = TRUE BY <1>0, <1>1 DEF Frame
<1>2. CASE key = FALSE BY <1>0, <1>2 DEF Frame
<1> QED BY <1>1, <1>2

LEMMA LockFacts ==
    ASSUME RingInv
    PROVE  /\ writer # "gone" => ~panicked /\ Lock!LockInv
           /\ writer \in {"fill", "step", "enter", "publish"} =>
                 status = IF disposer = "idle" THEN 0 ELSE -1
           /\ writer \in {"claim", "exit"} => status = IF disposer = "idle" THEN 1 ELSE 0
           /\ writer = "ready" => status = IF disposer = "idle" THEN 0 ELSE -1
           /\ writer \in {"unlockBoth", "unlockValue"} => stopped /\ status = -1
           /\ writer # "unlockOne"
           /\ writer = "gone" => status \in -1 .. 1
<1>1. LocksKept /\ TypeOK BY DEF RingInv
<1>2. writer # "gone" => ~panicked /\ Lock!LockInv BY <1>1 DEF LocksKept
<1>3. CASE writer = "gone" BY <1>1, <1>3 DEF LocksKept
<1>4. CASE writer # "gone"
  BY <1>1, <1>2, <1>4 DEF Lock!LockInv, Lock!StepUnderWay, Lock!BetweenSteps, Lock!Alive, TypeOK
<1> QED BY <1>3, <1>4

(***************************************************************************)
(* The steps that leave the lists, the readers and their locks as they     *)
(* are.                                                                    *)
(***************************************************************************)
ListsSame ==
    /\ ring' = ring /\ pool' = pool /\ idrs' = idrs /\ reduceVol' = reduceVol
    /\ buffered' = buffered /\ completed' = completed /\ lastValue' \in {lastValue, completed}
    /\ reader' = reader /\ rlocked' = rlocked /\ wlocked' \subseteq wlocked

LEMMA SameLists ==
    ASSUME RingInv, ListsSame
    PROVE  /\ RingShape' /\ ReadersPlaced' /\ Value' = Value /\ ring'[Size'] = ring[Size]
           /\ Len(pool') = Len(pool) /\ Len(pool) \in Nat
           /\ Cardinality(Garbage) \in Nat /\ Cardinality(Garbage') \in Nat
           /\ Cardinality(Garbage') >= Cardinality(Garbage)
           /\ Value \in Slots /\ ring[Size] \in Slots
<1>0. TypeOK /\ RingShape /\ ReadersPlaced BY DEF RingInv
<1>1. RingShape' BY <1>0, SameShape DEF ListsSame
<1>2. ReadersPlaced' BY <1>0 DEF ListsSame, ReadersPlaced, Holding
<1>3. Value' = Value /\ ring'[Size'] = ring[Size] BY DEF ListsSame, Value, Size
<1>4. Len(pool') = Len(pool) /\ Len(pool) \in Nat BY <1>0, ElemsOf DEF ListsSame, TypeOK
<1>5. Elems(ring') = Elems(ring) /\ Elems(pool') = Elems(pool) /\ Elems(idrs') = Elems(idrs)
  BY DEF ListsSame
<1>6. Garbage \subseteq Garbage' BY <1>5 DEF ListsSame, Garbage
<1>7. Garbage' \subseteq Slots BY DEF Garbage
<1>8. Cardinality(Garbage) \in Nat /\ Cardinality(Garbage') \in Nat
      /\ Cardinality(Garbage) <= Cardinality(Garbage')
  BY <1>6, <1>7, Monotone
<1>9. Value \in Slots /\ ring[Size] \in Slots BY <1>0, RingFacts DEF Value, Size
<1> QED BY <1>1, <1>2, <1>3, <1>4, <1>8, <1>9

(* Two steps later in the same Step, or at its end, no node has been used up. *)
LEMMA SameNodes ==
    ASSUME RingInv, ListsSame,
           writer' = "step" => Len(pool) + Cardinality(Garbage) > Chunk,
           writer' \in {"enter", "claim"} => writer \in {"enter", "claim"}
    PROVE  NodesLeft'
<1>1. NodesLeft BY DEF RingInv
<1>2. /\ Len(pool') = Len(pool) /\ Len(pool) \in Nat
      /\ Cardinality(Garbage) \in Nat /\ Cardinality(Garbage') \in Nat
      /\ Cardinality(Garbage') >= Cardinality(Garbage)
  BY SameLists
<1>3. writer' = "step" => Len(pool') + Cardinality(Garbage') > Chunk
  BY <1>2, BoundsGiven
<1>4. writer' \in {"enter", "claim"} => Len(pool') + Cardinality(Garbage') > 0
  <2>1. writer \in {"enter", "claim"} => Len(pool) + Cardinality(Garbage) > 0
    BY <1>1 DEF NodesLeft
  <2> QED BY <1>2, <2>1
<1> QED BY <1>3, <1>4 DEF NodesLeft

LEMMA FillKeeps ==
    ASSUME RingInv, Fill PROVE RingPart'
<1>0. TypeOK /\ LastPlaced BY DEF RingInv
<1>1. ListsSame BY DEF Fill, ListsSame, listVars, lockVars
<1>2. /\ writer = "fill" /\ discard' = discard /\ status' = status /\ disposer' = disposer
      /\ stopped' = stopped /\ panicked' = panicked /\ fatal' = fatal /\ lastValue' = lastValue
      /\ wlocked' = wlocked /\ writer' \in {"step", "gone"}
      /\ writer' = "step" => Len(pool) + Cardinality(Garbage) > Chunk /\ ~stopped
  BY DEF Fill, lockVars, disposerVars
<1>3. Value \in Slots /\ ring[Size] \in Slots /\ lastValue \in Slots BY <1>0, <1>1, SameLists DEF TypeOK
<1>4. frame' \in [Slots -> Frame] /\ \A s \in Slots : Stamp(frame'[s], frame[s])
  <2>0. frame \in [Slots -> Frame] BY <1>0 DEF TypeOK
  <2>1. ASSUME NEW key \in BOOLEAN,
               frame' = [frame EXCEPT ![Value].ts = frame[Value].seq,
                                      ![Value].idr = key, ![Value].mem = TRUE]
        PROVE  frame' \in [Slots -> Frame] /\ \A s \in Slots : Stamp(frame'[s], frame[s])
    <3>1. PICK f \in Frame : f = frame[Value] BY <1>3, <2>0
    <3>2. PICK g : g = [f EXCEPT !.ts = f.seq, !.idr = key, !.mem = TRUE] OBVIOUS
    <3>4. g \in Frame /\ Stamp(g, f) BY <3>2, Filled DEF Stamp
    <3>3. frame' = [frame EXCEPT ![Value] = g] BY <1>3, <2>0, <2>1, <3>1, <3>2, Zenon
    <3> QED BY <1>3, <2>0, <3>1, <3>3, <3>4 DEF Stamp
  <2>2. ASSUME frame' = [frame EXCEPT ![Value] = Reset(@)]
        PROVE  frame' \in [Slots -> Frame] /\ \A s \in Slots : Stamp(frame'[s], frame[s])
    BY <1>3, <2>0, <2>2, FrameOps DEF Stamp
  <2> QED BY <2>1, <2>2 DEF Fill
<1>5. TypeOK' BY <1>0, <1>1, <1>2, <1>4 DEF TypeOK, ListsSame
<1>6. NodesLeft' BY <1>1, <1>2, SameNodes
<1>7. LastPlaced'
  <2>1. /\ Value' = Value /\ ring'[Size'] = ring[Size] BY <1>1, SameLists
  <2>2. frame'[lastValue].ready = frame[lastValue].ready /\ frame'[Value].seq = frame[Value].seq
    BY <1>3, <1>4 DEF Stamp
  <2>3. LastValueReady' BY <1>0, <1>2, <2>1, <2>2 DEF LastPlaced, LastValueReady
  <2>4. LastKnown => LastKnown' BY <1>2, <2>1, <2>2 DEF LastKnown
  <2> QED BY <1>0, <1>2, <2>3, <2>4 DEF LastPlaced
<1> QED BY <1>1, <1>5, <1>6, <1>7, SameLists DEF RingPart

LEMMA EnterKeeps ==
    ASSUME RingInv, Enter PROVE RingPart'
<1>0. TypeOK /\ LastPlaced BY DEF RingInv
<1>1. ListsSame BY DEF Enter, ListsSame, listVars, lockVars
<1>2. /\ writer = "enter" /\ discard' = discard /\ status' = status + 1 /\ disposer' = disposer
      /\ stopped' = stopped /\ panicked' = panicked /\ fatal' = fatal /\ lastValue' = lastValue
      /\ wlocked' = wlocked /\ writer' \in {"claim", "gone"}
  BY DEF Enter, lockVars, disposerVars
<1>3. Value \in Slots /\ ring[Size] \in Slots /\ lastValue \in Slots BY <1>0, <1>1, SameLists DEF TypeOK
<1>4. frame' \in [Slots -> Frame] /\ \A s \in Slots : Stamp(frame'[s], frame[s])
  <2>0. frame \in [Slots -> Frame] BY <1>0 DEF TypeOK
  <2>1. frame' = frame \/ frame' = [frame EXCEPT ![Value] = Reset(@)] BY DEF Enter
  <2> QED BY <1>3, <2>0, <2>1, FrameOps DEF Stamp
<1>5. status' \in -2 .. 2 BY <1>2, LockFacts
<1>6. TypeOK' BY <1>0, <1>1, <1>2, <1>4, <1>5 DEF TypeOK, ListsSame
<1>7. NodesLeft' BY <1>1, <1>2, SameNodes
<1>8. LastPlaced'
  <2>1. /\ Value' = Value /\ ring'[Size'] = ring[Size] BY <1>1, SameLists
  <2>2. frame'[lastValue].ready = frame[lastValue].ready /\ frame'[Value].seq = frame[Value].seq
    BY <1>3, <1>4 DEF Stamp
  <2>3. LastValueReady' BY <1>0, <1>2, <2>1, <2>2 DEF LastPlaced, LastValueReady
  <2>4. LastKnown' BY <1>0, <1>2, <2>1, <2>2 DEF LastPlaced, LastKnown
  <2> QED BY <1>2, <2>3, <2>4 DEF LastPlaced
<1> QED BY <1>1, <1>6, <1>7, <1>8, SameLists DEF RingPart

(* Exit, Publish and the releases of a Step that a Dispose raced change no frame. *)
LEMMA EndOfStepKeeps ==
    ASSUME RingInv, Exit \/ Publish \/ UnlockBoth \/ UnlockValue PROVE RingPart'
<1>0. TypeOK /\ LastPlaced BY DEF RingInv
<1>1. ListsSame
  BY DEF Exit, Publish, UnlockBoth, UnlockValue, Unlock, ListsSame, listVars, lockVars
<1>2. /\ discard' = discard /\ frame' = frame /\ disposer' = disposer
      /\ stopped' = stopped /\ panicked' = panicked /\ completed' = completed
  BY DEF Exit, Publish, UnlockBoth, UnlockValue, Unlock, slotVars, disposerVars
<1>3. \/ writer = "exit" /\ writer' \in {"ready", "unlockBoth", "unlockOne"}
         /\ status' = status - 1 /\ lastValue' = lastValue /\ fatal' = fatal
      \/ writer = "publish" /\ writer' = "fill" /\ status' = status /\ lastValue' = completed
         /\ fatal' = fatal
      \/ writer \in {"unlockBoth", "unlockOne", "unlockValue"} /\ writer' \in {"unlockValue", "fill"}
         /\ status' = status /\ lastValue' = lastValue /\ fatal' \in BOOLEAN
  <2>1. CASE Exit
    <3>1. writer' \in {"ready", "unlockBoth", "unlockOne"} BY <2>1, Zenon DEF Exit
    <3> QED BY <2>1, <3>1 DEF Exit
  <2>2. CASE Publish BY <2>2 DEF Publish
  <2>3. CASE UnlockBoth BY <2>3 DEF UnlockBoth, Unlock
  <2>4. CASE UnlockValue BY <2>4 DEF UnlockValue, Unlock
  <2> QED BY <2>1, <2>2, <2>3, <2>4
<1>4. status' \in -2 .. 2 BY <1>0, <1>3, LockFacts DEF TypeOK
<1>5. fatal' \in BOOLEAN BY <1>0, <1>3 DEF TypeOK
<1>6. TypeOK' BY <1>0, <1>1, <1>2, <1>3, <1>4, <1>5 DEF TypeOK, ListsSame
<1>7. NodesLeft'
  <2>1. writer' \notin {"step", "enter", "claim"} BY <1>3
  <2> QED BY <1>1, <2>1, SameNodes
<1>8. LastPlaced'
  <2>1. /\ Value' = Value /\ ring'[Size'] = ring[Size] BY <1>1, SameLists
  <2>2. CASE writer = "exit"
    BY <1>0, <1>2, <1>3, <2>1, <2>2 DEF LastPlaced, LastValueReady
  <2>3. CASE writer = "publish"
    <3>1. lastValue' = completed /\ writer' = "fill" BY <1>3, <2>3
    <3>2. completed = ring[Size] /\ frame[completed].ready BY <1>0, <2>3 DEF LastPlaced
    <3>3. LastKnown' BY <1>2, <2>1, <3>1, <3>2 DEF LastKnown
    <3>4. LastValueReady' BY <1>2, <3>1, <3>2 DEF LastValueReady
    <3> QED BY <3>1, <3>3, <3>4 DEF LastPlaced
  <2>4. CASE writer \in {"unlockBoth", "unlockOne", "unlockValue"}
    <3>1. stopped /\ stopped' BY <1>2, <2>4, LockFacts
    <3>2. writer' \in {"unlockValue", "fill"} /\ lastValue' = lastValue BY <1>3, <2>4
    <3>3. LastValueReady' BY <1>0, <1>2, <2>1, <3>2 DEF LastPlaced, LastValueReady
    <3> QED BY <3>1, <3>2, <3>3 DEF LastPlaced
  <2> QED BY <1>3, <2>2, <2>3, <2>4
<1> QED BY <1>1, <1>6, <1>7, <1>8, SameLists DEF RingPart

LEMMA ReadyKeeps ==
    ASSUME RingInv, Ready PROVE RingPart'
<1>0. TypeOK /\ LastPlaced BY DEF RingInv
<1>1. ListsSame BY DEF Ready, Unlock, ListsSame, listVars
<1>2. /\ writer = "ready" /\ writer' = "publish" /\ discard' = discard /\ status' = status
      /\ disposer' = disposer /\ stopped' = stopped /\ panicked' = panicked
      /\ completed' = completed /\ lastValue' = lastValue
      /\ frame' = [frame EXCEPT ![completed].ready = TRUE]
  BY DEF Ready, disposerVars
<1>3. fatal' \in BOOLEAN BY DEF Ready, Unlock
<1>4. Value \in Slots /\ lastValue \in Slots /\ completed \in Slots
  BY <1>0, <1>1, SameLists DEF TypeOK
<1>5. /\ frame' \in [Slots -> Frame] /\ frame'[completed].ready
      /\ frame'[Value].seq = frame[Value].seq
      /\ frame[lastValue].ready => frame'[lastValue].ready
  BY <1>0, <1>2, <1>4 DEF TypeOK, Frame
<1>6. TypeOK' BY <1>0, <1>1, <1>2, <1>3, <1>5 DEF TypeOK, ListsSame
<1>7. NodesLeft' BY <1>1, <1>2, SameNodes
<1>8. LastPlaced'
  <2>1. /\ Value' = Value /\ ring'[Size'] = ring[Size] BY <1>1, SameLists
  <2>2. LastValueReady' BY <1>0, <1>2, <1>5, <2>1 DEF LastPlaced, LastValueReady
  <2> QED BY <1>0, <1>2, <1>5, <2>1, <2>2 DEF LastPlaced
<1> QED BY <1>1, <1>6, <1>7, <1>8, SameLists DEF RingPart

(* The disposing goroutine. *)
LEMMA DisposerKeeps ==
    ASSUME RingInv, Stop \/ DisposerStep PROVE RingPart'
<1>0. TypeOK /\ LastPlaced BY DEF RingInv
<1>1. ListsSame
  BY DEF DisposerStep, Stop, Dispose, DisposeUnlock, DisposeDiscard, Unlock, ListsSame, listVars,
         lockVars, writerVars
<1>2. /\ writer' = writer /\ panicked' = panicked /\ lastValue' = lastValue
      /\ completed' = completed
      /\ stopped => stopped'
  BY DEF DisposerStep, Stop, Dispose, DisposeUnlock, DisposeDiscard, writerVars
<1>3. /\ stopped' \in BOOLEAN /\ fatal' \in BOOLEAN
      /\ disposer' \in {"idle", "unlock", "discard", "done"}
  BY <1>0 DEF DisposerStep, Stop, Dispose, DisposeUnlock, DisposeDiscard, Unlock, TypeOK
<1>4. status' = status \/ status' = status - 1
  BY DEF DisposerStep, Stop, Dispose, DisposeUnlock, DisposeDiscard, writerVars
<1>5. status' \in -2 .. 2 BY <1>0, <1>4, LockFacts DEF TypeOK
<1>6. Value \in Slots /\ lastValue \in Slots /\ completed \in Slots
  BY <1>0, <1>1, SameLists DEF TypeOK
<1>7. frame' \in [Slots -> Frame] /\ \A s \in Slots : Stamp(frame'[s], frame[s])
  <2>0. frame \in [Slots -> Frame] BY <1>0 DEF TypeOK
  <2>1. \/ frame' = frame
        \/ frame' = [s \in Slots |-> IF s \in Elems(ring) THEN Reset(frame[s]) ELSE frame[s]]
    BY DEF DisposerStep, Stop, Dispose, DisposeUnlock, DisposeDiscard, slotVars
  <2> QED BY <2>0, <2>1, FrameOps DEF Stamp
<1>8. discard' \in [Slots -> BOOLEAN]
  <2>1. \/ discard' = discard
        \/ discard' = [s \in Slots |-> discard[s] \/ s \in Elems(ring)]
    BY DEF DisposerStep, Stop, Dispose, DisposeUnlock, DisposeDiscard, slotVars
  <2> QED BY <1>0, <2>1 DEF TypeOK
<1>9. TypeOK' BY <1>0, <1>1, <1>2, <1>3, <1>5, <1>7, <1>8 DEF TypeOK, ListsSame
<1>10. NodesLeft'
  <2>1. writer = "step" => Len(pool) + Cardinality(Garbage) > Chunk BY DEF RingInv, NodesLeft
  <2> QED BY <1>1, <1>2, <2>1, SameNodes
<1>11. LastPlaced'
  <2>1. /\ Value' = Value /\ ring'[Size'] = ring[Size] BY <1>1, SameLists
  <2>2. /\ frame'[lastValue].ready = frame[lastValue].ready
        /\ frame'[Value].seq = frame[Value].seq
        /\ frame'[completed].ready = frame[completed].ready
    BY <1>6, <1>7 DEF Stamp
  <2>3. LastValueReady' BY <1>0, <1>2, <2>1, <2>2 DEF LastPlaced, LastValueReady
  <2>4. LastKnown => LastKnown' BY <1>2, <2>1, <2>2 DEF LastKnown
  <2> QED BY <1>0, <1>2, <2>1, <2>2, <2>3, <2>4 DEF LastPlaced
<1> QED BY <1>1, <1>9, <1>10, <1>11, SameLists DEF RingPart

(***************************************************************************)
(* The two ways in which Step gets its next slot.                          *)
(***************************************************************************)
LEMMA NextSeq ==
    ASSUME TypeOK, RingShape
    PROVE  nextSeq \in 0 .. SeqMod - 1 /\ (frame[Value].seq = 0 => nextSeq <= 1)
<1>1. frame[Value] \in Frame BY RingFacts DEF TypeOK, Value
<1>2. PICK x \in Nat : x = frame[Value].seq BY <1>1, BoundsGiven DEF Frame
<1>3. x + 1 \in Nat /\ SeqMod \in Nat \ {0} BY BoundsGiven
<1>4. (x + 1) % SeqMod \in 0 .. SeqMod - 1 /\ (x + 1) % SeqMod <= x + 1 BY <1>3, Modulo
<1>5. nextSeq = (x + 1) % SeqMod BY <1>2 DEF nextSeq
<1> HIDE DEF nextSeq
<1> QED BY <1>2, <1>4, <1>5

(* A slot on which no reader has got its RLock may be write-locked. *)
LEMMA ReadersStay ==
    ASSUME ReadersPlaced, NEW x \in Slots, reader' = reader, rlocked' = rlocked,
           wlocked' \subseteq (wlocked \cup {x}),
           rlocked[x] = {} \/ \A r \in Readers : reader[r].slot # x
    PROVE  ReadersPlaced'
<1> SUFFICES ASSUME NEW r \in Readers
             PROVE  /\ reader[r].pc # "init" => reader[r].target \in Slots
                    /\ reader[r].pc \notin {"init", "check"} => reader[r].slot \in Slots
                    /\ \A s \in Slots : r \in rlocked[s]
                                 <=> reader[r].slot = s /\ reader[r].pc \in Holding
                    /\ reader[r].pc \in {"hold", "stop"} => reader[r].slot \notin wlocked'
  BY DEF ReadersPlaced, Holding
<1>1. /\ reader[r].pc # "init" => reader[r].target \in Slots
      /\ reader[r].pc \notin {"init", "check"} => reader[r].slot \in Slots
      /\ \A s \in Slots : r \in rlocked[s] <=> reader[r].slot = s /\ reader[r].pc \in Holding
      /\ reader[r].pc \in {"hold", "stop"} => reader[r].slot \notin wlocked
  BY DEF ReadersPlaced
<1>2. reader[r].pc \in {"hold", "stop"} => reader[r].slot # x BY <1>1 DEF Holding
<1> QED BY <1>1, <1>2

LEMMA ClaimKeeps ==
    ASSUME RingInv, Claim PROVE RingPart'
<1>0. TypeOK /\ RingShape /\ ReadersPlaced /\ LastPlaced BY DEF RingInv
<1>1. /\ writer = "claim" /\ writer' = "exit" /\ completed' = Value /\ lastValue' = lastValue
      /\ pool' = pool /\ idrs' = idrs /\ reduceVol' = reduceVol /\ buffered' = buffered
      /\ discard' = discard /\ rlocked' = rlocked /\ status' = status /\ disposer' = disposer
      /\ stopped' = stopped /\ panicked' = panicked /\ fatal' = fatal /\ reader' = reader
      /\ wlocked' = wlocked \cup {ring[2]} /\ rlocked[ring[2]] = {}
  BY DEF Claim, CanStartWrite, disposerVars
<1>2. /\ Len(ring) \in Nat /\ Len(ring) > 2 /\ Len(ring) > 1
      /\ ring[1] \in Slots /\ ring[2] \in Slots /\ ring[Len(ring)] \in Slots
      /\ ring[1] # ring[2] /\ ring[2] # ring[Len(ring)]
  BY <1>0, RingFacts
<1>3. /\ ring' \in Seq(Slots) /\ Len(ring') = Len(ring) /\ Elems(ring') = Elems(ring)
      /\ ring'[1] = ring[2] /\ ring'[Len(ring)] = ring[1] /\ IsInjective(ring')
  <2>1. ring \in Seq(Slots) /\ IsInjective(ring) BY <1>0 DEF TypeOK, RingShape
  <2>2. PICK t : t = Append(Tail(ring), ring[1]) OBVIOUS
  <2>3. /\ t \in Seq(Slots) /\ Len(t) = Len(ring) /\ Elems(t) = Elems(ring)
        /\ t[1] = ring[2] /\ t[Len(ring)] = ring[1] /\ IsInjective(t)
    BY <1>2, <2>1, <2>2, Rotated, Zenon
  <2>4. ring' = t BY <2>2 DEF Claim, Value
  <2> QED BY <2>3, <2>4, Zenon
<1>4. PICK g : /\ g \in Frame /\ g.seq = nextSeq
               /\ frame' = [frame EXCEPT ![ring[2]] = g]
  <2>1. PICK f \in Frame : f = Reset(frame[ring[2]]) BY <1>0, <1>2, FrameOps DEF TypeOK
  <2>2. PICK g : g = [f EXCEPT !.seq = nextSeq, !.ready = FALSE] OBVIOUS
  <2>3. PICK n \in 0 .. SeqMod - 1 : n = nextSeq BY <1>0, NextSeq
  <2>4. g \in Frame /\ g.seq = n BY <2>2, <2>3, Stamped
  <2>5. frame' = [frame EXCEPT ![ring[2]] = g] BY <2>1, <2>2, Zenon DEF Claim
  <2> QED BY <2>3, <2>4, <2>5
<1>5. frame' \in [Slots -> Frame] BY <1>0, <1>4 DEF TypeOK
<1>6. TypeOK' BY <1>0, <1>1, <1>2, <1>3, <1>5 DEF TypeOK, Value
<1>7. RingShape' BY <1>0, <1>1, <1>3 DEF RingShape
<1>8. ReadersPlaced' BY <1>0, <1>1, <1>2, ReadersStay
<1>9. NodesLeft' BY <1>1 DEF NodesLeft
<1>10. LastPlaced'
  <2>1. LastKnown BY <1>0, <1>1 DEF LastPlaced
  <2>2. completed' = ring'[Size'] BY <1>1, <1>3 DEF Size, Value
  <2>3. Value' = ring[2] BY <1>3 DEF Value
  <2>4. frame'[ring[2]].seq = nextSeq BY <1>0, <1>2, <1>4 DEF TypeOK
  <2>5. lastValue # ring[2] BY <1>2, <2>1 DEF LastKnown, Size, Value
  <2>6. frame'[lastValue] = frame[lastValue] BY <1>0, <1>4, <2>5 DEF TypeOK
  <2>7. LastValueReady'
    <3>1. CASE frame[lastValue].ready BY <1>1, <2>6, <3>1 DEF LastValueReady
    <3>2. CASE frame[Value].seq = 0
      <4>1. nextSeq <= 1 /\ nextSeq \in 0 .. SeqMod - 1 BY <1>0, <3>2, NextSeq
      <4>2. ~(nextSeq > 1) BY <4>1, BoundsGiven
      <4> QED BY <2>3, <2>4, <4>2, Zenon DEF LastValueReady
    <3> QED BY <2>1, <3>1, <3>2 DEF LastKnown
  <2> QED BY <1>1, <2>2, <2>7 DEF LastPlaced
<1> QED BY <1>6, <1>7, <1>8, <1>9, <1>10 DEF RingPart

(* The node that takes the place of the one a reader is on. *)
LEMMA RefillNode ==
    ASSUME RingInv, Refill, NEW node, node = GlowItems(1)[1]
    PROVE  /\ node \in Slots /\ node \notin Elems(ring) /\ node \notin Elems(pool')
           /\ pool = <<>> => node \in Garbage
           /\ pool' \in Seq(Slots) /\ IsInjective(pool') /\ Elems(pool') \subseteq Elems(pool)
           /\ ring' \in Seq(Slots) /\ Len(ring') = Len(ring) /\ IsInjective(ring')
           /\ Elems(ring') \subseteq (Elems(ring) \cup {node})
           /\ ring'[1] = node /\ ring'[Len(ring)] = ring[1]
<1>0. TypeOK /\ RingShape /\ NodesLeft BY DEF RingInv
<1>4. /\ writer = "claim" /\ pool' = PoolAfterGlow(1)
      /\ ring' = <<node>> \o Suffix(ring, 2) \o <<Value>>
  BY Zenon DEF Refill
<1>6. Len(ring) > 2 BY <1>0, RingFacts
<1>7. /\ GlowItems(1) \in Seq(Slots) /\ Len(GlowItems(1)) = 1
      /\ Elems(GlowItems(1)) \subseteq (Elems(pool) \cup Garbage)
      /\ pool' \in Seq(Slots) /\ IsInjective(pool')
      /\ Elems(pool') \subseteq Elems(pool)
      /\ Elems(pool') \cap Elems(GlowItems(1)) = {}
  <2>1. PICK n \in Nat \ {0} : n = 1 OBVIOUS
  <2>2. n <= Len(pool) + Cardinality(Garbage)
    <3>1. Len(pool) \in Nat BY <1>0, ElemsOf DEF TypeOK
    <3>2. Len(pool) + Cardinality(Garbage) > 0 BY <1>0, <1>4 DEF NodesLeft
    <3> QED BY <2>1, <3>1, <3>2, GarbageSlots
  <2>3. /\ GlowItems(n) \in Seq(Slots) /\ Len(GlowItems(n)) = n
        /\ Elems(GlowItems(n)) \subseteq (Elems(pool) \cup Garbage)
        /\ PoolAfterGlow(n) \in Seq(Slots) /\ IsInjective(PoolAfterGlow(n))
        /\ Elems(PoolAfterGlow(n)) \subseteq Elems(pool)
        /\ Elems(PoolAfterGlow(n)) \cap Elems(GlowItems(n)) = {}
    BY <1>0, <2>2, GlowFacts
  <2> QED BY <1>4, <2>1, <2>3, Zenon
<1>8. node \in Elems(GlowItems(1)) /\ node \in Slots
  <2>1. PICK a \in Seq(Slots) : a = GlowItems(1) BY <1>7
  <2>2. Len(a) = 1 /\ node = a[1] BY <1>7, <2>1, Zenon
  <2>3. 1 \in 1 .. Len(a) BY <2>2
  <2>4. node \in Elems(a) /\ Elems(a) \subseteq Slots BY <2>2, <2>3, ElemsOf
  <2> QED BY <2>1, <2>4
<1>9. node \notin Elems(ring) /\ node \notin Elems(pool')
  <2>1. Elems(ring) \cap Elems(pool) = {} BY <1>0 DEF RingShape
  <2> QED BY <1>7, <1>8, <2>1 DEF Garbage
<1>10. /\ ring' \in Seq(Slots) /\ Len(ring') = Len(ring) /\ IsInjective(ring')
       /\ Elems(ring') \subseteq (Elems(ring) \cup {node})
       /\ ring'[1] = node /\ ring'[Len(ring)] = ring[1]
  <2>1. ring \in Seq(Slots) /\ IsInjective(ring) BY <1>0 DEF TypeOK, RingShape
  <2>2. Len(ring) > 2 /\ node \in Slots /\ node \notin Elems(ring) BY <1>6, <1>8, <1>9
  <2>3. /\ Exchange(ring, node) \in Seq(Slots) /\ Len(Exchange(ring, node)) = Len(ring)
        /\ IsInjective(Exchange(ring, node))
        /\ Elems(Exchange(ring, node)) \subseteq (Elems(ring) \cup {node})
        /\ Exchange(ring, node)[1] = node /\ Exchange(ring, node)[Len(ring)] = ring[1]
    BY <2>1, <2>2, Exchanged
  <2>4. ring' = Exchange(ring, node) BY <1>4 DEF Value, Exchange
  <2> QED BY <2>3, <2>4, Zenon
<1>11. ASSUME pool = <<>> PROVE node \in Garbage
  <2>1. Elems(pool) = {} BY <1>11, EmptyElems
  <2> QED BY <1>7, <1>8, <2>1
<1> QED BY <1>7, <1>8, <1>9, <1>10, <1>11

LEMMA RefillKeeps ==
    ASSUME RingInv, Refill PROVE RingPart'
<1>0. TypeOK /\ RingShape /\ ReadersPlaced /\ LastPlaced /\ NodesLeft BY DEF RingInv
<1>1. PICK node : node = GlowItems(1)[1] OBVIOUS
<1>2. PICK free \in BOOLEAN : free = (pool = <<>> \/ CanStartWrite(node)) OBVIOUS
<1>3. PICK base : base = IF pool = <<>> THEN NewNode ELSE frame[node] OBVIOUS
<1>4. /\ writer = "claim" /\ writer' = (IF free THEN "exit" ELSE "gone")
      /\ completed' = Value /\ lastValue' = lastValue
      /\ pool' = PoolAfterGlow(1) /\ ring' = <<node>> \o Suffix(ring, 2) \o <<Value>>
      /\ frame' = [frame EXCEPT ![ring[2]] = Reset(@),
                                ![node] = [base EXCEPT !.seq = nextSeq, !.ready = FALSE]]
      /\ discard' = [discard EXCEPT ![ring[2]] = TRUE, ![node] = ~free]
      /\ wlocked' = (IF free THEN wlocked \cup {node} ELSE wlocked)
      /\ panicked' = ~free
  BY <1>1, <1>2, <1>3, Zenon DEF Refill
<1>5. /\ idrs' = idrs /\ reduceVol' = reduceVol /\ buffered' = buffered
      /\ rlocked' = rlocked /\ status' = status /\ disposer' = disposer
      /\ stopped' = stopped /\ fatal' = fatal /\ reader' = reader
  BY DEF Refill, disposerVars
<1>6. /\ Len(ring) \in Nat /\ Len(ring) > 2 /\ Len(ring) > 1
      /\ ring[1] \in Slots /\ ring[2] \in Slots /\ ring[Len(ring)] \in Slots
      /\ ring[1] \in Elems(ring) /\ ring[2] \in Elems(ring) /\ ring[Len(ring)] \in Elems(ring)
      /\ ring[1] # ring[2] /\ ring[2] # ring[Len(ring)]
  BY <1>0, RingFacts
<1>7. pool' \in Seq(Slots) /\ IsInjective(pool') /\ Elems(pool') \subseteq Elems(pool)
  BY <1>1, RefillNode
<1>8. node \in Slots BY <1>1, RefillNode
<1>9. node \notin Elems(ring) /\ node \notin Elems(pool') BY <1>1, RefillNode
<1>10. /\ ring' \in Seq(Slots) /\ Len(ring') = Len(ring) /\ IsInjective(ring')
       /\ Elems(ring') \subseteq (Elems(ring) \cup {node})
       /\ ring'[1] = node /\ ring'[Len(ring)] = ring[1]
  BY <1>1, RefillNode
<1>11. RingShape'
  <2>1. Elems(ring) \cap Elems(pool) = {} /\ Len(ring) >= MinSize BY <1>0 DEF RingShape
  <2>2. Elems(ring') \cap Elems(pool') = {} BY <1>7, <1>9, <1>10, <2>1
  <2> QED BY <1>7, <1>10, <2>1, <2>2 DEF RingShape
<1>12. PICK f, g \in Frame : /\ f = Reset(frame[ring[2]]) /\ g.seq = nextSeq
                             /\ frame' = [frame EXCEPT ![ring[2]] = f, ![node] = g]
  <2>1. PICK f \in Frame : f = Reset(frame[ring[2]]) BY <1>0, <1>6, FrameOps DEF TypeOK
  <2>2. base \in Frame BY <1>0, <1>3, <1>8, FrameOps DEF TypeOK
  <2>3. PICK g : g = [base EXCEPT !.seq = nextSeq, !.ready = FALSE] OBVIOUS
  <2>4. PICK n \in 0 .. SeqMod - 1 : n = nextSeq BY <1>0, NextSeq
  <2>5. g \in Frame /\ g.seq = n BY <2>2, <2>3, <2>4, Stamped
  <2>6. frame' = [frame EXCEPT ![ring[2]] = f, ![node] = g] BY <1>4, <2>1, <2>3, Zenon
  <2> QED BY <2>1, <2>4, <2>5, <2>6
<1>13. node # ring[2] BY <1>6, <1>9
<1>14. /\ frame' \in [Slots -> Frame] /\ frame'[node].seq = nextSeq
       /\ \A s \in Slots : s # ring[2] /\ s # node => frame'[s] = frame[s]
  BY <1>0, <1>6, <1>8, <1>12, <1>13 DEF TypeOK
<1>15. discard' \in [Slots -> BOOLEAN] BY <1>0, <1>2, <1>4 DEF TypeOK
<1>16. wlocked' \subseteq Slots /\ panicked' \in BOOLEAN /\ writer' \in {"exit", "gone"}
  BY <1>0, <1>4, <1>8 DEF TypeOK
<1>17. TypeOK' BY <1>0, <1>4, <1>5, <1>6, <1>7, <1>10, <1>14, <1>15, <1>16 DEF TypeOK, Value
<1>18. ReadersPlaced'
  <2>1. CASE free /\ pool = <<>>
    <3>2. node \in Garbage BY <1>1, <2>1, RefillNode
    <3>3. \A r \in Readers : reader[r].slot # node BY <3>2 DEF Garbage
    <3> QED BY <1>0, <1>4, <1>5, <1>8, <2>1, <3>3, ReadersStay
  <2>2. CASE free /\ pool # <<>>
    <3>1. rlocked[node] = {} BY <1>2, <2>2 DEF CanStartWrite
    <3> QED BY <1>0, <1>4, <1>5, <1>8, <2>2, <3>1, ReadersStay
  <2>3. CASE ~free
    <3>1. wlocked' = wlocked BY <1>4, <2>3
    <3> QED BY <1>0, <1>5, <3>1 DEF ReadersPlaced, Holding
  <2> QED BY <1>2, <2>1, <2>2, <2>3
<1>19. NodesLeft' BY <1>16 DEF NodesLeft
<1>20. LastPlaced'
  <2>1. LastKnown BY <1>0, <1>4 DEF LastPlaced
  <2>2. completed' = ring'[Size'] BY <1>4, <1>10 DEF Size, Value
  <2>3. Value' = node BY <1>10 DEF Value
  <2>4. lastValue \in Elems(ring) /\ lastValue # ring[2] /\ lastValue \in Slots
    BY <1>0, <1>6, <2>1 DEF LastKnown, Size, Value, TypeOK
  <2>5. frame'[lastValue] = frame[lastValue] BY <1>9, <1>14, <2>4
  <2>6. LastValueReady'
    <3>1. CASE frame[lastValue].ready BY <1>4, <2>5, <3>1 DEF LastValueReady
    <3>2. CASE frame[Value].seq = 0
      <4>1. nextSeq <= 1 /\ nextSeq \in 0 .. SeqMod - 1 BY <1>0, <3>2, NextSeq
      <4>2. ~(nextSeq > 1) BY <4>1, BoundsGiven
      <4> QED BY <1>14, <2>3, <4>2, Zenon DEF LastValueReady
    <3> QED BY <2>1, <3>1, <3>2 DEF LastKnown
  <2> QED BY <1>16, <2>2, <2>6 DEF LastPlaced
<1> QED BY <1>11, <1>17, <1>18, <1>19, <1>20 DEF RingPart

-------------------------------------------------------------------------------
(***************************************************************************)
(* The readers: where a reader goes is a node that was in use.             *)
(***************************************************************************)
Placed(r) ==
    /\ reader[r].pc # "init" => reader[r].target \in Slots
    /\ reader[r].pc \notin {"init", "check"} => reader[r].slot \in Slots
    /\ \A s \in Slots : r \in rlocked[s] <=> reader[r].slot = s /\ reader[r].pc \in Holding
    /\ reader[r].pc \in {"hold", "stop"} => reader[r].slot \notin wlocked

ReaderMoves(r) ==
    /\ WriterUnchanged
    /\ reader' \in [Readers -> Reader]
    /\ \A q \in Readers : q # r => reader'[q] = reader[q]
    /\ reader'[r].slot \in {reader[r].slot, reader[r].target}
    /\ \/ reader'[r].target \in {reader[r].slot, reader[r].target}
       \/ reader'[r].target \in (Elems(ring) \cup Elems(pool)) \cup Elems(idrs)
    /\ rlocked' \in [Slots -> SUBSET Readers]
    /\ \A q \in Readers, s \in Slots : q # r => (q \in rlocked'[s] <=> q \in rlocked[s])
    /\ Placed(r)'

LEMMA ReaderMovesKeep ==
    ASSUME RingInv, NEW r \in Readers, ReaderMoves(r) PROVE RingPart'
<1>0. TypeOK /\ RingShape /\ ReadersPlaced /\ LastPlaced /\ NodesLeft BY DEF RingInv
<1>1. /\ ring' = ring /\ pool' = pool /\ idrs' = idrs /\ reduceVol' = reduceVol
      /\ buffered' = buffered /\ frame' = frame /\ discard' = discard /\ wlocked' = wlocked
      /\ status' = status /\ writer' = writer /\ completed' = completed
      /\ lastValue' = lastValue /\ disposer' = disposer /\ stopped' = stopped
      /\ panicked' = panicked /\ fatal' = fatal
  BY DEF ReaderMoves, WriterUnchanged, listVars, slotVars, writerVars, disposerVars
<1>2. TypeOK' BY <1>0, <1>1 DEF TypeOK, ReaderMoves
<1>3. RingShape' BY <1>0, <1>1, SameShape
<1>4. ReadersPlaced'
  <2>1. \A q \in Readers : Placed(q) BY <1>0 DEF ReadersPlaced, Placed
  <2>2. ASSUME NEW q \in Readers, q # r PROVE Placed(q)'
    <3>1. reader'[q] = reader[q] /\ \A s \in Slots : q \in rlocked'[s] <=> q \in rlocked[s]
      BY <2>2 DEF ReaderMoves
    <3> QED BY <1>1, <2>1, <3>1 DEF Placed, Holding
  <2>3. \A q \in Readers : Placed(q)' BY <2>2 DEF ReaderMoves
  <2> QED BY <2>3 DEF ReadersPlaced, Placed
<1>5. Garbage \subseteq Garbage'
  <2> SUFFICES ASSUME NEW s \in Garbage PROVE s \in Garbage' OBVIOUS
  <2>1. /\ s \in Slots /\ s \notin Elems(ring) /\ s \notin Elems(pool) /\ s \notin Elems(idrs)
        /\ s # lastValue /\ s # completed
        /\ \A q \in Readers : reader[q].slot # s /\ reader[q].target # s
    BY DEF Garbage
  <2>2. reader'[r].slot # s /\ reader'[r].target # s BY <2>1 DEF ReaderMoves
  <2>3. \A q \in Readers : reader'[q].slot # s /\ reader'[q].target # s
    BY <2>1, <2>2 DEF ReaderMoves
  <2> QED BY <1>1, <2>1, <2>3 DEF Garbage
<1>6. NodesLeft'
  <2>1. Garbage' \subseteq Slots BY DEF Garbage
  <2>2. Cardinality(Garbage) \in Nat /\ Cardinality(Garbage') \in Nat
        /\ Cardinality(Garbage) <= Cardinality(Garbage')
    BY <1>5, <2>1, Monotone
  <2>3. Len(pool) \in Nat /\ Len(pool') = Len(pool) BY <1>0, <1>1, ElemsOf DEF TypeOK
  <2> QED BY <1>0, <1>1, <2>2, <2>3, BoundsGiven DEF NodesLeft
<1>7. LastPlaced' BY <1>0, <1>1 DEF LastPlaced, LastKnown, LastValueReady, Value, Size
<1> QED BY <1>2, <1>3, <1>4, <1>6, <1>7 DEF RingPart

LEMMA BackInList ==
    ASSUME TypeOK, idrs # <<>>
    PROVE  Back \in Elems(idrs) /\ Back \in Slots /\ HistoryIDR \in Elems(idrs)
<1>1. idrs \in Seq(Slots) /\ Len(idrs) \in Nat /\ Len(idrs) # 0
  BY ElemsOf, EmptySeq DEF TypeOK
<1>2. \A i \in 1 .. Len(idrs) : idrs[i] \in Elems(idrs) BY <1>1, ElemsOf
<1>3. Elems(idrs) \subseteq Slots BY <1>1, ElemsOf
<1>4. Back \in Elems(idrs) BY <1>1, <1>2 DEF Back
<1>5. HistoryIDR \in Elems(idrs)
  <2> DEFINE aged == {i \in DOMAIN idrs : frame[lastValue].ts - frame[idrs[i]].ts >= BufferTime}
  <2>1. HistoryIDR = IF aged = {} THEN Back ELSE idrs[Max(aged)] BY DEF HistoryIDR
  <2>2. aged \subseteq 1 .. Len(idrs) BY <1>1
  <2> HIDE DEF aged
  <2>3. CASE aged = {} BY <1>4, <2>1, <2>3
  <2>4. CASE aged # {}
    <3>1. aged \subseteq 0 .. Len(idrs) BY <1>1, <2>2
    <3>2. Max(aged) \in aged BY <1>1, <2>4, <3>1, MaxIn
    <3> QED BY <1>2, <2>1, <2>2, <2>4, <3>2
  <2> QED BY <2>3, <2>4
<1> QED BY <1>3, <1>4, <1>5

LEMMA SuccInRing ==
    ASSUME NEW q \in Seq(Slots), NEW s \in Elems(q)
    PROVE  Succ(q, s) \in Elems(q)
<1>1. Len(q) \in Nat /\ \A i \in 1 .. Len(q) : q[i] \in Elems(q) BY ElemsOf
<1>2. PICK i : i = CHOOSE j \in DOMAIN q : q[j] = s OBVIOUS
<1>3. i \in 1 .. Len(q)
  <2>1. \E j \in DOMAIN q : q[j] = s BY DEF Elems
  <2>2. i \in DOMAIN q BY <1>2, <2>1
  <2> QED BY <2>2
<1>4. i \in Nat /\ Len(q) \in Nat \ {0} BY <1>1, <1>3
<1>5. i % Len(q) \in 0 .. Len(q) - 1 BY <1>4, Modulo
<1>6. (i % Len(q)) + 1 \in 1 .. Len(q) BY <1>4, <1>5
<1>7. Succ(q, s) = q[(i % Len(q)) + 1] BY <1>2 DEF Succ
<1> QED BY <1>1, <1>6, <1>7

LEMMA NextOfInUse ==
    ASSUME TypeOK, RingShape, NEW s \in Slots
    PROVE  /\ NextOf(s) \in Slots
           /\ NextOf(s) = s \/ NextOf(s) \in (Elems(ring) \cup Elems(pool)) \cup Elems(idrs)
<1>1. ring \in Seq(Slots) /\ pool \in Seq(Slots) BY DEF TypeOK
<1>2. Elems(ring) \subseteq Slots /\ Elems(pool) \subseteq Slots BY <1>1, ElemsOf
<1>3. CASE s \in Elems(ring) /\ NextOf(s) = Succ(ring, s)
  <2>1. Succ(ring, s) \in Elems(ring) BY <1>1, <1>3, SuccInRing
  <2> QED BY <1>2, <1>3, <2>1
<1>4. CASE s \in Elems(pool) /\ NextOf(s) = Succ(pool, s)
  <2>1. Succ(pool, s) \in Elems(pool) BY <1>1, <1>4, SuccInRing
  <2> QED BY <1>2, <1>4, <2>1
<1>5. CASE NextOf(s) = s BY <1>5
<1>6. \/ s \in Elems(ring) /\ NextOf(s) = Succ(ring, s)
      \/ s \in Elems(pool) /\ NextOf(s) = Succ(pool, s)
      \/ NextOf(s) = s
  <2>0. ~(s \in Elems(ring) /\ s \in Elems(pool)) BY DEF RingShape
  <2>1. CASE s \in Elems(ring) /\ ~(s \in Elems(pool)) BY <2>1 DEF NextOf
  <2>2. CASE ~(s \in Elems(ring)) /\ s \in Elems(pool) BY <2>2 DEF NextOf
  <2>3. CASE ~(s \in Elems(ring)) /\ ~(s \in Elems(pool)) BY <2>3 DEF NextOf
  <2> QED BY <2>0, <2>1, <2>2, <2>3
<1> QED BY <1>3, <1>4, <1>5, <1>6

(* A step that changes neither rlocked nor the slot of its reader. *)
LEMMA OnlyRecord ==
    ASSUME RingInv, NEW r \in Readers, WriterUnchanged, rlocked' = rlocked,
           NEW x \in Reader, reader' = [reader EXCEPT ![r] = x],
           x.slot \in {reader[r].slot, reader[r].target},
           \/ x.target \in {reader[r].slot, reader[r].target}
           \/ x.target \in (Elems(ring) \cup Elems(pool)) \cup Elems(idrs),
           x.pc # "init" => x.target \in Slots,
           x.pc \notin {"init", "check"} => x.slot \in Slots,
           \/ x.pc \notin Holding /\ reader[r].pc \notin Holding
           \/ x.pc \in Holding /\ reader[r].pc \in Holding /\ x.slot = reader[r].slot,
           x.pc \in {"hold", "stop"} => x.slot \notin wlocked
    PROVE  ReaderMoves(r)
<1>0. TypeOK /\ ReadersPlaced BY DEF RingInv
<1>1. wlocked' = wlocked BY DEF WriterUnchanged
<1>2. /\ reader \in [Readers -> Reader] /\ reader' \in [Readers -> Reader] /\ reader'[r] = x
      /\ \A q \in Readers : q # r => reader'[q] = reader[q]
  BY <1>0 DEF TypeOK
<1>3. \A s \in Slots : r \in rlocked[s] <=> reader[r].slot = s /\ reader[r].pc \in Holding
  BY <1>0 DEF ReadersPlaced
<1>4. \A s \in Slots : r \in rlocked'[s] <=> x.slot = s /\ x.pc \in Holding BY <1>3
<1>5. Placed(r)' BY <1>1, <1>2, <1>4 DEF Placed, Holding
<1>6. rlocked' \in [Slots -> SUBSET Readers] BY <1>0 DEF TypeOK
<1>7. \A q \in Readers, s \in Slots : q # r => (q \in rlocked'[s] <=> q \in rlocked[s]) OBVIOUS
<1> QED BY <1>2, <1>5, <1>6, <1>7 DEF ReaderMoves

LEMMA ReaderTyped ==
    ASSUME RingInv, NEW r \in Readers
    PROVE  /\ reader[r] \in Reader /\ Placed(r)
           /\ reader[r].slot \in Slots => frame[reader[r].slot].seq \in Nat
<1>0. TypeOK /\ ReadersPlaced BY DEF RingInv
<1>1. reader[r] \in Reader BY <1>0 DEF TypeOK
<1>2. Placed(r) BY <1>0 DEF ReadersPlaced, Placed
<1>3. ASSUME reader[r].slot \in Slots PROVE frame[reader[r].slot].seq \in Nat
  <2>1. PICK f \in Frame : f = frame[reader[r].slot] BY <1>0, <1>3 DEF TypeOK
  <2>2. f.seq \in Nat BY BoundsGiven DEF Frame
  <2> QED BY <2>1, <2>2
<1> QED BY <1>1, <1>2, <1>3

LEMMA InitReadMoves ==
    ASSUME RingInv, NEW r \in Readers, InitRead(r) PROVE ReaderMoves(r)
<1>0. TypeOK /\ RingShape /\ reader[r] \in Reader BY ReaderTyped DEF RingInv
<1>1. PICK start : start = CASE reader[r].mode = "WAITKEY" \/ idrs = <<>> -> Value
                             [] reader[r].mode = "BUFFER" /\ idrs # <<>>  -> HistoryIDR
                             [] OTHER                                     -> Back
  OBVIOUS
<1>2. PICK state : state = CASE reader[r].mode = "REAL" /\ idrs # <<>> -> "FIRST"
                             [] reader[r].mode = "WAITKEY" /\ ~(idrs # <<>> /\ Value = Back)
                                  -> "WAITKEY"
                             [] OTHER -> "NORMAL"
  OBVIOUS
<1>3. /\ reader[r].pc = "init" /\ WriterUnchanged /\ rlocked' = rlocked
      /\ reader' = [reader EXCEPT ![r].pc = "check", ![r].target = start,
                                  ![r].state = state, ![r].direct = TRUE]
  BY <1>1, <1>2, Zenon DEF InitRead
<1>4. start \in Slots /\ start \in (Elems(ring) \cup Elems(pool)) \cup Elems(idrs)
  <2>1. start = Value \/ (idrs # <<>> /\ (start = HistoryIDR \/ start = Back))
    <3>1. CASE idrs = <<>> BY <1>1, <3>1
    <3>2. CASE ~(idrs = <<>>) /\ reader[r].mode = "WAITKEY" BY <1>1, <3>2
    <3>3. CASE ~(idrs = <<>>) /\ reader[r].mode = "BUFFER" BY <1>1, <3>3
    <3>4. CASE ~(idrs = <<>>) /\ ~(reader[r].mode = "WAITKEY") /\ ~(reader[r].mode = "BUFFER")
      BY <1>1, <3>4
    <3> QED BY <3>1, <3>2, <3>3, <3>4
  <2>2. Value \in Elems(ring) /\ Value \in Slots BY <1>0, RingFacts DEF Value
  <2>3. Elems(idrs) \subseteq Slots BY <1>0, ElemsOf DEF TypeOK
  <2>4. idrs # <<>> => Back \in Elems(idrs) /\ HistoryIDR \in Elems(idrs) BY <1>0, BackInList
  <2> QED BY <2>1, <2>2, <2>3, <2>4
<1>5. state \in {"FIRST", "WAITKEY", "NORMAL"} BY <1>2, Zenon
<1>6. PICK x : x = [reader[r] EXCEPT !.pc = "check", !.target = start, !.state = state,
                                     !.direct = TRUE]
  OBVIOUS
<1>7. reader' = [reader EXCEPT ![r] = x] BY <1>0, <1>3, <1>6, Zenon DEF TypeOK
<1>8. /\ x \in Reader /\ x.pc = "check" /\ x.target = start /\ x.slot = reader[r].slot
  BY <1>0, <1>4, <1>5, <1>6 DEF Reader
<1> QED BY <1>3, <1>4, <1>7, <1>8, OnlyRecord DEF Holding

LEMMA StartReadCheckMoves ==
    ASSUME RingInv, NEW r \in Readers, StartReadCheck(r) PROVE ReaderMoves(r)
<1>0. TypeOK /\ reader[r] \in Reader /\ Placed(r) BY ReaderTyped DEF RingInv
<1>1. PICK pc \in {"done", "lock"} : pc = IF discard[reader[r].target] THEN "done" ELSE "lock"
  OBVIOUS
<1>2. /\ reader[r].pc = "check" /\ WriterUnchanged /\ rlocked' = rlocked
      /\ reader' = [reader EXCEPT ![r].slot = reader[r].target, ![r].pc = pc]
  BY <1>1, Zenon DEF StartReadCheck
<1>3. PICK x : x = [reader[r] EXCEPT !.slot = reader[r].target, !.pc = pc] OBVIOUS
<1>4. reader' = [reader EXCEPT ![r] = x] BY <1>0, <1>2, <1>3, Zenon DEF TypeOK
<1>5. reader[r].target \in Slots BY <1>0, <1>2 DEF Placed
<1>6. x \in Reader /\ x.pc = pc /\ x.slot = reader[r].target /\ x.target = reader[r].target
  BY <1>0, <1>1, <1>3, <1>5 DEF Reader
<1> QED BY <1>1, <1>2, <1>4, <1>5, <1>6, OnlyRecord DEF Holding

LEMMA AcquireMoves ==
    ASSUME RingInv, NEW r \in Readers, Acquire(r) PROVE ReaderMoves(r)
<1>0. TypeOK /\ reader[r] \in Reader /\ Placed(r) BY ReaderTyped DEF RingInv
<1>1. /\ reader[r].pc = "blocked" /\ reader[r].slot \notin wlocked /\ WriterUnchanged
      /\ rlocked' = rlocked
  BY DEF Acquire
<1>2. reader[r].slot \in Slots /\ reader[r].target \in Slots BY <1>0, <1>1 DEF Placed
<1>3. PICK n \in Nat : n = frame[reader[r].slot].seq BY <1>2, ReaderTyped
<1>4. CASE /\ \E jumpThreshold : TooSlow(r, frame[reader[r].slot], jumpThreshold)
           /\ reader' = [reader EXCEPT ![r].pc = "stop", ![r].target = Back, ![r].direct = TRUE]
  <2>1. PICK x : x = [reader[r] EXCEPT !.pc = "stop", !.target = Back, !.direct = TRUE] OBVIOUS
  <2>2. reader' = [reader EXCEPT ![r] = x] BY <1>0, <1>4, <2>1, Zenon DEF TypeOK
  <2>3. Back \in Elems(idrs) /\ Back \in Slots BY <1>0, <1>4, BackInList DEF TooSlow
  <2>4. x \in Reader /\ x.pc = "stop" /\ x.target = Back /\ x.slot = reader[r].slot
    BY <1>0, <2>1, <2>3 DEF Reader
  <2> QED BY <1>1, <1>2, <2>2, <2>3, <2>4, OnlyRecord DEF Holding
<1>5. CASE reader' = [reader EXCEPT ![r].pc = "hold"]
  <2>1. PICK x : x = [reader[r] EXCEPT !.pc = "hold"] OBVIOUS
  <2>2. reader' = [reader EXCEPT ![r] = x] BY <1>0, <1>5, <2>1, Zenon DEF TypeOK
  <2>3. x \in Reader /\ x.pc = "hold" /\ x.target = reader[r].target /\ x.slot = reader[r].slot
    BY <1>0, <2>1 DEF Reader
  <2> QED BY <1>1, <1>2, <2>2, <2>3, OnlyRecord DEF Holding
<1>6. CASE reader' = [reader EXCEPT ![r].pc = "hold", ![r].last = frame[reader[r].slot].seq,
                 ![r].firstSeq = IF reader[r].last = -1 THEN frame[reader[r].slot].seq ELSE @,
                 ![r].state = IF @ = "WAITKEY" /\ ~(reader[r].last = -1) THEN "NORMAL" ELSE @]
  <2>1. PICK fs \in Nat : fs = IF reader[r].last = -1 THEN n ELSE reader[r].firstSeq
    BY <1>0, <1>3 DEF Reader
  <2>2. PICK st \in {"INIT", "FIRST", "NORMAL", "WAITKEY"} :
              st = IF reader[r].state = "WAITKEY" /\ ~(reader[r].last = -1) THEN "NORMAL"
                   ELSE reader[r].state
    BY <1>0 DEF Reader
  <2>3. PICK x : x = [reader[r] EXCEPT !.pc = "hold", !.last = n, !.firstSeq = fs, !.state = st]
    OBVIOUS
  <2>4. reader' = [reader EXCEPT ![r] = x]
    BY <1>0, <1>3, <1>6, <2>1, <2>2, <2>3, Zenon DEF TypeOK
  <2>5. x \in Reader /\ x.pc = "hold" /\ x.target = reader[r].target /\ x.slot = reader[r].slot
    BY <1>0, <2>3 DEF Reader
  <2> QED BY <1>1, <1>2, <2>4, <2>5, OnlyRecord DEF Holding
<1> QED BY <1>4, <1>5, <1>6 DEF Acquire

LEMMA NextFrameMoves ==
    ASSUME RingInv, NEW r \in Readers, NextFrame(r) PROVE ReaderMoves(r)
<1>0. TypeOK /\ RingShape /\ reader[r] \in Reader /\ Placed(r) BY ReaderTyped DEF RingInv
<1>1. /\ reader[r].pc = "hold" /\ WriterUnchanged /\ rlocked' = rlocked BY DEF NextFrame
<1>2. reader[r].slot \in Slots /\ reader[r].target \in Slots /\ reader[r].slot \notin wlocked
  BY <1>0, <1>1 DEF Placed
<1>3. PICK catchUp \in BOOLEAN :
         catchUp = (reader[r].state = "FIRST" /\ idrs # <<>>
                    /\ frame[Back].seq # reader[r].firstSeq)
  OBVIOUS
<1>4. PICK t : t = IF catchUp THEN Back ELSE NextOf(reader[r].slot) OBVIOUS
<1>5. PICK st \in {"INIT", "FIRST", "NORMAL", "WAITKEY"} :
            st = IF catchUp THEN "NORMAL" ELSE reader[r].state
  BY <1>0 DEF Reader
<1>6. reader' = [reader EXCEPT ![r].pc = "stop", ![r].target = t, ![r].direct = catchUp,
                               ![r].state = IF catchUp THEN "NORMAL" ELSE @]
  BY <1>3, <1>4, Zenon DEF NextFrame
<1>7. PICK x : x = [reader[r] EXCEPT !.pc = "stop", !.target = t, !.direct = catchUp,
                                     !.state = st]
  OBVIOUS
<1>8. reader' = [reader EXCEPT ![r] = x] BY <1>0, <1>5, <1>6, <1>7, Zenon DEF TypeOK
<1>9. /\ t \in Slots
      /\ t = reader[r].slot \/ t \in (Elems(ring) \cup Elems(pool)) \cup Elems(idrs)
  <2>1. CASE catchUp
    <3>1. Back \in Elems(idrs) /\ Back \in Slots BY <1>0, <1>3, <2>1, BackInList
    <3> QED BY <1>4, <2>1, <3>1
  <2>2. CASE ~catchUp BY <1>0, <1>2, <1>4, <2>2, NextOfInUse
  <2> QED BY <2>1, <2>2
<1>10. x \in Reader /\ x.pc = "stop" /\ x.target = t /\ x.slot = reader[r].slot
  <2>1. CASE catchUp = TRUE BY <1>0, <1>5, <1>7, <1>9, <2>1 DEF Reader
  <2>2. CASE catchUp = FALSE BY <1>0, <1>5, <1>7, <1>9, <2>2 DEF Reader
  <2> QED BY <1>3, <2>1, <2>2
<1> QED BY <1>1, <1>2, <1>8, <1>9, <1>10, OnlyRecord DEF Holding

(* A step that changes the reader's RLock. *)
LEMMA RecordAndLock ==
    ASSUME RingInv, NEW r \in Readers, WriterUnchanged,
           NEW x \in Reader, reader' = [reader EXCEPT ![r] = x],
           x.slot \in {reader[r].slot, reader[r].target}, x.target = reader[r].target,
           x.target \in Slots, x.slot \in Slots, reader[r].slot \in Slots,
           NEW S \in SUBSET Readers, rlocked' = [rlocked EXCEPT ![reader[r].slot] = S],
           \A q \in Readers : q # r => (q \in S <=> q \in rlocked[reader[r].slot]),
           x.pc \notin {"hold", "stop"},
           \/ x.pc = "blocked" /\ x.slot = reader[r].slot /\ r \in S
           \/ x.pc # "blocked" /\ r \notin S
    PROVE  ReaderMoves(r)
<1>0. TypeOK /\ ReadersPlaced BY DEF RingInv
<1>2. /\ reader \in [Readers -> Reader] /\ reader' \in [Readers -> Reader] /\ reader'[r] = x
      /\ \A q \in Readers : q # r => reader'[q] = reader[q]
  BY <1>0 DEF TypeOK
<1>3. \A s \in Slots : r \in rlocked[s] <=> reader[r].slot = s /\ reader[r].pc \in Holding
  BY <1>0 DEF ReadersPlaced
<1>4. /\ rlocked \in [Slots -> SUBSET Readers]
      /\ rlocked' \in [Slots -> SUBSET Readers]
      /\ rlocked'[reader[r].slot] = S
      /\ \A s \in Slots : s # reader[r].slot => rlocked'[s] = rlocked[s]
  BY <1>0 DEF TypeOK
<1>5. \A s \in Slots : r \in rlocked'[s] <=> x.slot = s /\ x.pc = "blocked"
  <2> SUFFICES ASSUME NEW s \in Slots
               PROVE  r \in rlocked'[s] <=> x.slot = s /\ x.pc = "blocked"
    OBVIOUS
  <2>1. CASE s = reader[r].slot BY <1>4, <2>1
  <2>2. CASE s # reader[r].slot BY <1>3, <1>4, <2>2
  <2> QED BY <2>1, <2>2
<1>6. Placed(r)' BY <1>2, <1>5 DEF Placed, Holding
<1>7. \A q \in Readers, s \in Slots : q # r => (q \in rlocked'[s] <=> q \in rlocked[s])
  BY <1>4
<1> QED BY <1>2, <1>4, <1>6, <1>7 DEF ReaderMoves

LEMMA StartReadLockMoves ==
    ASSUME RingInv, NEW r \in Readers, StartReadLock(r) PROVE ReaderMoves(r)
<1>0. TypeOK /\ reader[r] \in Reader /\ Placed(r) BY ReaderTyped DEF RingInv
<1>1. reader[r].pc = "lock" /\ WriterUnchanged BY DEF StartReadLock
<1>2. PICK x : x = [reader[r] EXCEPT !.pc = "blocked"] OBVIOUS
<1>3. reader' = [reader EXCEPT ![r] = x] BY <1>0, <1>2, Zenon DEF TypeOK, StartReadLock
<1>4. reader[r].slot \in Slots /\ reader[r].target \in Slots BY <1>0, <1>1 DEF Placed
<1>5. x \in Reader /\ x.pc = "blocked" /\ x.slot = reader[r].slot /\ x.target = reader[r].target
  BY <1>0, <1>2 DEF Reader
<1>6. PICK S : S = rlocked[reader[r].slot] \cup {r} OBVIOUS
<1>7. S \in SUBSET Readers /\ \A q \in Readers : q # r => (q \in S <=> q \in rlocked[reader[r].slot])
  BY <1>0, <1>4, <1>6 DEF TypeOK
<1>8. rlocked' = [rlocked EXCEPT ![reader[r].slot] = S] BY <1>6, Zenon DEF StartReadLock
<1>9. r \in S BY <1>6
<1> QED BY <1>1, <1>3, <1>4, <1>5, <1>7, <1>8, <1>9, RecordAndLock

LEMMA StopReadMoves ==
    ASSUME RingInv, NEW r \in Readers, StopRead(r) PROVE ReaderMoves(r)
<1>0. TypeOK /\ reader[r] \in Reader /\ Placed(r) BY ReaderTyped DEF RingInv
<1>1. reader[r].pc = "stop" /\ WriterUnchanged BY DEF StopRead
<1>2. PICK pc \in {"done", "lock"} : pc = IF discard[reader[r].target] THEN "done" ELSE "lock"
  OBVIOUS
<1>3. PICK x : x = [reader[r] EXCEPT !.slot = reader[r].target, !.pc = pc] OBVIOUS
<1>10. reader' = [reader EXCEPT ![r].slot = reader[r].target, ![r].pc = pc]
  BY <1>2, Zenon DEF StopRead
<1>11. reader' = [reader EXCEPT ![r] = x] BY <1>0, <1>3, <1>10, Zenon DEF TypeOK
<1>4. reader[r].slot \in Slots /\ reader[r].target \in Slots BY <1>0, <1>1 DEF Placed
<1>5. x \in Reader /\ x.pc = pc /\ x.slot = reader[r].target /\ x.target = reader[r].target
  BY <1>0, <1>2, <1>3, <1>4 DEF Reader
<1>6. PICK S : S = rlocked[reader[r].slot] \ {r} OBVIOUS
<1>7. S \in SUBSET Readers /\ \A q \in Readers : q # r => (q \in S <=> q \in rlocked[reader[r].slot])
  BY <1>0, <1>4, <1>6 DEF TypeOK
<1>8. rlocked' = [rlocked EXCEPT ![reader[r].slot] = S] BY <1>6, Zenon DEF StopRead
<1>9. r \notin S BY <1>6
<1> QED BY <1>1, <1>2, <1>11, <1>4, <1>5, <1>7, <1>8, <1>9, RecordAndLock

LEMMA LeaveMoves ==
    ASSUME RingInv, NEW r \in Readers, Leave(r) PROVE ReaderMoves(r)
<1>0. TypeOK /\ reader[r] \in Reader /\ Placed(r) BY ReaderTyped DEF RingInv
<1>1. reader[r].pc = "hold" /\ WriterUnchanged BY DEF Leave
<1>2. PICK x : x = [reader[r] EXCEPT !.pc = "done"] OBVIOUS
<1>3. reader' = [reader EXCEPT ![r] = x] BY <1>0, <1>2, Zenon DEF TypeOK, Leave
<1>4. reader[r].slot \in Slots /\ reader[r].target \in Slots BY <1>0, <1>1 DEF Placed
<1>5. x \in Reader /\ x.pc = "done" /\ x.slot = reader[r].slot /\ x.target = reader[r].target
  BY <1>0, <1>2 DEF Reader
<1>6. PICK S : S = rlocked[reader[r].slot] \ {r} OBVIOUS
<1>7. S \in SUBSET Readers /\ \A q \in Readers : q # r => (q \in S <=> q \in rlocked[reader[r].slot])
  BY <1>0, <1>4, <1>6 DEF TypeOK
<1>8. rlocked' = [rlocked EXCEPT ![reader[r].slot] = S] BY <1>6, Zenon DEF Leave
<1>9. r \notin S BY <1>6
<1> QED BY <1>1, <1>3, <1>4, <1>5, <1>7, <1>8, <1>9, RecordAndLock

LEMMA ReaderKeeps ==
    ASSUME RingInv, NEW r \in Readers, ReaderStep(r) \/ Leave(r) PROVE RingPart'
<1>1. ReaderMoves(r)
  BY InitReadMoves, StartReadCheckMoves, StartReadLockMoves, AcquireMoves, NextFrameMoves,
     StopReadMoves, LeaveMoves DEF ReaderStep
<1> QED BY <1>1, ReaderMovesKeep

(***************************************************************************)
(* Everything of RingInv but the locks is kept by every step.              *)
(***************************************************************************)
LEMMA RingPartKept ==
    ASSUME RingInv, Next PROVE RingPart'
BY FillKeeps, ResizeKeeps, EnterKeeps, ClaimKeeps, RefillKeeps, EndOfStepKeeps, ReadyKeeps,
   DisposerKeeps, ReaderKeeps DEF Next, WriterStep

LEMMA StutterKeeps == RingInv /\ UNCHANGED vars => RingInv'
<1> SUFFICES ASSUME RingInv, UNCHANGED vars PROVE RingInv' OBVIOUS
<1>1. /\ ring' = ring /\ pool' = pool /\ idrs' = idrs /\ reduceVol' = reduceVol
      /\ buffered' = buffered /\ frame' = frame /\ discard' = discard /\ wlocked' = wlocked
      /\ rlocked' = rlocked /\ status' = status /\ writer' = writer /\ completed' = completed
      /\ lastValue' = lastValue /\ disposer' = disposer /\ stopped' = stopped
      /\ panicked' = panicked /\ fatal' = fatal /\ reader' = reader
  BY DEF vars, listVars, slotVars, lockVars, writerVars, disposerVars
<1>2. TypeOK' BY <1>1 DEF RingInv, TypeOK
<1>3. RingShape' BY <1>1, SameShape DEF RingInv
<1>4. ReadersPlaced' BY <1>1 DEF RingInv, ReadersPlaced, Holding
<1>5. Garbage' = Garbage BY <1>1 DEF Garbage, Elems
<1>6. NodesLeft' BY <1>1, <1>5 DEF RingInv, NodesLeft
<1>7. LastPlaced' BY <1>1 DEF RingInv, LastPlaced, LastKnown, LastValueReady, Value, Size
<1>8. LocksKept'
  BY <1>1 DEF RingInv, LocksKept, Lock!LockInv, Lock!TypeOK, Lock!StepUnderWay, Lock!BetweenSteps,
              Lock!CompletedApart, Lock!Alive, Value
<1> QED BY <1>2, <1>3, <1>4, <1>6, <1>7, <1>8 DEF RingInv

-------------------------------------------------------------------------------
(***************************************************************************)
(* The locks.  Every step of the ring that does not panic is a step of     *)
(* RingLock or leaves the locks alone, and RingLock keeps LockInv.         *)
(***************************************************************************)
LEMMA LockWriterKeeps == Lock!LockInv /\ Lock!WriterStep => Lock!LockInv'
<1> SUFFICES ASSUME Lock!LockInv, Lock!WriterStep PROVE Lock!LockInv'
  OBVIOUS
<1> USE DEF Lock!LockInv, Lock!TypeOK, Lock!StepUnderWay, Lock!BetweenSteps,
            Lock!CompletedApart, Lock!Alive, Lock!WriterPC, Lock!DisposerPC
<1>1. CASE Lock!Fill BY <1>1 DEF Lock!Fill
<1>2. CASE Lock!Enter BY <1>2 DEF Lock!Enter
<1>3. ASSUME NEW s \in Slots, Lock!Claim(s) PROVE Lock!LockInv' BY <1>3 DEF Lock!Claim
<1>4. CASE Lock!Exit BY <1>4 DEF Lock!Exit
<1>5. CASE Lock!ReleaseCompleted BY <1>5 DEF Lock!ReleaseCompleted, Lock!Unlock
<1>6. CASE Lock!UnlockBoth BY <1>6 DEF Lock!UnlockBoth, Lock!Unlock
<1>7. CASE Lock!UnlockValue BY <1>7 DEF Lock!UnlockValue, Lock!Unlock
<1> QED BY <1>1, <1>2, <1>3, <1>4, <1>5, <1>6, <1>7 DEF Lock!WriterStep

LEMMA LockDisposerKeeps ==
    Lock!LockInv /\ (Lock!Stop \/ Lock!Dispose \/ Lock!DisposeUnlock) => Lock!LockInv'
<1> SUFFICES ASSUME Lock!LockInv, Lock!Stop \/ Lock!Dispose \/ Lock!DisposeUnlock
             PROVE  Lock!LockInv'
  OBVIOUS
<1> USE DEF Lock!LockInv, Lock!TypeOK, Lock!StepUnderWay, Lock!BetweenSteps,
            Lock!CompletedApart, Lock!Alive, Lock!WriterPC, Lock!DisposerPC
<1>1. CASE Lock!Stop BY <1>1 DEF Lock!Stop
<1>2. CASE Lock!Dispose BY <1>2 DEF Lock!Dispose
<1>3. CASE Lock!DisposeUnlock BY <1>3 DEF Lock!DisposeUnlock, Lock!Unlock
<1> QED BY <1>1, <1>2, <1>3

LEMMA LockReaderKeeps ==
    ASSUME NEW r \in Readers, NEW s \in Slots, Lock!LockInv, Lock!RLock(r, s) \/ Lock!RUnlock(r, s)
    PROVE  Lock!LockInv'
BY DEF Lock!LockInv, Lock!TypeOK, Lock!StepUnderWay, Lock!BetweenSteps, Lock!CompletedApart,
       Lock!Alive, Lock!WriterPC, Lock!DisposerPC, Lock!RLock, Lock!RUnlock

LEMMA LockStutterKeeps == Lock!LockInv /\ UNCHANGED Lock!vars => Lock!LockInv'
BY DEF Lock!LockInv, Lock!TypeOK, Lock!StepUnderWay, Lock!BetweenSteps, Lock!CompletedApart,
       Lock!Alive, Lock!WriterPC, Lock!DisposerPC, Lock!vars

LEMMA LockInvKept == Lock!LockInv /\ [Lock!Next]_(Lock!vars) => Lock!LockInv'
BY LockWriterKeeps, LockDisposerKeeps, LockReaderKeeps, LockStutterKeeps DEF Lock!Next

LEMMA WriterRefines ==
    ASSUME RingInv,
           Fill \/ Enter \/ Exit \/ Ready \/ Publish \/ UnlockBoth \/ UnlockValue
    PROVE  [Lock!Next]_(Lock!vars) /\ panicked' = panicked
<1>2. Value' = Value
  BY DEF Fill, Enter, Exit, Ready, Publish, UnlockBoth, UnlockValue, listVars, Value
<1>3. panicked' = panicked
  BY DEF Fill, Enter, Exit, Ready, Publish, UnlockBoth, UnlockValue
<1> USE <1>2 DEF lockVars, disposerVars
<1>4. CASE Fill
  <2>1. Lock!Fill BY <1>4 DEF Fill, Lock!Fill
  <2> QED BY <1>3, <2>1 DEF Lock!Next, Lock!WriterStep
<1>5. CASE Enter
  <2>1. Lock!Enter BY <1>5 DEF Enter, Lock!Enter
  <2> QED BY <1>3, <2>1 DEF Lock!Next, Lock!WriterStep
<1>6. CASE Exit
  <2>1. Lock!Exit BY <1>6 DEF Exit, Lock!Exit
  <2> QED BY <1>3, <2>1 DEF Lock!Next, Lock!WriterStep
<1>7. CASE Ready
  <2>1. Lock!ReleaseCompleted BY <1>7 DEF Ready, Unlock, Lock!ReleaseCompleted, Lock!Unlock
  <2> QED BY <1>3, <2>1 DEF Lock!Next, Lock!WriterStep
<1>8. CASE Publish
  <2>1. UNCHANGED Lock!vars BY <1>8 DEF Publish, Lock!vars
  <2> QED BY <1>3, <2>1
<1>9. CASE UnlockBoth
  <2>1. writer = "unlockBoth" BY <1>9, LockFacts DEF UnlockBoth
  <2>2. Lock!UnlockBoth BY <1>9, <2>1 DEF UnlockBoth, Unlock, Lock!UnlockBoth, Lock!Unlock
  <2> QED BY <1>3, <2>2 DEF Lock!Next, Lock!WriterStep
<1>10. CASE UnlockValue
  <2>1. Lock!UnlockValue BY <1>10 DEF UnlockValue, Unlock, Lock!UnlockValue, Lock!Unlock
  <2> QED BY <1>3, <2>1 DEF Lock!Next, Lock!WriterStep
<1> QED BY <1>4, <1>5, <1>6, <1>7, <1>8, <1>9, <1>10

LEMMA ResizeRefines ==
    ASSUME RingInv, Resize PROVE UNCHANGED Lock!vars /\ panicked' = panicked
<1>0. TypeOK /\ RingShape /\ NodesLeft BY DEF RingInv
<1>1. /\ writer = "step" /\ writer' = "enter"
      /\ wlocked' = wlocked /\ rlocked' = rlocked /\ status' = status /\ completed' = completed
      /\ disposer' = disposer /\ stopped' = stopped /\ panicked' = panicked /\ fatal' = fatal
  BY DEF Resize, lockVars, disposerVars
<1>2. Len(pool) + Cardinality(Garbage) > Chunk BY <1>0, <1>1 DEF NodesLeft
<1>3. glow(Chunk) \/ (Size > MinSize + Chunk /\ reduce(Chunk)) \/ Keep BY DEF Resize
<1>4. Resized BY <1>0, <1>2, <1>3, GlowResizes, ReduceResizes, KeepResizes
<1>5. Value' = Value BY <1>4 DEF Resized, Value
<1> QED BY <1>1, <1>5 DEF Lock!vars

LEMMA ClaimRefines ==
    ASSUME RingInv, Claim PROVE [Lock!Next]_(Lock!vars) /\ panicked' = panicked
<1>0. TypeOK /\ RingShape BY DEF RingInv
<1>1. ring[2] \in Slots /\ Len(ring) > 1 BY <1>0, RingFacts
<1>2. Value' = ring[2]
  <2>1. PICK t : t = Append(Tail(ring), ring[1]) OBVIOUS
  <2>2. ring \in Seq(Slots) BY <1>0 DEF TypeOK
  <2>3. t[1] = ring[2] BY <1>1, <2>1, <2>2, Rotated, Zenon
  <2> QED BY <2>1, <2>3 DEF Claim, Value
<1>3. Lock!Claim(ring[2]) BY <1>2 DEF Claim, CanStartWrite, Lock!Claim, disposerVars
<1> QED BY <1>1, <1>3 DEF Claim, Lock!Next, Lock!WriterStep

LEMMA RefillRefines ==
    ASSUME RingInv, Refill
    PROVE  /\ writer = "claim" /\ status' = status /\ disposer' = disposer
           /\ panicked' \in BOOLEAN
           /\ ~panicked' => [Lock!Next]_(Lock!vars) /\ writer' # "gone"
           /\ panicked' => writer' = "gone"
<1>0. TypeOK /\ ReadersPlaced BY DEF RingInv
<1>1. PICK node : node = GlowItems(1)[1] OBVIOUS
<1>2. PICK free \in BOOLEAN : free = (pool = <<>> \/ CanStartWrite(node)) OBVIOUS
<1>3. /\ writer = "claim" /\ writer' = (IF free THEN "exit" ELSE "gone") /\ completed' = Value
      /\ wlocked' = (IF free THEN wlocked \cup {node} ELSE wlocked)
      /\ panicked' = ~free
  BY <1>1, <1>2, Zenon DEF Refill
<1>4. /\ rlocked' = rlocked /\ status' = status /\ disposer' = disposer
      /\ stopped' = stopped /\ fatal' = fatal
  BY DEF Refill, disposerVars
<1>5. /\ node \in Slots /\ Value' = node
      /\ pool = <<>> => node \in Garbage
      /\ node \notin Elems(ring)
  BY <1>1, RefillNode DEF Value
<1>6. ASSUME free = TRUE PROVE Lock!Claim(node)
  <2>1. node \notin wlocked /\ rlocked[node] = {}
    <3>1. CASE pool # <<>> BY <1>2, <1>6, <3>1 DEF CanStartWrite
    <3>2. CASE pool = <<>>
      <4>1. node \in Garbage BY <1>5, <3>2
      <4>2. \A r \in Readers : reader[r].slot # node BY <4>1 DEF Garbage
      <4>3. \A r \in Readers : r \notin rlocked[node] BY <1>0, <1>5, <4>2 DEF ReadersPlaced
      <4>4. rlocked[node] = {} BY <1>0, <1>5, <4>3 DEF TypeOK
      <4>5. Lock!LockInv BY <1>3, LockFacts
      <4>6. wlocked = {Value} BY <1>3, <4>5 DEF Lock!LockInv, Lock!StepUnderWay
      <4>7. Value \in Elems(ring)
        <5>1. RingShape BY DEF RingInv
        <5> QED BY <1>0, <5>1, RingFacts DEF Value
      <4> QED BY <1>5, <4>4, <4>6, <4>7
    <3> QED BY <3>1, <3>2
  <2> QED BY <1>3, <1>4, <1>5, <1>6, <2>1 DEF Lock!Claim
<1>7. ASSUME free = TRUE PROVE [Lock!Next]_(Lock!vars)
  BY <1>5, <1>6, <1>7 DEF Lock!Next, Lock!WriterStep
<1> QED BY <1>2, <1>3, <1>4, <1>7

LEMMA DisposerRefines ==
    ASSUME RingInv, Stop \/ DisposerStep
    PROVE  [Lock!Next]_(Lock!vars) /\ panicked' = panicked
<1>2. Value' = Value
  BY DEF DisposerStep, Stop, Dispose, DisposeUnlock, DisposeDiscard, listVars, Value
<1>3. panicked' = panicked BY DEF DisposerStep, Stop, Dispose, DisposeUnlock, DisposeDiscard
<1> USE <1>2 DEF lockVars, writerVars
<1>4. CASE Stop
  <2>1. Lock!Stop BY <1>4 DEF Stop, Lock!Stop
  <2> QED BY <1>3, <2>1 DEF Lock!Next
<1>5. CASE Dispose
  <2>1. Lock!Dispose BY <1>5 DEF Dispose, Lock!Dispose
  <2> QED BY <1>3, <2>1 DEF Lock!Next
<1>6. CASE DisposeUnlock
  <2>1. Lock!DisposeUnlock BY <1>6 DEF DisposeUnlock, Unlock, Lock!DisposeUnlock, Lock!Unlock
  <2> QED BY <1>3, <2>1 DEF Lock!Next
<1>7. CASE DisposeDiscard
  <2>1. UNCHANGED Lock!vars BY <1>7 DEF DisposeDiscard, Lock!vars
  <2> QED BY <1>3, <2>1
<1> QED BY <1>4, <1>5, <1>6, <1>7 DEF DisposerStep

LEMMA ReaderRefines ==
    ASSUME RingInv, NEW r \in Readers, ReaderStep(r) \/ Leave(r)
    PROVE  [Lock!Next]_(Lock!vars) /\ panicked' = panicked
<1>0. Placed(r) BY ReaderTyped
<1>1. WriterUnchanged
  BY DEF ReaderStep, InitRead, StartReadCheck, StartReadLock, Acquire, NextFrame, StopRead, Leave
<1>2. /\ Value' = Value /\ completed' = completed /\ wlocked' = wlocked /\ status' = status
      /\ writer' = writer /\ disposer' = disposer /\ stopped' = stopped /\ fatal' = fatal
      /\ panicked' = panicked
  BY <1>1 DEF WriterUnchanged, listVars, writerVars, disposerVars, Value
<1>3. CASE rlocked' = rlocked BY <1>2, <1>3 DEF Lock!vars
<1>4. CASE StartReadLock(r)
  <2>1. reader[r].slot \in Slots /\ r \notin rlocked[reader[r].slot]
    BY <1>0, <1>4 DEF StartReadLock, Placed, Holding
  <2>2. Lock!RLock(r, reader[r].slot) BY <1>2, <1>4, <2>1 DEF StartReadLock, Lock!RLock
  <2> QED BY <1>2, <2>1, <2>2 DEF Lock!Next
<1>5. CASE StopRead(r) \/ Leave(r)
  <2>1. /\ reader[r].slot \in Slots /\ r \in rlocked[reader[r].slot]
        /\ reader[r].slot \notin wlocked
    BY <1>0, <1>5 DEF StopRead, Leave, Placed, Holding
  <2>2. Lock!RUnlock(r, reader[r].slot) BY <1>2, <1>5, <2>1 DEF StopRead, Leave, Lock!RUnlock
  <2> QED BY <1>2, <2>1, <2>2 DEF Lock!Next
<1> QED BY <1>3, <1>4, <1>5 DEF ReaderStep, InitRead, StartReadCheck, Acquire, NextFrame

(* A step that does not panic is a step of RingLock, or changes none of its variables. *)
LEMMA StepRefines == RingInv /\ [Next]_vars /\ ~panicked' => [Lock!Next]_(Lock!vars)
<1>1. RingInv /\ UNCHANGED vars => UNCHANGED Lock!vars
  BY DEF vars, listVars, lockVars, writerVars, disposerVars, Lock!vars, Value
<1>2. RingInv /\ WriterStep /\ ~panicked' => [Lock!Next]_(Lock!vars)
  BY WriterRefines, ResizeRefines, ClaimRefines, RefillRefines DEF WriterStep
<1>3. RingInv /\ (Stop \/ DisposerStep) => [Lock!Next]_(Lock!vars) BY DisposerRefines
<1>4. ASSUME RingInv, NEW r \in Readers, ReaderStep(r) \/ Leave(r)
      PROVE  [Lock!Next]_(Lock!vars)
  BY <1>4, ReaderRefines
<1> QED BY <1>1, <1>2, <1>3, <1>4 DEF Next

(* The part of RingInv that is about the locks. *)
LEMMA LocksPartKept ==
    ASSUME RingInv, Next PROVE LocksKept'
<1>0. TypeOK /\ LocksKept BY DEF RingInv
<1>1. Lock!LockInv' \/ panicked'
  <2>1. CASE panicked
    <3>1. panicked'
      BY <1>0, <2>1, WriterRefines, DisposerRefines, ReaderRefines, ResizeRefines, ClaimRefines,
         LockFacts, RefillRefines DEF Next, WriterStep
    <3> QED BY <3>1
  <2>2. CASE ~panicked
    <3>1. Lock!LockInv BY <1>0, <2>2 DEF LocksKept
    <3> QED BY <3>1, StepRefines, LockInvKept
  <2> QED BY <2>1, <2>2
<1>2. CASE Fill \/ Enter \/ Exit \/ Ready \/ Publish \/ UnlockBoth \/ UnlockValue
  <2>1. panicked' = panicked BY <1>2, WriterRefines
  <2>2. writer # "gone" /\ ~panicked
    <3>1. writer # "gone"
      BY <1>2 DEF Fill, Enter, Exit, Ready, Publish, UnlockBoth, UnlockValue
    <3> QED BY <3>1, LockFacts
  <2>3. ASSUME writer' = "gone" PROVE status' \in -1 .. 1
    <3>1. CASE Fill
      <4>1. writer = "fill" /\ status' = status BY <3>1 DEF Fill
      <4> QED BY <4>1, LockFacts
    <3>2. CASE Enter
      <4>1. writer = "enter" /\ status' = status + 1 BY <3>2 DEF Enter
      <4>2. status = 0 \/ status = -1 BY <4>1, LockFacts
      <4> QED BY <4>1, <4>2
    <3>3. ~(Exit \/ Ready \/ Publish \/ UnlockBoth \/ UnlockValue)
      BY <2>3 DEF Exit, Ready, Publish, UnlockBoth, UnlockValue
    <3> QED BY <1>2, <3>1, <3>2, <3>3
  <2> QED BY <1>1, <2>1, <2>2, <2>3 DEF LocksKept
<1>3. CASE Resize \/ Claim
  <2>1. panicked' = panicked BY <1>3, ResizeRefines, ClaimRefines
  <2>2. writer # "gone" /\ writer' # "gone" BY <1>3 DEF Resize, Claim
  <2>3. ~panicked BY <2>2, LockFacts
  <2> QED BY <1>1, <2>1, <2>2, <2>3 DEF LocksKept
<1>4. CASE Refill
  <2>1. /\ writer = "claim" /\ status' = status /\ disposer' = disposer
        /\ panicked' \in BOOLEAN
        /\ ~panicked' => writer' # "gone"
        /\ panicked' => writer' = "gone"
    BY <1>4, RefillRefines
  <2>2. status = IF disposer = "idle" THEN 1 ELSE 0 BY <2>1, LockFacts
  <2> QED BY <1>1, <2>1, <2>2 DEF LocksKept
<1>5. CASE Stop \/ DisposerStep
  <2>1. panicked' = panicked /\ writer' = writer
    BY <1>5, DisposerRefines DEF Stop, DisposerStep, Dispose, DisposeUnlock, DisposeDiscard,
                                 writerVars
  <2>2. \/ status' = status /\ (disposer' = "idle" <=> disposer = "idle")
        \/ status' = status - 1 /\ disposer = "idle" /\ disposer' # "idle"
    BY <1>5 DEF Stop, DisposerStep, Dispose, DisposeUnlock, DisposeDiscard, writerVars
  <2>3. writer = "gone" /\ disposer = "idle" => status \in 0 .. 1
    <3>1. CASE panicked BY <1>0, <3>1 DEF LocksKept
    <3>2. CASE ~panicked BY <1>0, <3>2 DEF LocksKept, Lock!LockInv, Lock!BetweenSteps, Lock!Alive
    <3> QED BY <3>1, <3>2
  <2>4. writer' = "gone" => status' \in -1 .. 1 BY <1>0, <2>1, <2>2, <2>3 DEF LocksKept
  <2>5. panicked' => writer' = "gone" /\ status' = IF disposer' = "idle" THEN 1 ELSE 0
    BY <1>0, <2>1, <2>2 DEF LocksKept
  <2> QED BY <1>1, <2>4, <2>5 DEF LocksKept
<1>6. ASSUME NEW r \in Readers, ReaderStep(r) \/ Leave(r) PROVE LocksKept'
  <2>1. WriterUnchanged
    BY <1>6 DEF ReaderStep, InitRead, StartReadCheck, StartReadLock, Acquire, NextFrame, StopRead,
                Leave
  <2>2. panicked' = panicked /\ writer' = writer /\ status' = status /\ disposer' = disposer
    BY <2>1 DEF WriterUnchanged, writerVars, disposerVars
  <2> QED BY <1>0, <1>1, <2>2 DEF LocksKept
<1> QED BY <1>2, <1>3, <1>4, <1>5, <1>6 DEF Next, WriterStep

LEMMA RingInvKept == RingInv /\ [Next]_vars => RingInv'
<1>1. ASSUME RingInv, Next PROVE RingInv'
  BY <1>1, RingPartKept, LocksPartKept DEF RingInv, RingPart
<1> QED BY <1>1, StutterKeeps

-------------------------------------------------------------------------------
(* NewRingWriter makes a ring of MinSize nodes and locks the first. *)
LEMMA RingInvInit == Init => RingInv /\ Lock!Init
<1> SUFFICES ASSUME Init PROVE RingInv /\ Lock!Init OBVIOUS
<1>1. /\ pool = <<>> /\ frame = [s \in Slots |-> NewNode] /\ discard = [s \in Slots |-> FALSE]
      /\ wlocked = {Value} /\ rlocked = [s \in Slots |-> {}] /\ idrs = <<>> /\ lastValue = Value
      /\ reduceVol = 0 /\ buffered = 0 /\ status = 0 /\ writer = "fill" /\ completed = Value
      /\ disposer = "idle" /\ stopped = FALSE /\ panicked = FALSE /\ fatal = FALSE
  BY DEF Init
<1>2. ring \in [1 .. MinSize -> Slots] /\ \A i, j \in 1 .. MinSize : ring[i] = ring[j] => i = j
  <2>1. MinSize \in Nat /\ IsFiniteSet(Slots) /\ MinSize <= Cardinality(Slots)
    BY MinSizeOK, FS_CardinalityType
  <2>2. \E q \in [1 .. MinSize -> Slots] : \A i, j \in 1 .. MinSize : q[i] = q[j] => i = j
    BY <2>1, DistinctExist
  <2>3. ring = CHOOSE q \in [1 .. MinSize -> Slots] :
                  \A i, j \in 1 .. MinSize : q[i] = q[j] => i = j
    BY DEF Init
  <2> QED BY <2>2, <2>3
<1>3. MinSize \in Nat /\ MinSize > 2 BY MinSizeOK
<1>4. ring \in Seq(Slots) /\ Len(ring) = MinSize BY <1>2, <1>3
<1>5. Value \in Slots BY <1>2, <1>3 DEF Value
<1>6. RingShape
  <2>1. IsInjective(ring) BY <1>2 DEF IsInjective
  <2>2. IsInjective(pool) /\ Elems(pool) = {} BY <1>1, EmptyElems
  <2> QED BY <1>3, <1>4, <2>1, <2>2 DEF RingShape
<1>7. PICK mode \in Modes :
         reader = [r \in Readers |->
                    [mode |-> mode[r], pc |-> "init", state |-> "INIT", slot |-> None,
                     target |-> None, direct |-> FALSE, firstSeq |-> 0, last |-> -1]]
  BY DEF Init
<1>8. \A r \in Readers : mode[r] \in {"REAL", "RECORD", "BUFFER", "WAITKEY"} BY ModesGiven
<1>9. reader \in [Readers -> Reader] BY <1>7, <1>8 DEF Reader
<1>10. \A r \in Readers : reader[r].pc = "init" BY <1>7
<1>11. NewNode \in Frame /\ NewNode.seq = 0 BY BoundsGiven DEF NewNode, Frame
<1>12. TypeOK
  <2>1. pool \in Seq(Slots) /\ idrs \in Seq(Slots) BY <1>1
  <2>2. frame \in [Slots -> Frame] /\ discard \in [Slots -> BOOLEAN] BY <1>1, <1>11
  <2>3. rlocked \in [Slots -> SUBSET Readers] BY <1>1
  <2>4. reduceVol \in 0 .. ReduceVol BY <1>1, BoundsGiven
  <2>5. stopped \in BOOLEAN /\ panicked \in BOOLEAN /\ fatal \in BOOLEAN BY <1>1
  <2> QED BY <1>1, <1>4, <1>5, <1>9, <2>1, <2>2, <2>3, <2>4, <2>5 DEF TypeOK
<1>13. ReadersPlaced BY <1>1, <1>10 DEF ReadersPlaced, Holding
<1>14. NodesLeft BY <1>1 DEF NodesLeft
<1>15. LastPlaced
  <2>1. frame[Value].seq = 0 BY <1>1, <1>5, <1>11
  <2> QED BY <1>1, <2>1 DEF LastPlaced, LastKnown, LastValueReady
<1>16. Lock!Init BY <1>1, <1>5 DEF Lock!Init
<1>17. Lock!LockInv
  <2>1. rlocked \in [Slots -> SUBSET Readers] BY <1>1
  <2>2. stopped \in BOOLEAN /\ fatal \in BOOLEAN BY <1>1
  <2>3. Lock!TypeOK BY <1>1, <1>5, <2>1, <2>2 DEF Lock!TypeOK, Lock!WriterPC, Lock!DisposerPC
  <2> QED BY <1>1, <2>3 DEF Lock!LockInv, Lock!StepUnderWay, Lock!BetweenSteps,
                            Lock!CompletedApart, Lock!Alive
<1>18. LocksKept BY <1>1, <1>17 DEF LocksKept
<1> QED BY <1>6, <1>12, <1>13, <1>14, <1>15, <1>16, <1>18 DEF RingInv

-------------------------------------------------------------------------------
(***************************************************************************)
(* The inductive invariant holds for every ring size, chunk, number of     *)
(* readers and interleaving of Step, Dispose and the readers               *)
(* (ring-writer.go:207-351, ring-reader.go, av_reader.go).                 *)
(***************************************************************************)
THEOREM RingInvariant == Spec => []RingInv
BY RingInvInit, RingInvKept, PTL DEF Spec

(* Type correctness of the media ring (pkg/ring-writer.go, pkg/av_reader.go). *)
THEOREM TypeCorrect == Spec => []TypeOK
<1>1. RingInv => TypeOK BY DEF RingInv
<1> QED BY <1>1, RingInvariant, PTL

(***************************************************************************)
(* glow, reduce and the exchange of a node that a reader is on keep the    *)
(* ring and the pool two disjoint cycles of distinct nodes, the ring never *)
(* shorter than SizeRange[0] (ring-writer.go:75-155, 283-305).             *)
(***************************************************************************)
THEOREM RingKeepsShape == Spec => []RingShape
<1>1. RingInv => RingShape BY DEF RingInv
<1> QED BY <1>1, RingInvariant, PTL

(***************************************************************************)
(* From the second frame on LastValue is a frame that Ready has stamped,   *)
(* whatever the ring does to its nodes (BUG-024, ring-writer.go:265).      *)
(***************************************************************************)
THEOREM LastValueStamped == Spec => []LastValueReady
<1>1. RingInv => LastValueReady BY DEF RingInv, LastPlaced
<1> QED BY <1>1, RingInvariant, PTL

(***************************************************************************)
(* As long as Step does not panic, the ring implements the lock protocol   *)
(* RingLock: Resize, Publish, Discard and the readers' choice of a slot    *)
(* are stutters, an exchanged node is a slot that Step claims.             *)
(***************************************************************************)
THEOREM ImplementsLock == Spec /\ []NoPanic => RefinesLock
<1>1. RingInv /\ [Next]_vars /\ NoPanic' => [Lock!Next]_(Lock!vars)
  BY StepRefines DEF NoPanic
<1> QED BY <1>1, RingInvInit, RingInvariant, PTL DEF Spec, RefinesLock, Lock!Spec

(***************************************************************************)
(* What RingLock promises holds of the ring itself up to a panic: no lock  *)
(* is released twice, none is left behind when writer and Dispose are      *)
(* through, and the node being written is locked while the publisher lives *)
(* (ring-writer.go:158-170, 328-348).                                      *)
(***************************************************************************)
THEOREM LocksSafe ==
    Spec => [](NoPanic => Lock!NoDoubleUnlock /\ Lock!NoOrphanLock /\ Lock!WriterHoldsCur)
<1>1. RingInv => (NoPanic => Lock!NoDoubleUnlock /\ Lock!NoOrphanLock /\ Lock!WriterHoldsCur)
  <2> SUFFICES ASSUME RingInv, NoPanic
               PROVE  Lock!NoDoubleUnlock /\ Lock!NoOrphanLock /\ Lock!WriterHoldsCur
    OBVIOUS
  <2>1. Lock!LockInv BY DEF RingInv, LocksKept, NoPanic
  <2> QED BY <2>1 DEF Lock!LockInv, Lock!NoDoubleUnlock, Lock!NoOrphanLock, Lock!WriterHoldsCur,
                      Lock!StepUnderWay, Lock!BetweenSteps, Lock!TypeOK, Lock!WriterPC,
                      Lock!DisposerPC, Lock!Alive
<1> QED BY <1>1, RingInvariant, PTL

=============================================================================
