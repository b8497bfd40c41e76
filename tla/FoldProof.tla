------------------------------ MODULE FoldProof ------------------------------
(***************************************************************************)
(* Facts about numbers and folds that the other proofs rest on.  A fold over *)
(* a sequence is, in the library, a recursive function on the sets of its    *)
(* places, of which it has to be shown that there is any; induction over     *)
(* the size of a set does it, by a least counterexample.                    *)
(***************************************************************************)
EXTENDS Integers, FiniteSetsExt, TLAPS, FiniteSetTheorems, WellFoundedInduction

LessThan == {p \in Nat \X Nat : p[1] < p[2]}

(* What holds of a number and not of all holds of a least one.              *)
LEMMA LeastNumber ==
    ASSUME NEW S \in SUBSET Nat, S # {}
    PROVE  \E n \in S : \A m \in S : n <= m
<1>1. IsWellFoundedOn(LessThan, Nat)
  BY NatLessThanWellFounded DEF OpToRel, LessThan
<1>2. PICK n \in S : \A m \in S : <<m, n>> \notin LessThan
  BY <1>1, WFMin
<1>3. \A m \in S : ~(m < n)
  BY <1>2 DEF LessThan
<1> QED
  BY <1>3

(* The largest of some of the first n numbers.                              *)
LEMMA LastIs ==
    ASSUME NEW n \in Nat, NEW S \in SUBSET (1 .. n), S # {}
    PROVE  Max(S) \in S /\ \A x \in S : Max(S) >= x
<1> DEFINE R == {n - x : x \in S}
<1>1. R \in SUBSET Nat /\ R # {}
  <2>1. \A x \in S : n - x \in Nat
    OBVIOUS
  <2> QED
    BY <2>1
<1>2. PICK r \in R : \A q \in R : r <= q
  BY <1>1, LeastNumber
<1>3. PICK y \in S : r = n - y
  BY <1>2
<1>4. \A x \in S : y >= x
  BY <1>2, <1>3
<1>5. \E y1 \in S : \A x \in S : y1 >= x
  BY <1>4
<1> QED
  BY <1>5 DEF Max

LEMMA SegmentIs ==
    ASSUME NEW n \in Nat, NEW k \in 1 .. n
    PROVE  /\ 1 .. k \in SUBSET (1 .. n) /\ 1 .. k # {}
           /\ Max(1 .. k) = k /\ (1 .. k) \ {k} = 1 .. k - 1
<1>1. 1 .. k \in SUBSET (1 .. n) /\ k \in 1 .. k
  OBVIOUS
<1>2. Max(1 .. k) \in 1 .. k /\ \A x \in 1 .. k : Max(1 .. k) >= x
  BY <1>1, LastIs
<1>3. Max(1 .. k) = k
  BY <1>1, <1>2
<1> QED
  BY <1>1, <1>3

(* g folds F over the sets of at most m of n places, from base.            *)
FoldsUpTo(g, n, base, F, m) ==
    \A s \in SUBSET (1 .. n) : Cardinality(s) <= m =>
        g[s] = IF s = {} THEN base ELSE F[<<g[s \ {Max(s)}], Max(s)>>]

LEMMA FoldExists ==
    ASSUME NEW n \in Nat, NEW X, NEW base \in X, NEW F \in [X \X (1 .. n) -> X]
    PROVE  \E g \in [SUBSET (1 .. n) -> X] : FoldsUpTo(g, n, base, F, n)
<1> DEFINE Bad == {m \in Nat : \A g \in [SUBSET (1 .. n) -> X] : ~FoldsUpTo(g, n, base, F, m)}
<1>1. /\ \A s \in SUBSET (1 .. n) : IsFiniteSet(s) /\ Cardinality(s) \in Nat
      /\ \A s \in SUBSET (1 .. n) : s # {} =>
            /\ Max(s) \in s /\ Max(s) \in 1 .. n /\ s \ {Max(s)} \in SUBSET (1 .. n)
            /\ Cardinality(s \ {Max(s)}) = Cardinality(s) - 1 /\ Cardinality(s) >= 1
  <2>1. IsFiniteSet(1 .. n)
    BY FS_Interval
  <2>2. \A s \in SUBSET (1 .. n) : IsFiniteSet(s) /\ Cardinality(s) \in Nat
    BY <2>1, FS_Subset, FS_CardinalityType
  <2>3. ASSUME NEW s \in SUBSET (1 .. n), s # {}
        PROVE  /\ Max(s) \in s /\ Max(s) \in 1 .. n /\ s \ {Max(s)} \in SUBSET (1 .. n)
               /\ Cardinality(s \ {Max(s)}) = Cardinality(s) - 1 /\ Cardinality(s) >= 1
    <3>1. Max(s) \in s
      BY <2>3, LastIs
    <3>2. Cardinality(s \ {Max(s)}) = Cardinality(s) - 1
      BY <2>2, <3>1, FS_RemoveElement
    <3>3. Cardinality(s) # 0
      BY <2>2, <2>3, FS_EmptySet
    <3>4. Cardinality(s) >= 1
      <4> DEFINE c == Cardinality(s)
      <4>1. c \in Nat /\ c # 0
        BY <2>2, <3>3
      <4> HIDE DEF c
      <4>2. c >= 1
        BY <4>1
      <4> QED
        BY <4>2 DEF c
    <3>5. Max(s) \in 1 .. n
      BY <3>1
    <3>6. s \ {Max(s)} \in SUBSET (1 .. n)
      OBVIOUS
    <3> QED
      BY <3>1, <3>2, <3>4, <3>5, <3>6
  <2> QED
    BY <2>2, <2>3
<1>2. Bad = {}
  <2> SUFFICES ASSUME Bad # {} PROVE FALSE
    OBVIOUS
  <2>0. Bad \in SUBSET Nat
    OBVIOUS
  <2>1. PICK m \in Bad : \A q \in Bad : m <= q
    <3> HIDE DEF Bad
    <3> QED
      BY <2>0, LeastNumber
  <2>m. m \in Nat
    BY <2>0
  <2> DEFINE j == m - 1
  <2>2. PICK g \in [SUBSET (1 .. n) -> X] : m > 0 => FoldsUpTo(g, n, base, F, j)
    <3>1. CASE m = 0
      <4> DEFINE some == [s \in SUBSET (1 .. n) |-> base]
      <4>1. some \in [SUBSET (1 .. n) -> X]
        OBVIOUS
      <4> HIDE DEF some, j, Bad
      <4>2. m > 0 => FoldsUpTo(some, n, base, F, j)
        BY <3>1
      <4> QED
        BY <4>1, <4>2
    <3>2. CASE m > 0
      <4>1. j \in Nat /\ ~(m <= j)
        BY <2>m, <3>2
      <4> HIDE DEF j
      <4>2. j \notin Bad
        <5> HIDE DEF Bad
        <5> QED
          BY <2>1, <4>1
      <4> QED
        BY <4>1, <4>2
    <3>3. m = 0 \/ m > 0
      BY <2>m
    <3> HIDE DEF Bad, j
    <3> QED
      BY <3>1, <3>2, <3>3
  <2> DEFINE h == [s \in SUBSET (1 .. n) |->
                     IF s = {} THEN base ELSE F[<<g[s \ {Max(s)}], Max(s)>>]]
  <2>3. h \in [SUBSET (1 .. n) -> X]
    <3>1. ASSUME NEW s \in SUBSET (1 .. n), s # {} PROVE F[<<g[s \ {Max(s)}], Max(s)>>] \in X
      <4>1. <<g[s \ {Max(s)}], Max(s)>> \in X \X (1 .. n)
        BY <1>1, <3>1
      <4> QED
        BY <4>1
    <3> QED
      BY <3>1
  <2>4. FoldsUpTo(h, n, base, F, m)
    <3> SUFFICES ASSUME NEW s \in SUBSET (1 .. n), Cardinality(s) <= m
                 PROVE  h[s] = IF s = {} THEN base ELSE F[<<h[s \ {Max(s)}], Max(s)>>]
      BY DEF FoldsUpTo
    <3>1. CASE s # {}
      <4> DEFINE r == s \ {Max(s)}
      <4>1. r \in SUBSET (1 .. n) /\ Cardinality(r) <= j /\ m > 0
        <5> DEFINE c == Cardinality(s)
                   e == Cardinality(r)
        <5>1. c \in Nat /\ c >= 1 /\ e = c - 1 /\ c <= m /\ r \in SUBSET (1 .. n)
          BY <1>1, <3>1
        <5> HIDE DEF c, e, r
        <5>2. e <= j /\ m > 0
          BY <2>m, <5>1
        <5> QED
          BY <5>1, <5>2 DEF e
      <4> HIDE DEF j, r
      <4>2. g[r] = IF r = {} THEN base ELSE F[<<g[r \ {Max(r)}], Max(r)>>]
        BY <2>2, <4>1 DEF FoldsUpTo
      <4>3. h[r] = g[r]
        BY <4>1, <4>2
      <4>4. h[s] = F[<<g[r], Max(s)>>]
        BY <3>1 DEF r
      <4> QED
        BY <3>1, <4>3, <4>4 DEF r
    <3> QED
      BY <3>1
  <2>5. \A g1 \in [SUBSET (1 .. n) -> X] : ~FoldsUpTo(g1, n, base, F, m)
    BY <2>1
  <2> HIDE DEF h, Bad
  <2> QED
    BY <2>3, <2>4, <2>5
<1>3. n \notin Bad
  BY <1>2
<1> QED
  BY <1>3

FoldsAll(g, n, base, F) ==
    \A s \in SUBSET (1 .. n) :
        g[s] = IF s = {} THEN base ELSE F[<<g[s \ {Max(s)}], Max(s)>>]

LEMMA FoldIsWhole ==
    ASSUME NEW n \in Nat, NEW X, NEW base \in X, NEW F \in [X \X (1 .. n) -> X]
    PROVE  \E g \in [SUBSET (1 .. n) -> X] : FoldsAll(g, n, base, F)
<1>1. PICK g \in [SUBSET (1 .. n) -> X] : FoldsUpTo(g, n, base, F, n)
  BY FoldExists
<1>2. ASSUME NEW s \in SUBSET (1 .. n) PROVE Cardinality(s) <= n
  <2>1. IsFiniteSet(1 .. n) /\ Cardinality(1 .. n) = n
    <3>1. IsFiniteSet(1 .. n) /\ Cardinality(1 .. n) = IF 1 > n THEN 0 ELSE n - 1 + 1
      BY FS_Interval
    <3>2. (IF 1 > n THEN 0 ELSE n - 1 + 1) = n
      OBVIOUS
    <3> QED
      BY <3>1, <3>2
  <2>2. Cardinality(s) <= Cardinality(1 .. n)
    BY <2>1, FS_Subset
  <2> QED
    BY <2>1, <2>2
<1>3. \A s \in SUBSET (1 .. n) : g[s] = IF s = {} THEN base ELSE F[<<g[s \ {Max(s)}], Max(s)>>]
  BY <1>1, <1>2 DEF FoldsUpTo
<1> QED
  BY <1>1, <1>3 DEF FoldsAll

=============================================================================
