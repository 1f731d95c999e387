------------------------------- MODULE Counting -------------------------------
(***************************************************************************)
(* Facts about numbers and finite sets that the proofs share: least elements *)
(* and induction, cardinalities, and what it means to number the elements of   *)
(* a set in an order.  The order is a function to the natural numbers, and     *)
(* what is proved by induction is a set of numbers: with operators in their      *)
(* place the provers could not apply the lemmas.                                 *)
(***************************************************************************)
EXTENDS FiniteSetTheorems, TLAPS

\* The least element of a set of natural numbers: the least of the intervals that
\* end in it, by the order of finite sets.
LEMMA LeastElement ==
  ASSUME NEW S \in SUBSET Nat, S # {}
  PROVE  \E i \in S : \A j \in S : i <= j
<1> DEFINE R == StrictSubsetOrdering(Nat)
           T == {0..i : i \in S}
<1>1. /\ IsWellFoundedOn(R, FiniteSubsetsOf(Nat))
      /\ T \subseteq FiniteSubsetsOf(Nat) /\ T # {}
  <2>1. IsWellFoundedOn(R, FiniteSubsetsOf(Nat))
    BY FS_StrictSubsetOrderingWellFounded
  <2>2. ASSUME NEW i \in Nat PROVE 0..i \in FiniteSubsetsOf(Nat)
    <3>1. 0..i \subseteq Nat /\ IsFiniteSet(0..i)
      BY FS_Interval
    <3> QED
      BY <3>1 DEF FiniteSubsetsOf
  <2> QED
    BY <2>1, <2>2
<1>2. PICK x \in T : \A y \in T : ~(<<y, x>> \in R)
  BY <1>1, WFMin
<1>3. PICK i \in S : x = 0..i
  BY <1>2
<1>4. ASSUME NEW j \in S PROVE i <= j
  <2> SUFFICES ASSUME j < i PROVE FALSE
    OBVIOUS
  <2>1. /\ 0..j \subseteq 0..i /\ 0..j # 0..i /\ 0..j \in SUBSET Nat /\ 0..i \in SUBSET Nat
    OBVIOUS
  <2>2. <<0..j, 0..i>> \in R
    BY <2>1 DEF StrictSubsetOrdering
  <2> QED
    BY <1>2, <1>3, <2>2
<1> QED
  BY <1>4

\* What holds of 0, and of n + 1 when it holds of n.
LEMMA NaturalInduction ==
  ASSUME NEW S, 0 \in S, \A n \in Nat : n \in S => n + 1 \in S
  PROVE  Nat \subseteq S
<1> SUFFICES ASSUME Nat \ S # {} PROVE FALSE
  OBVIOUS
<1>1. PICK m \in Nat \ S : \A j \in Nat \ S : m <= j
  <2> DEFINE T == Nat \ S
  <2> HIDE DEF T
  <2>1. T # {} /\ T \in SUBSET Nat
    BY DEF T
  <2> QED
    BY <2>1, LeastElement DEF T
<1>2. m # 0 /\ m - 1 \in Nat /\ m - 1 + 1 = m
  BY <1>1
<1>3. m - 1 \in S
  BY <1>1, <1>2
<1> QED
  BY <1>2, <1>3
-----------------------------------------------------------------------------
(* Cardinalities *)

LEMMA SmallerSubset ==
  ASSUME NEW S, IsFiniteSet(S), NEW T \in SUBSET S
  PROVE  /\ IsFiniteSet(T) /\ Cardinality(T) \in Nat /\ Cardinality(S) \in Nat
         /\ Cardinality(T) <= Cardinality(S)
         /\ T # S => Cardinality(T) < Cardinality(S)
<1>1. IsFiniteSet(T) /\ Cardinality(T) <= Cardinality(S) /\ (Cardinality(S) = Cardinality(T) => S = T)
  BY FS_Subset
<1>2. Cardinality(T) \in Nat /\ Cardinality(S) \in Nat
  BY <1>1, FS_CardinalityType
<1> QED
  BY <1>1, <1>2

LEMMA UnionOfTwo ==
  ASSUME NEW S, IsFiniteSet(S), NEW T, IsFiniteSet(T)
  PROVE  /\ IsFiniteSet(S \union T) /\ Cardinality(S \union T) \in Nat
         /\ Cardinality(S \union T) <= Cardinality(S) + Cardinality(T)
         /\ S \intersect T = {} => Cardinality(S \union T) = Cardinality(S) + Cardinality(T)
<1>1. /\ IsFiniteSet(S \union T)
      /\ Cardinality(S \union T) = Cardinality(S) + Cardinality(T) - Cardinality(S \intersect T)
  BY FS_Union
<1>2. IsFiniteSet(S \intersect T)
  BY FS_Intersection
<1>3. /\ Cardinality(S \union T) \in Nat /\ Cardinality(S) \in Nat /\ Cardinality(T) \in Nat
      /\ Cardinality(S \intersect T) \in Nat
  BY <1>1, <1>2, FS_CardinalityType
<1>4. S \intersect T = {} => Cardinality(S \intersect T) = 0
  BY FS_EmptySet
<1> QED
  BY <1>1, <1>3, <1>4

\* Sets of one element for every q in Q have at most as many elements together.
LEMMA ImageIsSmaller ==
  ASSUME NEW Q, IsFiniteSet(Q), NEW f
  PROVE  LET image == {f[q] : q \in Q} IN
         IsFiniteSet(image) /\ Cardinality(image) <= Cardinality(Q)
<1> DEFINE image == {f[q] : q \in Q}
           g == [q \in Q |-> f[q]]
<1>1. g \in Surjection(Q, image)
  BY DEF Surjection
<1> QED
  BY <1>1, FS_Surjection

\* Nor do sets of at most one, or of at most two, elements.
LEMMA UnionOfSingles ==
  ASSUME NEW Q, IsFiniteSet(Q), NEW F, \A q \in Q : \E e : F[q] \subseteq {e}
  PROVE  LET U == UNION {F[q] : q \in Q} IN
         IsFiniteSet(U) /\ Cardinality(U) \in Nat /\ Cardinality(U) <= Cardinality(Q)
<1> DEFINE f == [q \in Q |-> CHOOSE e : F[q] \subseteq {e}]
           U == UNION {F[q] : q \in Q}
           image == {f[q] : q \in Q}
<1>1. IsFiniteSet(image) /\ Cardinality(image) <= Cardinality(Q)
  <2> HIDE DEF f
  <2> QED
    BY ImageIsSmaller
<1>2. \A q \in Q : F[q] \subseteq {f[q]}
  OBVIOUS
<1>3. U \in SUBSET image
  <2> HIDE DEF f
  <2> QED
    BY <1>2
<1> HIDE DEF U, image
<1>4. IsFiniteSet(U) /\ Cardinality(U) \in Nat /\ Cardinality(U) <= Cardinality(image)
      /\ Cardinality(image) \in Nat /\ Cardinality(Q) \in Nat
  BY <1>1, <1>3, SmallerSubset, FS_CardinalityType
<1>5. Cardinality(U) <= Cardinality(Q)
  BY <1>1, <1>4
<1> QED
  BY <1>4, <1>5 DEF U

LEMMA UnionOfPairs ==
  ASSUME NEW Q, IsFiniteSet(Q), NEW F, \A q \in Q : \E e, f : F[q] \subseteq {e, f}
  PROVE  LET U == UNION {F[q] : q \in Q} IN
         IsFiniteSet(U) /\ Cardinality(U) \in Nat /\ Cardinality(U) <= 2 * Cardinality(Q)
<1> DEFINE first == [q \in Q |-> CHOOSE e : \E f : F[q] \subseteq {e, f}]
           G == [q \in Q |-> F[q] \intersect {first[q]}]
           H == [q \in Q |-> F[q] \ {first[q]}]
           A == UNION {G[q] : q \in Q}
           B == UNION {H[q] : q \in Q}
           U == UNION {F[q] : q \in Q}
<1>1. ASSUME NEW q \in Q
      PROVE  (\E e : G[q] \subseteq {e}) /\ (\E e : H[q] \subseteq {e})
  <2>1. \E f : F[q] \subseteq {first[q], f}
    <3>1. \E e : \E f : F[q] \subseteq {e, f}
      OBVIOUS
    <3>2. first[q] = CHOOSE e : \E f : F[q] \subseteq {e, f}
      OBVIOUS
    <3> HIDE DEF first
    <3> QED
      BY <3>1, <3>2
  <2> HIDE DEF first
  <2> QED
    BY <2>1
<1>2. U = A \union B
  <2> HIDE DEF first
  <2>1. \A q \in Q : F[q] = G[q] \union H[q]
    OBVIOUS
  <2> HIDE DEF G, H
  <2> QED
    BY <2>1
<1> HIDE DEF G, H
<1>3. /\ IsFiniteSet(A) /\ Cardinality(A) \in Nat /\ Cardinality(A) <= Cardinality(Q)
      /\ IsFiniteSet(B) /\ Cardinality(B) \in Nat /\ Cardinality(B) <= Cardinality(Q)
  <2>1. \A q \in Q : \E e : G[q] \subseteq {e}
    BY <1>1
  <2>2. \A q \in Q : \E e : H[q] \subseteq {e}
    BY <1>1
  <2>3. IsFiniteSet(A) /\ Cardinality(A) \in Nat /\ Cardinality(A) <= Cardinality(Q)
    BY <2>1, UnionOfSingles
  <2>4. IsFiniteSet(B) /\ Cardinality(B) \in Nat /\ Cardinality(B) <= Cardinality(Q)
    BY <2>2, UnionOfSingles
  <2> QED
    BY <2>3, <2>4
<1> HIDE DEF A, B, U
<1>4. IsFiniteSet(U) /\ Cardinality(U) \in Nat /\ Cardinality(U) <= Cardinality(A) + Cardinality(B)
  BY <1>2, <1>3, UnionOfTwo
<1>5. Cardinality(Q) \in Nat
  BY FS_CardinalityType
<1>6. Cardinality(U) <= 2 * Cardinality(Q)
  BY <1>3, <1>4, <1>5
<1> QED
  BY <1>4, <1>6 DEF U
-----------------------------------------------------------------------------
(* Numbering the elements of a set in the order of a key *)

Before(S, key, x) == {y \in S : key[y] < key[x]}
After(S, key, x) == {y \in S : key[y] > key[x]}

LEMMA Numbered ==
  ASSUME NEW S, IsFiniteSet(S), NEW key \in [S -> Nat],
         \A x, y \in S : key[x] = key[y] => x = y
  PROVE  /\ Cardinality(S) \in Nat
         /\ \A x \in S :
              /\ Cardinality(Before(S, key, x)) \in 0..(Cardinality(S) - 1)
              /\ Cardinality(After(S, key, x)) = Cardinality(S) - 1 - Cardinality(Before(S, key, x))
         /\ \A x, y \in S :
              key[x] < key[y] <=> Cardinality(Before(S, key, x)) < Cardinality(Before(S, key, y))
         /\ \A i \in 0..(Cardinality(S) - 1) : \E x \in S : Cardinality(Before(S, key, x)) = i
<1> DEFINE Below(x) == {y \in S : key[y] < key[x]}
           Above(x) == {y \in S : key[y] > key[x]}
           n == Cardinality(S)
<1>1. n \in Nat
  BY FS_CardinalityType
<1>2. ASSUME NEW x \in S
      PROVE  /\ IsFiniteSet(Below(x)) /\ IsFiniteSet(Above(x)) /\ x \notin Below(x)
             /\ Cardinality(Below(x)) \in Nat /\ Cardinality(Below(x)) < n
             /\ Cardinality(Above(x)) = n - 1 - Cardinality(Below(x))
  <2>1. /\ Below(x) \in SUBSET S /\ Above(x) \in SUBSET S /\ key[x] \in Nat
        /\ x \notin Below(x) /\ x \notin Above(x) /\ Below(x) \intersect Above(x) = {}
    OBVIOUS
  <2>2. S = (Below(x) \union Above(x)) \union {x}
    OBVIOUS
  <2> DEFINE B == Below(x)
             A == Above(x)
  <2> HIDE DEF A, B
  <2>3. /\ IsFiniteSet(B) /\ IsFiniteSet(A) /\ Cardinality(B) \in Nat /\ Cardinality(A) \in Nat
        /\ IsFiniteSet({x}) /\ Cardinality({x}) = 1
    BY <2>1, SmallerSubset, FS_Singleton DEF A, B
  <2>4. IsFiniteSet(A \union B) /\ Cardinality(B \union A) = Cardinality(B) + Cardinality(A)
    BY <2>1, <2>3, UnionOfTwo DEF A, B
  <2>5. Cardinality((B \union A) \union {x}) = Cardinality(B) + Cardinality(A) + 1
    <3> DEFINE C == B \union A
    <3>1. C \intersect {x} = {} /\ IsFiniteSet(C) /\ Cardinality(C) = Cardinality(B) + Cardinality(A)
      BY <2>1, <2>3, <2>4, UnionOfTwo DEF A, B
    <3> HIDE DEF C
    <3>2. Cardinality(C \union {x}) = Cardinality(C) + 1
      BY <2>3, <3>1, UnionOfTwo
    <3> QED
      BY <3>1, <3>2 DEF C
  <2>6. n = Cardinality(B) + Cardinality(A) + 1
    BY <2>2, <2>5 DEF A, B
  <2>7. Cardinality(B) < n /\ Cardinality(A) = n - 1 - Cardinality(B)
    BY <2>3, <2>6
  <2> QED
    BY <2>1, <2>3, <2>7 DEF A, B
<1>3. ASSUME NEW x \in S, NEW y \in S, key[x] < key[y]
      PROVE  Cardinality(Below(x)) < Cardinality(Below(y))
  <2>1. Below(x) \in SUBSET Below(y) /\ x \in Below(y) /\ x \notin Below(x)
    BY <1>3
  <2> DEFINE B == Below(x)
             C == Below(y)
  <2> HIDE DEF B, C
  <2>2. IsFiniteSet(C) /\ B \in SUBSET C /\ B # C
    BY <1>2, <2>1 DEF B, C
  <2>3. Cardinality(B) < Cardinality(C)
    BY <2>2, SmallerSubset
  <2> QED
    BY <2>3 DEF B, C
<1>4. ASSUME NEW x \in S, NEW y \in S
      PROVE  key[x] < key[y] <=> Cardinality(Below(x)) < Cardinality(Below(y))
  <2>1. key[x] = key[y] => Below(x) = Below(y)
    OBVIOUS
  <2>2. key[x] < key[y] \/ key[x] = key[y] \/ key[y] < key[x]
    OBVIOUS
  <2>3. Cardinality(Below(x)) \in Nat /\ Cardinality(Below(y)) \in Nat
    BY <1>2
  <2> HIDE DEF Below
  <2> QED
    BY <1>3, <2>1, <2>2, <2>3
<1>5. ASSUME NEW i \in 0..(n - 1) PROVE \E x \in S : Cardinality(Below(x)) = i
  <2> DEFINE places == 0..(n - 1)
             f == [x \in S |-> Cardinality(Below(x))]
  <2>1. IsFiniteSet(places) /\ Cardinality(places) = n
    BY <1>1, FS_Interval
  <2>2. f \in [S -> places]
    <3>1. \A x \in S : Cardinality(Below(x)) \in places
      <4>1. \A x \in S : Cardinality(Below(x)) \in 0..(n - 1)
        <5>1. ASSUME NEW x \in S PROVE Cardinality(Below(x)) \in 0..(n - 1)
          <6>1. Cardinality(Below(x)) \in Nat /\ Cardinality(Below(x)) < n
            BY <1>2
          <6> HIDE DEF Below, n
          <6> QED
            BY <1>1, <6>1
        <5> QED
          BY <5>1
      <4> QED
        BY <4>1
    <3> QED
      BY <3>1
  <2>3. ASSUME NEW x \in S, NEW y \in S, f[x] = f[y] PROVE x = y
    <3>1. ~(key[x] < key[y]) /\ ~(key[y] < key[x])
      <4> HIDE DEF Below
      <4> QED
        BY <1>2, <1>4, <2>3
    <3> QED
      BY <3>1
  <2>4. f \in Injection(S, places)
    <3> HIDE DEF f
    <3> QED
      BY <2>2, <2>3 DEF Injection, IsInjective
  <2>5. f \in Surjection(S, places)
    <3> HIDE DEF f, places
    <3> QED
      BY <2>1, <2>4, FS_Injection
  <2>6. PICK x \in S : f[x] = i
    BY <2>5 DEF Surjection
  <2> QED
    BY <2>6
<1> HIDE DEF n, Below, Above
<1>6. \A x \in S : /\ Cardinality(Below(x)) \in 0..(n - 1)
                   /\ Cardinality(Above(x)) = n - 1 - Cardinality(Below(x))
  BY <1>1, <1>2
<1>7. \A x \in S : Below(x) = Before(S, key, x) /\ Above(x) = After(S, key, x)
  BY DEF Before, After, Below, Above
<1> QED
  BY <1>1, <1>4, <1>5, <1>6, <1>7 DEF n
=============================================================================
