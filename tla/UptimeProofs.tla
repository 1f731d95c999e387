---------------------------- MODULE UptimeProofs ----------------------------
(***************************************************************************)
(* Proofs about the uptime entries: what the windows of the two storages     *)
(* show, for every length of the day, the buffer, the retention and the age  *)
(* of the clean-up, whatever is merged, cleaned up and lost.                 *)
(*                                                                           *)
(* Sums come first: the fold that Total is made of, then Total.  After the   *)
(* arithmetic of days and hours follow the operations on the rows, which are *)
(* all faithful in one sense (NoMore and NoLess: what the rewritten entries  *)
(* count of every day), and the inductive invariant IInv, which compares the *)
(* rows with the executions hour by hour where nothing is merged yet and day *)
(* by day where it is.                                                       *)
(***************************************************************************)
EXTENDS Uptime, Counting, TLAPS

-----------------------------------------------------------------------------
(* Sums *)

\* What holds of no elements, and of one more element than it holds of.
LEMMA SubsetInduction ==
  ASSUME NEW S, IsFiniteSet(S), NEW P, {} \in P,
         \A T \in SUBSET S : \A x \in S \ T : T \in P => T \union {x} \in P
  PROVE  S \in P
<1> DEFINE N == {n \in Nat : \A T \in SUBSET S : Cardinality(T) = n => T \in P}
<1>0. \A T \in SUBSET S : IsFiniteSet(T) /\ Cardinality(T) \in Nat
  BY SmallerSubset
<1>1. 0 \in N
  BY <1>0, FS_EmptySet
<1>2. \A n \in Nat : n \in N => n + 1 \in N
  <2> SUFFICES ASSUME NEW n \in Nat, \A T \in SUBSET S : Cardinality(T) = n => T \in P,
                      NEW T \in SUBSET S, Cardinality(T) = n + 1
               PROVE  T \in P
    OBVIOUS
  <2>1. T # {}
    BY FS_EmptySet
  <2>2. PICK x : x \in T
    BY <2>1
  <2>3. Cardinality(T \ {x}) = n
    <3>1. IsFiniteSet(T) /\ Cardinality(T) \in Nat
      BY <1>0
    <3>2. Cardinality(T \ {x}) = Cardinality(T) - 1
      BY <2>2, <3>1, FS_RemoveElement
    <3> QED
      BY <3>1, <3>2
  <2>4. T \ {x} \in P /\ x \in S \ (T \ {x}) /\ (T \ {x}) \union {x} = T /\ T \ {x} \in SUBSET S
    BY <2>2, <2>3
  <2> QED
    BY <2>4
<1> HIDE DEF N
<1>3. Nat \subseteq N
  BY <1>1, <1>2, NaturalInduction
<1> QED
  BY <1>0, <1>3 DEF N

\* The element that the fold takes first.
Picked(s) == CHOOSE x \in s : TRUE

\* g adds up the values of f over the subsets of S.
Adds(g, f, S) ==
  g = [s \in SUBSET S |-> IF s = {} THEN 0 ELSE f[Picked(s)] + g[s \ {Picked(s)}]]

\* The fold of the community modules is a function chosen by its equation.
LEMMA SumIsChosen ==
  ASSUME NEW f, NEW S
  PROVE  SumFunctionOnSet(f, S) = (CHOOSE g : Adds(g, f, S))[S]
  BY DEF SumFunctionOnSet, FoldFunctionOnSet, MapThenFoldSet, Adds, Picked

\* There is one such function, on the sets it is asked for.
LEMMA AddsOnce ==
  ASSUME NEW f, NEW S, NEW T, NEW g, NEW h, Adds(g, f, S), Adds(h, f, T),
         NEW U, U \subseteq S, U \subseteq T, IsFiniteSet(U)
  PROVE  g[U] = h[U]
<1> DEFINE N == {n \in Nat : \A s \in SUBSET U : Cardinality(s) = n => g[s] = h[s]}
<1>0. \A s \in SUBSET U : IsFiniteSet(s) /\ Cardinality(s) \in Nat
  BY SmallerSubset
<1>1. 0 \in N
  <2>1. \A s \in SUBSET U : Cardinality(s) = 0 => s = {}
    BY <1>0, FS_EmptySet
  <2>2. g[{}] = 0 /\ h[{}] = 0
    BY DEF Adds
  <2> QED
    BY <2>1, <2>2
<1>2. \A n \in Nat : n \in N => n + 1 \in N
  <2> SUFFICES ASSUME NEW n \in Nat, \A s \in SUBSET U : Cardinality(s) = n => g[s] = h[s],
                      NEW s \in SUBSET U, Cardinality(s) = n + 1
               PROVE  g[s] = h[s]
    OBVIOUS
  <2>1. s # {}
    BY FS_EmptySet
  <2>2. Picked(s) \in s
    BY <2>1 DEF Picked
  <2> DEFINE r == s \ {Picked(s)}
  <2>3. Cardinality(r) = n /\ r \in SUBSET U
    <3>1. IsFiniteSet(s) /\ Cardinality(s) \in Nat
      BY <1>0
    <3>2. Cardinality(r) = Cardinality(s) - 1
      BY <2>2, <3>1, FS_RemoveElement
    <3> QED
      BY <3>1, <3>2
  <2>4. g[r] = h[r]
    BY <2>3
  <2>5. g[s] = f[Picked(s)] + g[r] /\ h[s] = f[Picked(s)] + h[r]
    BY <2>1 DEF Adds
  <2> QED
    BY <2>4, <2>5
<1> HIDE DEF N
<1>3. Nat \subseteq N
  BY <1>1, <1>2, NaturalInduction
<1> QED
  BY <1>0, <1>3 DEF N

\* A sum over a set is the sum over the rest and the value of the element picked.
LEMMA SumUnfolds ==
  ASSUME NEW f, NEW S, IsFiniteSet(S)
  PROVE  SumFunctionOnSet(f, S) =
           IF S = {} THEN 0 ELSE f[Picked(S)] + SumFunctionOnSet(f, S \ {Picked(S)})
<1> DEFINE V(s) == SumFunctionOnSet(f, s)
           value(s) == IF s = {} THEN 0 ELSE f[Picked(s)] + V(s \ {Picked(s)})
           N == {n \in Nat : \A s \in SUBSET S : Cardinality(s) <= n => V(s) = value(s)}
<1>0. \A s \in SUBSET S : IsFiniteSet(s) /\ Cardinality(s) \in Nat
  BY SmallerSubset
<1>1. ASSUME NEW s \in SUBSET S,
             \A t \in SUBSET s : t # s => V(t) = value(t)
      PROVE  V(s) = value(s)
  <2> DEFINE h == [t \in SUBSET s |-> IF t = s THEN value(s) ELSE V(t)]
             g == CHOOSE q : Adds(q, f, s)
  <2>1. Adds(h, f, s)
    <3>1. ASSUME NEW t \in SUBSET s
          PROVE  h[t] = IF t = {} THEN 0 ELSE f[Picked(t)] + h[t \ {Picked(t)}]
      <4>1. h[t] = value(t)
        BY <1>1
      <4>2. t # {} => /\ Picked(t) \in t /\ t \ {Picked(t)} \in SUBSET s
                      /\ t \ {Picked(t)} # s
        BY DEF Picked
      <4>3. t # {} => h[t \ {Picked(t)}] = V(t \ {Picked(t)})
        BY <4>2
      <4> HIDE DEF h
      <4> QED
        BY <4>1, <4>3
    <3>2. h = [t \in SUBSET s |-> h[t]]
      OBVIOUS
    <3> HIDE DEF h
    <3>3. h = [t \in SUBSET s |-> IF t = {} THEN 0 ELSE f[Picked(t)] + h[t \ {Picked(t)}]]
      BY <3>1, <3>2
    <3> QED
      BY <3>3 DEF Adds
  <2> HIDE DEF h
  <2>2. Adds(g, f, s)
    BY <2>1
  <2> HIDE DEF g
  <2>3. V(s) = g[s]
    BY SumIsChosen DEF g
  <2>4. g[s] = h[s]
    BY <1>0, <2>1, <2>2, AddsOnce
  <2>5. h[s] = value(s)
    BY DEF h
  <2> QED
    BY <2>3, <2>4, <2>5
<1> HIDE DEF V, value
<1>2. 0 \in N
  <2>1. ASSUME NEW s \in SUBSET S, Cardinality(s) <= 0 PROVE V(s) = value(s)
    <3>1. s = {}
      BY <1>0, <2>1, FS_EmptySet
    <3> QED
      BY <1>1, <3>1
  <2> QED
    BY <2>1
<1>3. \A n \in Nat : n \in N => n + 1 \in N
  <2> SUFFICES ASSUME NEW n \in Nat, \A s \in SUBSET S : Cardinality(s) <= n => V(s) = value(s),
                      NEW s \in SUBSET S, Cardinality(s) <= n + 1
               PROVE  V(s) = value(s)
    OBVIOUS
  <2>1. ASSUME NEW t \in SUBSET s, t # s PROVE V(t) = value(t)
    <3>1. Cardinality(t) < Cardinality(s)
      BY <1>0, <2>1, SmallerSubset
    <3>2. Cardinality(t) <= n /\ t \in SUBSET S
      BY <1>0, <3>1
    <3> QED
      BY <3>2
  <2> QED
    BY <1>1, <2>1
<1> HIDE DEF N
<1>4. Nat \subseteq N
  BY <1>2, <1>3, NaturalInduction
<1>5. V(S) = value(S)
  BY <1>0, <1>4 DEF N
<1> QED
  BY <1>5 DEF V, value

\* The values of f over S, added up.
Sum(f, S) == SumFunctionOnSet(f, S)

\* Finitely many numbers.
Numbers(f, S) == IsFiniteSet(S) /\ \A x \in S : f[x] \in Nat

\* The sum of nothing.
LEMMA SumOfNone ==
  ASSUME NEW f
  PROVE  Sum(f, {}) = 0
  BY FS_EmptySet, SumUnfolds DEF Sum

\* Numbers add up to a number.
LEMMA SumType ==
  ASSUME NEW f, NEW S, Numbers(f, S)
  PROVE  Sum(f, S) \in Nat
<1> DEFINE N == {n \in Nat : \A s \in SUBSET S : Cardinality(s) = n => Sum(f, s) \in Nat}
<1>0. \A s \in SUBSET S : IsFiniteSet(s) /\ Cardinality(s) \in Nat
  BY SmallerSubset DEF Numbers
<1>1. 0 \in N
  <2>1. \A s \in SUBSET S : Cardinality(s) = 0 => s = {}
    BY <1>0, FS_EmptySet
  <2> QED
    BY <2>1, SumOfNone
<1>2. \A n \in Nat : n \in N => n + 1 \in N
  <2> SUFFICES ASSUME NEW n \in Nat, \A s \in SUBSET S : Cardinality(s) = n => Sum(f, s) \in Nat,
                      NEW s \in SUBSET S, Cardinality(s) = n + 1
               PROVE  Sum(f, s) \in Nat
    OBVIOUS
  <2>1. s # {} /\ IsFiniteSet(s)
    BY <1>0, FS_EmptySet
  <2> DEFINE r == s \ {Picked(s)}
  <2>2. Picked(s) \in s
    BY <2>1 DEF Picked
  <2>3. Cardinality(r) = n /\ r \in SUBSET S
    <3>1. Cardinality(s) \in Nat
      BY <1>0
    <3>2. Cardinality(r) = Cardinality(s) - 1
      BY <2>1, <2>2, FS_RemoveElement
    <3> QED
      BY <3>1, <3>2
  <2>4. Sum(f, s) = f[Picked(s)] + Sum(f, r)
    BY <2>1, SumUnfolds DEF Sum
  <2>5. Sum(f, r) \in Nat /\ f[Picked(s)] \in Nat
    BY <2>2, <2>3 DEF Numbers
  <2> QED
    BY <2>4, <2>5
<1> HIDE DEF N
<1>3. Nat \subseteq N
  BY <1>1, <1>2, NaturalInduction
<1> QED
  BY <1>0, <1>3 DEF N

\* Any element may be added last.
LEMMA SumOfOneMore ==
  ASSUME NEW f, NEW S, Numbers(f, S), NEW x \in S
  PROVE  Sum(f, S) = f[x] + Sum(f, S \ {x})
<1> DEFINE N == {n \in Nat : \A s \in SUBSET S : Cardinality(s) = n =>
                   \A y \in s : Sum(f, s) = f[y] + Sum(f, s \ {y})}
<1>0. \A s \in SUBSET S : IsFiniteSet(s) /\ Cardinality(s) \in Nat
  BY SmallerSubset DEF Numbers
<1>1. 0 \in N
  <2>1. \A s \in SUBSET S : Cardinality(s) = 0 => s = {}
    BY <1>0, FS_EmptySet
  <2> QED
    BY <2>1
<1>2. \A n \in Nat : n \in N => n + 1 \in N
  <2> SUFFICES ASSUME NEW n \in Nat,
                      \A s \in SUBSET S : Cardinality(s) = n =>
                        \A y \in s : Sum(f, s) = f[y] + Sum(f, s \ {y}),
                      NEW s \in SUBSET S, Cardinality(s) = n + 1, NEW y \in s
               PROVE  Sum(f, s) = f[y] + Sum(f, s \ {y})
    OBVIOUS
  <2> DEFINE p == Picked(s)
             r == s \ {p}
             q == s \ {y}
  <2>1. p \in s /\ IsFiniteSet(s) /\ Cardinality(s) \in Nat
    BY <1>0 DEF Picked
  <2>2. Sum(f, s) = f[p] + Sum(f, r)
    BY <2>1, SumUnfolds DEF Sum
  <2> HIDE DEF p
  <2>3. CASE y = p
    BY <2>2, <2>3
  <2>4. CASE y # p
    <3>1. /\ y \in r /\ p \in q /\ r \in SUBSET S /\ q \in SUBSET S
          /\ r \ {y} = q \ {p} /\ q \ {p} \in SUBSET S
      BY <2>1, <2>4
    <3>2. Cardinality(r) = n /\ Cardinality(q) = n
      <4>1. Cardinality(r) = Cardinality(s) - 1 /\ Cardinality(q) = Cardinality(s) - 1
        BY <2>1, FS_RemoveElement
      <4> QED
        BY <2>1, <4>1
    <3>3. Sum(f, r) = f[y] + Sum(f, r \ {y}) /\ Sum(f, q) = f[p] + Sum(f, q \ {p})
      BY <3>1, <3>2
    <3>4. f[y] \in Nat /\ f[p] \in Nat
      BY <2>1 DEF Numbers
    <3>5. Sum(f, q \ {p}) \in Nat
      <4>1. Numbers(f, q \ {p})
        BY <1>0, <3>1 DEF Numbers
      <4> QED
        BY <4>1, SumType
    <3> HIDE DEF q, r
    <3>6. Sum(f, r \ {y}) = Sum(f, q \ {p})
      BY <3>1
    <3>7. Sum(f, s) = f[y] + Sum(f, q)
      BY <2>2, <3>3, <3>4, <3>5, <3>6
    <3> QED
      BY <3>7 DEF q
  <2> QED
    BY <2>3, <2>4
<1> HIDE DEF N
<1>3. Nat \subseteq N
  BY <1>1, <1>2, NaturalInduction
<1> QED
  BY <1>0, <1>3 DEF N

\* Smaller values have no greater sum.
LEMMA SumsCompare ==
  ASSUME NEW f, NEW g, NEW S, Numbers(f, S), Numbers(g, S), \A x \in S : f[x] <= g[x]
  PROVE  Sum(f, S) <= Sum(g, S)
<1> DEFINE P == {T \in SUBSET S : Sum(f, T) <= Sum(g, T)}
<1>1. {} \in P
  BY SumOfNone
<1>2. \A T \in SUBSET S : \A x \in S \ T : T \in P => T \union {x} \in P
  <2> SUFFICES ASSUME NEW T \in SUBSET S, NEW x \in S \ T, Sum(f, T) <= Sum(g, T)
               PROVE  Sum(f, T \union {x}) <= Sum(g, T \union {x})
    OBVIOUS
  <2> DEFINE U == T \union {x}
  <2>1. Numbers(f, T) /\ Numbers(g, T) /\ Numbers(f, U) /\ Numbers(g, U) /\ U \ {x} = T /\ x \in U
    BY SmallerSubset DEF Numbers
  <2> HIDE DEF U
  <2>2. Sum(f, U) = f[x] + Sum(f, T) /\ Sum(g, U) = g[x] + Sum(g, T)
    BY <2>1, SumOfOneMore
  <2>3. Sum(f, T) \in Nat /\ Sum(g, T) \in Nat /\ f[x] \in Nat /\ g[x] \in Nat /\ f[x] <= g[x]
    BY <2>1, SumType DEF Numbers
  <2> QED
    BY <2>2, <2>3 DEF U
<1> HIDE DEF P
<1>3. S \in P
  BY <1>1, <1>2, SubsetInduction DEF Numbers
<1> QED
  BY <1>3 DEF P

\* The same values have the same sum.
LEMMA SumsAreEqual ==
  ASSUME NEW f, NEW g, NEW S, Numbers(f, S), \A x \in S : f[x] = g[x]
  PROVE  Sum(f, S) = Sum(g, S)
<1>1. Numbers(g, S) /\ (\A x \in S : f[x] <= g[x] /\ g[x] <= f[x])
  BY DEF Numbers
<1>2. Sum(f, S) <= Sum(g, S) /\ Sum(g, S) <= Sum(f, S)
  BY <1>1, SumsCompare
<1>3. Sum(f, S) \in Nat /\ Sum(g, S) \in Nat
  BY <1>1, SumType
<1> QED
  BY <1>2, <1>3

\* The sum over two sets that have nothing in common.
LEMMA SumOfUnion ==
  ASSUME NEW f, NEW S, NEW T, Numbers(f, S), Numbers(f, T), S \intersect T = {}
  PROVE  Sum(f, S \union T) = Sum(f, S) + Sum(f, T)
<1> DEFINE P == {U \in SUBSET T : Sum(f, S \union U) = Sum(f, S) + Sum(f, U)}
<1>0. Sum(f, S) \in Nat
  BY SumType
<1>1. {} \in P
  <2>1. S \union {} = S
    OBVIOUS
  <2> QED
    BY <1>0, <2>1, SumOfNone
<1>2. \A U \in SUBSET T : \A x \in T \ U : U \in P => U \union {x} \in P
  <2> SUFFICES ASSUME NEW U \in SUBSET T, NEW x \in T \ U, Sum(f, S \union U) = Sum(f, S) + Sum(f, U)
               PROVE  Sum(f, S \union (U \union {x})) = Sum(f, S) + Sum(f, U \union {x})
    OBVIOUS
  <2> DEFINE V == U \union {x}
             W == S \union V
  <2>1. IsFiniteSet(U) /\ IsFiniteSet(V)
    BY SmallerSubset DEF Numbers
  <2>2. Numbers(f, U) /\ Numbers(f, V) /\ V \ {x} = U /\ x \in V /\ x \in W /\ W \ {x} = S \union U
    BY <2>1 DEF Numbers
  <2>3. Numbers(f, W)
    BY <2>1, FS_Union DEF Numbers
  <2> HIDE DEF V, W
  <2>4. Sum(f, V) = f[x] + Sum(f, U) /\ Sum(f, W) = f[x] + Sum(f, S \union U)
    BY <2>2, <2>3, SumOfOneMore
  <2>5. Sum(f, U) \in Nat /\ f[x] \in Nat
    BY <2>2, SumType DEF Numbers
  <2> QED
    BY <1>0, <2>4, <2>5 DEF V, W
<1> HIDE DEF P
<1>3. T \in P
  BY <1>1, <1>2, SubsetInduction DEF Numbers
<1> QED
  BY <1>3 DEF P
-----------------------------------------------------------------------------
(* Days and hours *)

\* Halves of an hour of a day.
D == Day * Hour

\* A day has at least two hours.
LEMMA DayIsLong == D \in Nat /\ D >= 4
  BY UptimeAssumption DEF D, Hour

\* What division by a positive number gives.
LEMMA Division ==
  ASSUME NEW n \in Int, NEW d \in Nat \ {0}
  PROVE  /\ n \div d \in Int /\ n % d \in 0..(d - 1)
         /\ n = (n \div d) * d + (n % d)
  BY SMT

\* Multiplying keeps an order.
LEMMA Monotone ==
  ASSUME NEW a \in Int, NEW b \in Int, NEW d \in Nat, a <= b
  PROVE  a * d <= b * d
  BY SMT

\* Days(n) are n times a day.
LEMMA DaysAreMultiples ==
  ASSUME NEW n \in Int
  PROVE  Days(n) = n * D /\ Days(n) \in Int
  BY UptimeAssumption, SMT DEF Days, D, Hour

\* The buffer, the retention and the age of the clean-up are a day apart.
LEMMA Thresholds ==
  /\ Days(HourlyBuffer) \in Nat /\ Days(Retention) \in Nat /\ Days(AgeCleanUp) \in Nat
  /\ D <= Days(HourlyBuffer) /\ Days(1) = D
  /\ Days(HourlyBuffer) + D <= Days(Retention) /\ Days(Retention) + D <= Days(AgeCleanUp)
<1>1. D \in Nat
  BY DayIsLong
<1>2. /\ 1 * D <= HourlyBuffer * D /\ 0 * D <= HourlyBuffer * D
      /\ (HourlyBuffer + 1) * D <= Retention * D /\ (Retention + 1) * D <= AgeCleanUp * D
  BY <1>1, UptimeAssumption, Monotone
<1>3. /\ (HourlyBuffer + 1) * D = HourlyBuffer * D + D /\ (Retention + 1) * D = Retention * D + D
      /\ 1 * D = D /\ 0 * D = 0
  BY <1>1, UptimeAssumption, SMT
<1>4. /\ Days(HourlyBuffer) = HourlyBuffer * D /\ Days(Retention) = Retention * D
      /\ Days(AgeCleanUp) = AgeCleanUp * D /\ Days(1) = 1 * D
      /\ Days(HourlyBuffer) \in Int /\ Days(Retention) \in Int /\ Days(AgeCleanUp) \in Int
  BY UptimeAssumption, DaysAreMultiples
<1> QED
  BY <1>1, <1>2, <1>3, <1>4

\* The day of a time is the one it lies in.
LEMMA DayOfTime ==
  ASSUME NEW t \in Nat
  PROVE  /\ DayOf(t) \in Nat /\ DayOf(t) <= t /\ t < DayOf(t) + D
         /\ \E q \in Nat : DayOf(t) = q * D
<1>1. D \in Nat \ {0}
  BY DayIsLong
<1>2. t \div D \in Int /\ t % D \in 0..(D - 1) /\ t = (t \div D) * D + (t % D)
  BY <1>1, Division
<1>3. t \div D \in Nat
  BY <1>1, SMT
<1>4. DayOf(t) = t - (t % D)
  BY DEF DayOf, D
<1> DEFINE q == t \div D
           r == t % D
<1>5. (t \div D) * D \in Nat
  BY <1>1, <1>3, SMT
<1>6. DayOf(t) = q * D
  BY <1>2, <1>4, <1>5
<1> QED
  BY <1>1, <1>2, <1>3, <1>4, <1>5, <1>6

\* A time at which a day begins.
IsDay(d) == \E q \in Nat : d = q * D

\* The beginning of a day is a time.
LEMMA DayIsNumber ==
  ASSUME NEW d, IsDay(d)
  PROVE  d \in Nat
  BY DayIsLong, SMT DEF IsDay

\* Days follow each other without overlap.
LEMMA DaysAreApart ==
  ASSUME NEW c, NEW d, IsDay(c), IsDay(d), c < d
  PROVE  c + D <= d
<1>1. PICK p \in Nat, q \in Nat : c = p * D /\ d = q * D
  BY DEF IsDay
<1>2. D \in Nat
  BY DayIsLong
<1>3. p < q
  <2> SUFFICES ASSUME q <= p PROVE FALSE
    OBVIOUS
  <2>1. q * D <= p * D
    BY <1>2, Monotone
  <2>2. c \in Nat /\ d \in Nat
    BY DayIsNumber
  <2> QED
    BY <1>1, <2>1, <2>2
<1>4. (p + 1) * D <= q * D
  BY <1>2, <1>3, Monotone
<1>5. (p + 1) * D = p * D + D
  BY <1>2, SMT
<1> QED
  BY <1>1, <1>4, <1>5

\* A time belongs to the one day that begins before it and ends after it.
LEMMA OneDay ==
  ASSUME NEW t \in Nat, NEW d, IsDay(d)
  PROVE  /\ IsDay(DayOf(t))
         /\ DayOf(t) = d <=> d <= t /\ t < d + D
         /\ t < d => DayOf(t) + D <= d
         /\ d <= t => d <= DayOf(t)
<1> DEFINE c == DayOf(t)
<1>1. IsDay(c) /\ c \in Nat /\ c <= t /\ t < c + D /\ d \in Nat /\ D \in Nat
  BY DayOfTime, DayIsNumber, DayIsLong DEF IsDay
<1> HIDE DEF c
<1>2. (c < d => c + D <= d) /\ (d < c => d + D <= c)
  BY <1>1, DaysAreApart
<1>3. (c = d <=> d <= t /\ t < d + D) /\ (t < d => c + D <= d) /\ (d <= t => d <= c)
  BY <1>1, <1>2
<1> QED
  BY <1>1, <1>3 DEF c

\* A day begins a number of days after a day.
LEMMA NextDay ==
  ASSUME NEW d, IsDay(d), NEW n \in Nat
  PROVE  IsDay(d + n * D) /\ IsDay(d + D) /\ n * D \in Nat
<1>1. PICK q \in Nat : d = q * D
  BY DEF IsDay
<1>2. D \in Nat
  BY DayIsLong
<1>3. d + n * D = (q + n) * D /\ d + D = (q + 1) * D /\ n * D \in Nat
  BY <1>1, <1>2, SMT
<1> QED
  BY <1>3 DEF IsDay

\* Days begin with an hour.
LEMMA DayIsHour ==
  ASSUME NEW d, IsDay(d)
  PROVE  d % Hour = 0
<1>1. PICK q \in Nat : d = q * D
  BY DEF IsDay
<1>2. q * D = (q * Day) * 2 /\ q * Day \in Nat
  BY UptimeAssumption, SMT DEF D, Hour
<1>3. \A k \in Nat : (k * 2) % 2 = 0
  BY SMT
<1> QED
  BY <1>1, <1>2, <1>3 DEF Hour

\* The hour of a time is the last one that began.
LEMMA HourOfTime ==
  ASSUME NEW t \in Nat
  PROVE  /\ HourOf(t) \in Nat /\ HourOf(t) % Hour = 0
         /\ HourOf(t) <= t /\ t < HourOf(t) + Hour
         /\ \A h \in Nat : h % Hour = 0 /\ h <= t => h <= HourOf(t)
  BY SMT DEF HourOf, Hour

\* A day earlier begins a day earlier.
LEMMA DaysBefore ==
  ASSUME NEW t \in Nat, NEW n \in Nat, n * D <= t
  PROVE  DayOf(t) = DayOf(t - n * D) + n * D
<1>1. D \in Nat
  BY DayIsLong
<1>2. n * D \in Nat
  BY <1>1, SMT
<1> DEFINE m == n * D
           d == DayOf(t - n * D)
<1>3. t - m \in Nat
  BY <1>2
<1>4. d \in Nat /\ d <= t - m /\ t - m < d + D /\ IsDay(d)
  BY <1>3, DayOfTime DEF IsDay
<1>5. IsDay(d + m)
  BY <1>4, NextDay
<1> HIDE DEF m, d
<1>6. d + m <= t /\ t < (d + m) + D
  BY <1>1, <1>2, <1>4 DEF m
<1>7. DayOf(t) = d + m
  BY <1>5, <1>6, OneDay
<1> QED
  BY <1>7 DEF d, m
-----------------------------------------------------------------------------
(* Entries and their totals *)

\* The hours that have begun at a time.
Hours(t) == {h \in 0..t : h % Hour = 0}

\* Entries up to a time: for hours, how often something was executed.
IsEntries(e, t) ==
  /\ e = [h \in DOMAIN e |-> e[h]] /\ DOMAIN e \subseteq Hours(t)
  /\ \A h \in DOMAIN e : e[h] \in Nat

\* Entries are finitely many, with numbers that can be added up.
LEMMA EntriesAreNumbers ==
  ASSUME NEW t \in Nat, NEW e, IsEntries(e, t), NEW S
  PROVE  /\ IsFiniteSet(DOMAIN e) /\ Numbers(e, DOMAIN e \intersect S)
         /\ \A h \in DOMAIN e : h \in Nat
<1>1. IsFiniteSet(0..t)
  BY FS_Interval
<1>2. DOMAIN e \in SUBSET (0..t) /\ DOMAIN e \intersect S \in SUBSET (0..t)
  BY DEF IsEntries, Hours
<1>3. IsFiniteSet(DOMAIN e) /\ IsFiniteSet(DOMAIN e \intersect S)
  BY <1>1, <1>2, FS_Subset
<1> QED
  BY <1>2, <1>3 DEF Numbers, IsEntries

\* Total adds up the entries of the hours it is given.
LEMMA TotalIsSum ==
  ASSUME NEW t \in Nat, NEW e, IsEntries(e, t), NEW S
  PROVE  Total(e, S) = Sum(e, DOMAIN e \intersect S) /\ Total(e, S) \in Nat
<1> DEFINE o == Only(e, S)
           U == DOMAIN e \intersect S
<1>1. DOMAIN o = U /\ \A h \in U : e[h] = o[h]
  BY DEF Only
<1>2. Total(e, S) = Sum(o, DOMAIN o)
  BY DEF Total, SumFunction, Sum
<1>3. Numbers(e, U)
  BY EntriesAreNumbers
<1> HIDE DEF o, U
<1>4. Sum(e, U) = Sum(o, U)
  BY <1>1, <1>3, SumsAreEqual
<1>5. Sum(e, U) \in Nat
  BY <1>3, SumType
<1> QED
  BY <1>1, <1>2, <1>4, <1>5 DEF U

\* Only the hours that have entries matter.
LEMMA TotalOfSameHours ==
  ASSUME NEW e, NEW S, NEW T, DOMAIN e \intersect S = DOMAIN e \intersect T
  PROVE  Total(e, S) = Total(e, T)
  BY DEF Total, Only

\* The totals of two sets of hours without a common entry add up.
LEMMA TotalOfUnion ==
  ASSUME NEW t \in Nat, NEW e, IsEntries(e, t), NEW S, NEW T,
         \A h \in DOMAIN e : ~(h \in S /\ h \in T)
  PROVE  Total(e, S \union T) = Total(e, S) + Total(e, T)
<1> DEFINE A == DOMAIN e \intersect S
           B == DOMAIN e \intersect T
<1>1. Numbers(e, A) /\ Numbers(e, B)
  BY EntriesAreNumbers
<1>2. A \intersect B = {} /\ DOMAIN e \intersect (S \union T) = A \union B
  OBVIOUS
<1>3. Total(e, S \union T) = Sum(e, A \union B) /\ Total(e, S) = Sum(e, A) /\ Total(e, T) = Sum(e, B)
  BY <1>2, TotalIsSum
<1> HIDE DEF A, B
<1> QED
  BY <1>1, <1>2, <1>3, SumOfUnion

\* More hours have no smaller total.
LEMMA TotalOfMore ==
  ASSUME NEW t \in Nat, NEW e, IsEntries(e, t), NEW S, NEW T,
         \A h \in DOMAIN e : h \in S => h \in T
  PROVE  Total(e, S) <= Total(e, T)
<1> DEFINE R == T \ S
<1>1. Total(e, S \union R) = Total(e, S) + Total(e, R)
  BY TotalOfUnion
<1>2. Total(e, S \union R) = Total(e, T)
  <2>1. DOMAIN e \intersect (S \union R) = DOMAIN e \intersect T
    OBVIOUS
  <2> HIDE DEF R
  <2> QED
    BY <2>1, TotalOfSameHours
<1> HIDE DEF R
<1>3. Total(e, S) \in Nat /\ Total(e, R) \in Nat
  BY TotalIsSum
<1> QED
  BY <1>1, <1>2, <1>3

\* Entries that are not greater, hour by hour, are not greater in total.
LEMMA TotalsCompare ==
  ASSUME NEW t \in Nat, NEW e, IsEntries(e, t), NEW f, IsEntries(f, t), NEW S,
         \A h \in DOMAIN e : h \in S => h \in DOMAIN f /\ e[h] <= f[h]
  PROVE  Total(e, S) <= Total(f, S)
<1> DEFINE A == DOMAIN e \intersect S
<1>1. Numbers(e, A) /\ Numbers(f, DOMAIN f \intersect A) /\ DOMAIN f \intersect A = A
  BY EntriesAreNumbers
<1>2. Total(e, S) = Sum(e, A) /\ Total(f, A) = Sum(f, A)
  BY <1>1, TotalIsSum
<1>3. Sum(e, A) <= Sum(f, A)
  <2>1. \A h \in A : e[h] <= f[h]
    OBVIOUS
  <2> HIDE DEF A
  <2> QED
    BY <1>1, <2>1, SumsCompare
<1>4. Total(f, A) <= Total(f, S)
  BY TotalOfMore
<1>5. Total(e, S) \in Nat /\ Total(f, A) \in Nat /\ Total(f, S) \in Nat
  BY TotalIsSum
<1> HIDE DEF A
<1> QED
  BY <1>2, <1>3, <1>4, <1>5

\* The total of one hour.
LEMMA TotalOfOne ==
  ASSUME NEW t \in Nat, NEW e, IsEntries(e, t), NEW h \in DOMAIN e
  PROVE  Total(e, {h}) = e[h]
<1>1. DOMAIN e \intersect {h} = {h}
  OBVIOUS
<1>2. Numbers(e, {h}) /\ Total(e, {h}) = Sum(e, {h})
  BY <1>1, EntriesAreNumbers, TotalIsSum
<1>3. {h} \ {h} = {} /\ h \in {h}
  OBVIOUS
<1>4. Sum(e, {h}) = e[h] + Sum(e, {})
  <2> DEFINE s == {h}
  <2>1. Numbers(e, s) /\ h \in s /\ s \ {h} = {}
    BY <1>2
  <2> HIDE DEF s
  <2>2. Sum(e, s) = e[h] + Sum(e, s \ {h})
    BY <2>1, SumOfOneMore
  <2> QED
    BY <2>1, <2>2 DEF s
<1>5. e[h] \in Nat
  BY DEF IsEntries
<1> QED
  BY <1>2, <1>4, <1>5, SumOfNone

\* The total without entries.
LEMMA TotalOfNothing ==
  ASSUME NEW t \in Nat, NEW e, IsEntries(e, t), NEW S, \A h \in DOMAIN e : h \notin S
  PROVE  Total(e, S) = 0
<1>1. DOMAIN e \intersect S = {}
  OBVIOUS
<1> QED
  BY <1>1, TotalIsSum, SumOfNone

\* Entries stay entries as time passes.
LEMMA LaterEntries ==
  ASSUME NEW t \in Nat, NEW u \in Nat, t <= u, NEW e, IsEntries(e, t)
  PROVE  IsEntries(e, u)
<1>1. Hours(t) \subseteq Hours(u)
  BY DEF Hours
<1> QED
  BY <1>1 DEF IsEntries

\* One execution more is counted, of that hour.
LEMMA UpsertAddsOne ==
  ASSUME NEW t \in Nat, NEW e, IsEntries(e, t), NEW h \in Hours(t)
  PROVE  /\ IsEntries(Upsert(e, h), t)
         /\ DOMAIN Upsert(e, h) = DOMAIN e \union {h}
<1> DEFINE u == Upsert(e, h)
<1>1. /\ u = [k \in DOMAIN u |-> u[k]] /\ DOMAIN u = DOMAIN e \union {h}
      /\ \A k \in DOMAIN u : u[k] = Counted(e, k) + (IF k = h THEN 1 ELSE 0)
  BY DEF Upsert
<1>2. \A k : Counted(e, k) \in Nat
  BY DEF Counted, IsEntries
<1> HIDE DEF u
<1>3. \A k \in DOMAIN u : u[k] \in Nat
  BY <1>1, <1>2
<1>4. DOMAIN u \subseteq Hours(t)
  BY <1>1 DEF IsEntries
<1>5. IsEntries(u, t)
  BY <1>1, <1>3, <1>4 DEF IsEntries
<1> QED
  BY <1>1, <1>5 DEF u

\* The statement adds one to the hour and leaves the others alone.
LEMMA UpsertCounts ==
  ASSUME NEW t \in Nat, NEW e, IsEntries(e, t), NEW h
  PROVE  /\ Upsert(e, h)[h] = Counted(e, h) + 1
         /\ \A k \in DOMAIN e : k # h => Upsert(e, h)[k] = e[k]
         /\ Counted(e, h) \in Nat
<1>1. \A k \in DOMAIN e \union {h} : Upsert(e, h)[k] = Counted(e, k) + (IF k = h THEN 1 ELSE 0)
  BY DEF Upsert
<1>2. \A k : Counted(e, k) \in Nat /\ (k \in DOMAIN e => Counted(e, k) = e[k])
  BY DEF Counted, IsEntries
<1>3. \A k \in DOMAIN e : k # h => Upsert(e, h)[k] = e[k]
  BY <1>1, <1>2
<1>4. Upsert(e, h)[h] = Counted(e, h) + 1
  BY <1>1
<1> QED
  BY <1>2, <1>3, <1>4

\* One execution more is in the total of every window with its hour.
LEMMA TotalAfterUpsert ==
  ASSUME NEW t \in Nat, NEW e, IsEntries(e, t), NEW h \in Hours(t), NEW S
  PROVE  Total(Upsert(e, h), S) = Total(e, S) + (IF h \in S THEN 1 ELSE 0)
<1>0. IsEntries(Upsert(e, h), t) /\ DOMAIN Upsert(e, h) = DOMAIN e \union {h}
  BY UpsertAddsOne
<1>a. /\ Upsert(e, h)[h] = Counted(e, h) + 1
      /\ \A k \in DOMAIN e : k # h => Upsert(e, h)[k] = e[k]
  BY UpsertCounts
<1> DEFINE u == Upsert(e, h)
           R == S \ {h}
<1>1. /\ IsEntries(u, t) /\ DOMAIN u = DOMAIN e \union {h} /\ u[h] = Counted(e, h) + 1
      /\ \A k \in DOMAIN e : k # h => u[k] = e[k]
  BY <1>0, <1>a
<1> HIDE DEF u
<1>2. Total(u, R) = Total(e, R)
  <2>1. \A k \in DOMAIN u : k \in R => k \in DOMAIN e /\ u[k] = e[k] /\ e[k] \in Nat
    BY <1>1 DEF IsEntries
  <2>2. \A k \in DOMAIN e : k \in R => k \in DOMAIN u /\ u[k] = e[k] /\ e[k] \in Nat
    BY <1>1 DEF IsEntries
  <2> HIDE DEF R
  <2>3. Total(u, R) <= Total(e, R) /\ Total(e, R) <= Total(u, R)
    BY <1>1, <2>1, <2>2, TotalsCompare
  <2>4. Total(u, R) \in Nat /\ Total(e, R) \in Nat
    BY <1>1, TotalIsSum
  <2> QED
    BY <2>3, <2>4
<1>3. CASE h \notin S
  <2>1. R = S
    BY <1>3
  <2>2. Total(e, S) \in Nat
    BY TotalIsSum
  <2> HIDE DEF R
  <2> QED
    BY <1>2, <1>3, <2>1, <2>2 DEF u
<1>4. CASE h \in S
  <2>1. S = R \union {h} /\ h \notin R
    BY <1>4
  <2> HIDE DEF R
  <2>2. /\ Total(u, R \union {h}) = Total(u, R) + Total(u, {h})
        /\ Total(e, R \union {h}) = Total(e, R) + Total(e, {h})
    BY <1>1, <2>1, TotalOfUnion
  <2>3. Total(u, {h}) = Counted(e, h) + 1
    BY <1>1, TotalOfOne
  <2>4. Total(e, {h}) = Counted(e, h)
    <3>1. CASE h \in DOMAIN e
      BY <3>1, TotalOfOne DEF Counted
    <3>2. CASE h \notin DOMAIN e
      BY <3>2, TotalOfNothing DEF Counted
    <3> QED
      BY <3>1, <3>2
  <2>5. Total(e, R) \in Nat /\ Total(e, {h}) \in Nat
    BY TotalIsSum
  <2> QED
    BY <1>2, <1>4, <2>1, <2>2, <2>3, <2>4, <2>5 DEF u
<1> QED
  BY <1>3, <1>4
-----------------------------------------------------------------------------
(* Merging and cleaning up *)

\* The time, at which every threshold is a time.
Clock == now \in Nat /\ now >= Days(AgeCleanUp)

\* Where the thresholds lie.
LEMMA TimeLine ==
  ASSUME Clock
  PROVE  /\ MinThreshold \in Nat /\ IsDay(MinThreshold) /\ MaxThreshold \in Nat
         /\ MaxThreshold = now - Days(Retention)
         /\ MinThreshold <= now - Days(HourlyBuffer) /\ now - Days(HourlyBuffer) < MinThreshold + D
         /\ DayOf(now) = MinThreshold + HourlyBuffer * D
         /\ DayOf(MaxThreshold) + (Retention - HourlyBuffer) * D = MinThreshold
         /\ DayOf(MaxThreshold) \in Nat /\ IsDay(DayOf(MaxThreshold))
         /\ DayOf(MaxThreshold) <= MaxThreshold /\ MaxThreshold < MinThreshold
         /\ Days(HourlyBuffer) = HourlyBuffer * D /\ Days(Retention) = Retention * D
<1> DEFINE b == HourlyBuffer
           r == Retention
           a == b * D
           c == r * D
           m == now - a
           x == now - c
<1>1. b \in Nat /\ r \in Nat /\ b < r /\ r - b \in Nat /\ D \in Nat /\ D >= 4
  BY UptimeAssumption, DayIsLong
<1>2. Days(HourlyBuffer) = a /\ Days(Retention) = c
  BY <1>1, DaysAreMultiples
<1>3. a \in Nat /\ c \in Nat /\ a + D <= c /\ c + D <= now /\ now \in Nat
  BY <1>1, <1>2, Thresholds DEF Clock
<1>4. m \in Nat /\ x \in Nat
  BY <1>1, <1>3
<1>5. MinThreshold = DayOf(m) /\ MaxThreshold = x
  BY <1>2 DEF MinThreshold, MaxThreshold
<1>6. /\ DayOf(m) \in Nat /\ IsDay(DayOf(m)) /\ DayOf(m) <= m /\ m < DayOf(m) + D
      /\ DayOf(x) \in Nat /\ IsDay(DayOf(x)) /\ DayOf(x) <= x /\ x < DayOf(x) + D
  BY <1>4, DayOfTime DEF IsDay
<1>7. DayOf(now) = DayOf(m) + b * D
  <2>1. b * D <= now
    BY <1>1, <1>3
  <2> HIDE DEF b
  <2> QED
    BY <1>1, <1>3, <2>1, DaysBefore
<1>8. DayOf(m) = DayOf(x) + (r - b) * D
  <2>1. (r - b) * D = c - a
    <3>1. \A i, j, k \in Nat : (i - j) * k = i * k - j * k
      BY SMT
    <3> QED
      BY <1>1, <3>1
  <2>2. m - (r - b) * D = x /\ (r - b) * D <= m
    BY <1>1, <1>3, <1>4, <2>1
  <2> HIDE DEF m, x, r, b
  <2> QED
    BY <1>1, <1>4, <2>2, DaysBefore
<1>9. (r - b) * D \in Nat /\ (r - b) * D = c - a
  <2>1. \A i, j, k \in Nat : (i - j) * k = i * k - j * k
    BY SMT
  <2> QED
    BY <1>1, <1>3, <2>1
<1>10. x < DayOf(m)
  BY <1>1, <1>3, <1>6, <1>9
<1> HIDE DEF m, x
<1>11. m = now - Days(HourlyBuffer) /\ x = now - Days(Retention)
  BY <1>2 DEF m, x
<1> QED
  BY <1>1, <1>2, <1>4, <1>5, <1>6, <1>7, <1>8, <1>9, <1>10, <1>11

\* The times of a day.
DayHours(d) == d..(d + D - 1)

\* Two tables have the same entries from a time on.
AgreeFrom(e, f, t) ==
  \A h \in Nat : h >= t => /\ h \in DOMAIN e <=> h \in DOMAIN f
                           /\ h \in DOMAIN e => e[h] = f[h]

\* Rewritten entries count nothing more, and nothing less within the retention.
NoMore(e, f) ==
  /\ IsEntries(e, now)
  /\ AgreeFrom(e, f, MinThreshold)
  /\ \A h \in DOMAIN e : DayOf(h) # h => h \in DOMAIN f /\ e[h] = f[h]
  /\ \A d : IsDay(d) => Total(e, DayHours(d)) <= Total(f, DayHours(d))

NoLess(e, f) ==
  \A d : IsDay(d) /\ d >= MaxThreshold => Total(e, DayHours(d)) >= Total(f, DayHours(d))

\* Only restricts entries.
LEMMA OnlySome ==
  ASSUME NEW t \in Nat, NEW e, IsEntries(e, t), NEW S
  PROVE  /\ IsEntries(Only(e, S), t) /\ DOMAIN Only(e, S) = DOMAIN e \intersect S
         /\ \A h \in DOMAIN e : h \in S => Only(e, S)[h] = e[h]
  BY DEF Only, IsEntries

\* What a clean-up keeps.
Trimmed(c, e) ==
  /\ IsEntries(c, now) /\ DOMAIN c \subseteq DOMAIN e
  /\ \A h \in DOMAIN c : c[h] = e[h]
  /\ \A h \in DOMAIN e : h >= now - (Days(Retention) + Hour) => h \in DOMAIN c

\* Keeping every entry is such a clean-up.
LEMMA NothingIsTrimmed ==
  ASSUME NEW e, IsEntries(e, now)
  PROVE  Trimmed(e, e)
  BY DEF Trimmed

\* Keeping the retained entries is one.
LEMMA RetainedIsTrimmed ==
  ASSUME Clock, NEW e, IsEntries(e, now)
  PROVE  Trimmed(Only(e, Retained(e)), e)
<1> DEFINE c == Only(e, Retained(e))
<1>1. IsEntries(c, now) /\ DOMAIN c = DOMAIN e \intersect Retained(e)
  BY OnlySome DEF Clock
<1>2. \A h \in DOMAIN c : c[h] = e[h]
  BY OnlySome DEF Clock
<1>3. \A h \in DOMAIN e : h >= now - (Days(Retention) + Hour) => h \in Retained(e)
  BY DEF Retained
<1> HIDE DEF c
<1>4. Trimmed(c, e)
  BY <1>1, <1>2, <1>3 DEF Trimmed
<1> QED
  BY <1>4 DEF c

\* So is deleteOldUptimeEntries, whether it deletes or not.
LEMMA CleanUpTrims ==
  ASSUME Clock, NEW e, IsEntries(e, now)
  PROVE  Trimmed(CleanedUp(e), e)
  BY NothingIsTrimmed, RetainedIsTrimmed DEF CleanedUp

\* A clean-up leaves what the retention covers as it was.
LEMMA TrimmedAgree ==
  ASSUME Clock, NEW e, IsEntries(e, now), NEW c, Trimmed(c, e)
  PROVE  AgreeFrom(c, e, now - (Days(Retention) + Hour))
  BY EntriesAreNumbers DEF Trimmed, AgreeFrom, Clock

\* A clean-up adds nothing and takes nothing from a day of the retention.
LEMMA TrimmingIsFaithful ==
  ASSUME Clock, NEW e, IsEntries(e, now), NEW c, Trimmed(c, e)
  PROVE  NoMore(c, e) /\ NoLess(c, e)
<1>0. /\ MinThreshold \in Nat /\ MaxThreshold \in Nat /\ MaxThreshold < MinThreshold
      /\ MaxThreshold = now - Days(Retention) /\ now \in Nat /\ Days(Retention) \in Nat
  BY TimeLine, Thresholds DEF Clock
<1>1. IsEntries(c, now) /\ (\A h \in DOMAIN c : h \in DOMAIN e /\ c[h] = e[h])
  BY DEF Trimmed
<1>2. \A h \in DOMAIN e : h \in Nat /\ (h >= MaxThreshold => h \in DOMAIN c)
  <2>1. \A h \in DOMAIN e : h \in Nat
    BY <1>0, EntriesAreNumbers
  <2> QED
    BY <1>0, <2>1 DEF Trimmed, Hour
<1>3. (\A h \in DOMAIN e : e[h] \in Nat) /\ (\A h \in DOMAIN c : c[h] \in Nat)
  BY <1>1 DEF IsEntries
<1>4. AgreeFrom(c, e, MinThreshold)
  BY <1>0, <1>1, <1>2 DEF AgreeFrom
<1>5. ASSUME NEW S PROVE Total(c, S) <= Total(e, S)
  <2>1. \A h \in DOMAIN c : h \in S => h \in DOMAIN e /\ c[h] <= e[h]
    BY <1>1, <1>3
  <2> QED
    BY <1>0, <1>1, <2>1, TotalsCompare
<1>6. ASSUME NEW d, IsDay(d), d >= MaxThreshold
      PROVE  Total(e, DayHours(d)) <= Total(c, DayHours(d))
  <2>1. \A h \in DOMAIN e : h \in DayHours(d) => h \in DOMAIN c /\ e[h] <= c[h]
    <3>1. d \in Nat /\ D \in Nat
      BY <1>6, DayIsNumber, DayIsLong
    <3>2. \A h \in DayHours(d) : h >= MaxThreshold
      BY <1>0, <1>6, <3>1 DEF DayHours
    <3> QED
      BY <1>1, <1>2, <1>3, <3>2
  <2> QED
    BY <1>0, <1>1, <2>1, TotalsCompare
<1>7. \A d : Total(c, DayHours(d)) \in Nat /\ Total(e, DayHours(d)) \in Nat
  BY <1>0, <1>1, TotalIsSum
<1>8. NoMore(c, e)
  BY <1>1, <1>4, <1>5 DEF NoMore
<1>9. NoLess(c, e)
  BY <1>6, <1>7 DEF NoLess
<1> QED
  BY <1>8, <1>9

\* The hours that are merged, and those that are not.
Mergeable(e) == {h \in DOMAIN e : MaxThreshold <= h /\ h < MinThreshold}
Recent(e) == {h \in DOMAIN e : h >= MinThreshold}

\* The merged entries: the hours from the threshold on, and days before it.
LEMMA Merging ==
  ASSUME Clock, NEW e, IsEntries(e, now), NEW missing
  PROVE  /\ IsEntries(Merged(e, missing), now)
         /\ DOMAIN Merged(e, missing) = Recent(e) \union ({DayOf(h) : h \in Mergeable(e)} \ missing)
         /\ \A h \in Recent(e) : Merged(e, missing)[h] = e[h]
         /\ \A h \in DOMAIN Merged(e, missing) \ Recent(e) :
              /\ IsDay(h) /\ h \in Nat /\ h < MinThreshold
              /\ Merged(e, missing)[h] = SumOfDay(e, h, Mergeable(e))
<1> DEFINE m == Merged(e, missing)
           days == {DayOf(h) : h \in Mergeable(e)} \ missing
<1>1. /\ m = [h \in DOMAIN m |-> m[h]] /\ DOMAIN m = Recent(e) \union days
      /\ \A h \in DOMAIN m : m[h] = IF h \in Recent(e) THEN e[h]
                                    ELSE SumOfDay(e, h, Mergeable(e))
  BY DEF Merged, Mergeable, Recent
<1>2. MinThreshold \in Nat /\ now \in Nat /\ MinThreshold <= now
  <2>1. Days(HourlyBuffer) \in Nat
    BY Thresholds
  <2> QED
    BY <2>1, TimeLine DEF Clock
<1>3. ASSUME NEW h \in days PROVE IsDay(h) /\ h \in Nat /\ h < MinThreshold /\ h \in Hours(now)
  <2>1. PICK k \in Mergeable(e) : h = DayOf(k)
    OBVIOUS
  <2>2. k \in Nat /\ k < MinThreshold
    BY <1>2, EntriesAreNumbers DEF Mergeable
  <2>3. IsDay(h) /\ h \in Nat /\ h <= k
    BY <2>1, <2>2, DayOfTime DEF IsDay
  <2>4. h % Hour = 0
    BY <2>3, DayIsHour
  <2> QED
    BY <1>2, <2>2, <2>3, <2>4 DEF Hours
<1>4. \A h \in Recent(e) : h \in Hours(now) /\ e[h] \in Nat
  BY DEF Recent, IsEntries
<1>5. \A h : SumOfDay(e, h, Mergeable(e)) \in Nat
  BY <1>2, TotalIsSum DEF SumOfDay
<1> HIDE DEF m, days
<1>6. IsEntries(m, now)
  <2>1. DOMAIN m \subseteq Hours(now)
    BY <1>1, <1>3, <1>4
  <2>2. \A h \in DOMAIN m : m[h] \in Nat
    BY <1>1, <1>4, <1>5
  <2> QED
    BY <1>1, <2>1, <2>2 DEF IsEntries
<1>7. \A h \in Recent(e) : m[h] = e[h]
  BY <1>1
<1>8. \A h \in DOMAIN m \ Recent(e) :
         /\ IsDay(h) /\ h \in Nat /\ h < MinThreshold
         /\ m[h] = SumOfDay(e, h, Mergeable(e))
  BY <1>1, <1>3
<1>9. DOMAIN m = Recent(e) \union days
  BY <1>1
<1> QED
  BY <1>6, <1>7, <1>8, <1>9 DEF m, days

\* Merging adds nothing to a day and, when every daily row is inserted, takes
\* nothing from a day of the retention.
LEMMA MergingIsFaithful ==
  ASSUME Clock, NEW e, IsEntries(e, now), NEW missing
  PROVE  /\ NoMore(Merged(e, missing), e)
         /\ missing = {} => NoLess(Merged(e, missing), e)
<1>1. IsEntries(Merged(e, missing), now)
  BY Merging
<1>2. DOMAIN Merged(e, missing) = Recent(e) \union ({DayOf(h) : h \in Mergeable(e)} \ missing)
  BY Merging
<1>3. \A h \in Recent(e) : Merged(e, missing)[h] = e[h]
  BY Merging
<1>4. \A h \in DOMAIN Merged(e, missing) \ Recent(e) :
         /\ IsDay(h) /\ h \in Nat /\ h < MinThreshold
         /\ Merged(e, missing)[h] = SumOfDay(e, h, Mergeable(e))
  BY Merging
<1> DEFINE m == Merged(e, missing)
<1> HIDE DEF m
<1>5. /\ IsEntries(m, now) /\ Recent(e) \subseteq DOMAIN m
      /\ \A h \in Recent(e) : m[h] = e[h]
      /\ \A h \in DOMAIN m : h \notin Recent(e) =>
           /\ IsDay(h) /\ h \in Nat /\ h < MinThreshold
           /\ m[h] = SumOfDay(e, h, Mergeable(e))
  BY <1>1, <1>2, <1>3, <1>4 DEF m
<1>6. missing = {} => \A h \in Mergeable(e) : DayOf(h) \in DOMAIN m
  BY <1>2 DEF m
<1>7. MinThreshold \in Nat /\ MaxThreshold \in Nat /\ now \in Nat /\ IsDay(MinThreshold)
  BY TimeLine DEF Clock
<1>8. \A h \in DOMAIN e : h \in Nat /\ e[h] \in Nat
  BY <1>7, EntriesAreNumbers DEF IsEntries
<1>9. \A h \in DOMAIN m : h \in Nat
  BY <1>5, <1>7, EntriesAreNumbers
<1>10. AgreeFrom(m, e, MinThreshold)
  BY <1>5, <1>7, <1>8, <1>9 DEF AgreeFrom, Recent
<1>11. \A h \in DOMAIN m : DayOf(h) # h => h \in DOMAIN e /\ m[h] = e[h]
  <2>1. ASSUME NEW h \in DOMAIN m, h \notin Recent(e) PROVE DayOf(h) = h
    <3>1. IsDay(h) /\ h \in Nat /\ D \in Nat /\ D >= 4
      BY <1>5, <2>1, DayIsLong
    <3> QED
      BY <3>1, OneDay
  <2> QED
    BY <1>5, <2>1 DEF Recent
<1>12. ASSUME NEW d, IsDay(d)
       PROVE  /\ Total(m, DayHours(d)) <= Total(e, DayHours(d))
              /\ missing = {} /\ d >= MaxThreshold => Total(m, DayHours(d)) >= Total(e, DayHours(d))
  <2>0. d \in Nat /\ D \in Nat /\ D >= 4
    BY <1>12, DayIsNumber, DayIsLong
  <2>1. Total(m, DayHours(d)) \in Nat /\ Total(e, DayHours(d)) \in Nat
    BY <1>5, <1>7, TotalIsSum
  <2>2. CASE d >= MinThreshold
    <3>1. \A h \in DayHours(d) : h \in Nat /\ h >= MinThreshold
      BY <1>7, <2>0, <2>2 DEF DayHours
    <3>2. \A h \in DayHours(d) : (h \in DOMAIN m => h \in DOMAIN e /\ m[h] = e[h])
                                 /\ (h \in DOMAIN e => h \in DOMAIN m /\ m[h] = e[h])
      BY <1>10, <3>1 DEF AgreeFrom
    <3>3. /\ \A h \in DOMAIN m : h \in DayHours(d) => h \in DOMAIN e /\ m[h] <= e[h]
          /\ \A h \in DOMAIN e : h \in DayHours(d) => h \in DOMAIN m /\ e[h] <= m[h]
      BY <1>8, <3>2
    <3> QED
      BY <1>5, <1>7, <2>1, <3>3, TotalsCompare
  <2>3. CASE d < MinThreshold
    <3>1. d + D <= MinThreshold
      BY <1>7, <1>12, <2>3, DaysAreApart
    <3>2. \A h \in DayHours(d) : h \in Nat /\ h < MinThreshold /\ DayOf(h) = d /\ h >= d
      <4>1. \A h \in DayHours(d) : h \in Nat /\ h < MinThreshold /\ d <= h /\ h < d + D
        BY <1>7, <2>0, <3>1 DEF DayHours
      <4> QED
        BY <1>12, <4>1, OneDay
    <3>3. d \in DayHours(d)
      BY <2>0 DEF DayHours
    <3>4. \A h \in DOMAIN m : h \in DayHours(d) => h = d
      <4>1. ASSUME NEW h \in DOMAIN m, h \in DayHours(d) PROVE h = d
        <5>1. h \in Nat /\ h < MinThreshold /\ DayOf(h) = d
          BY <3>2, <4>1
        <5>2. h \notin Recent(e)
          BY <1>7, <5>1 DEF Recent
        <5>3. IsDay(h)
          BY <1>5, <5>2
        <5>4. DayOf(h) = h
          BY <2>0, <5>1, <5>3, OneDay
        <5> QED
          BY <5>1, <5>4
      <4> QED
        BY <4>1
    <3>5. d >= MaxThreshold => \A h \in DOMAIN e : h \in DayHours(d) => h \in Mergeable(e)
      BY <1>7, <1>8, <2>0, <3>2 DEF Mergeable
    <3>6. CASE d \in DOMAIN m
      <4> DEFINE s == {h \in Mergeable(e) : DayOf(h) = d}
      <4>1. d \notin Recent(e)
        BY <1>7, <2>0, <2>3 DEF Recent
      <4>2. m[d] = Total(e, s)
        BY <1>5, <3>6, <4>1 DEF SumOfDay
      <4>3. Total(m, DayHours(d)) = m[d]
        <5>1. DOMAIN m \intersect DayHours(d) = DOMAIN m \intersect {d}
          BY <3>3, <3>4
        <5>2. Total(m, DayHours(d)) = Total(m, {d})
          BY <5>1, TotalOfSameHours
        <5>3. Total(m, {d}) = m[d]
          BY <1>5, <1>7, <3>6, TotalOfOne
        <5> QED
          BY <5>2, <5>3
      <4>4. Total(e, s) <= Total(e, DayHours(d))
        <5>1. \A h \in DOMAIN e : h \in s => h \in DayHours(d)
          <6>1. \A h \in DOMAIN e : DayOf(h) = d => d <= h /\ h < d + D
            BY <1>8, <1>12, OneDay
          <6> QED
            BY <1>8, <2>0, <6>1 DEF DayHours
        <5> HIDE DEF s
        <5> QED
          BY <1>7, <5>1, TotalOfMore
      <4>5. d >= MaxThreshold => Total(e, DayHours(d)) <= Total(e, s)
        <5>1. d >= MaxThreshold => \A h \in DOMAIN e : h \in DayHours(d) => h \in s
          BY <3>2, <3>5
        <5> HIDE DEF s
        <5> QED
          BY <1>7, <5>1, TotalOfMore
      <4> HIDE DEF s
      <4> QED
        BY <2>1, <4>2, <4>3, <4>4, <4>5
    <3>7. CASE d \notin DOMAIN m
      <4>1. Total(m, DayHours(d)) = 0
        <5>1. \A h \in DOMAIN m : h \notin DayHours(d)
          BY <3>4, <3>7
        <5> QED
          BY <1>5, <1>7, <5>1, TotalOfNothing
      <4>2. missing = {} /\ d >= MaxThreshold => Total(e, DayHours(d)) = 0
        <5>1. missing = {} /\ d >= MaxThreshold => \A h \in DOMAIN e : h \notin DayHours(d)
          BY <1>6, <3>2, <3>5, <3>7
        <5> QED
          BY <1>7, <5>1, TotalOfNothing
      <4> QED
        BY <2>1, <4>1, <4>2
    <3> QED
      BY <3>6, <3>7
  <2> QED
    BY <1>7, <2>0, <2>2, <2>3
<1>13. NoMore(m, e)
  BY <1>5, <1>10, <1>11, <1>12 DEF NoMore
<1>14. missing = {} => NoLess(m, e)
  BY <1>12 DEF NoLess
<1> QED
  BY <1>13, <1>14 DEF m

\* Entries that stay are counted once.
LEMMA SameIsFaithful ==
  ASSUME Clock, NEW e, IsEntries(e, now)
  PROVE  NoMore(e, e) /\ NoLess(e, e)
  BY NothingIsTrimmed, TrimmingIsFaithful

\* Rewriting faithfully twice is faithful.
LEMMA FaithfulTwice ==
  ASSUME Clock, NEW e, NEW f, NEW g, NoMore(e, f), NoMore(f, g), IsEntries(g, now)
  PROVE  /\ NoMore(e, g)
         /\ NoLess(e, f) /\ NoLess(f, g) => NoLess(e, g)
<1>1. now \in Nat /\ MinThreshold \in Nat
  BY TimeLine DEF Clock
<1>2. IsEntries(e, now) /\ IsEntries(f, now)
  BY DEF NoMore
<1>3. \A S : Total(e, S) \in Nat /\ Total(f, S) \in Nat /\ Total(g, S) \in Nat
  BY <1>1, <1>2, TotalIsSum
<1>4. AgreeFrom(e, g, MinThreshold)
  BY DEF NoMore, AgreeFrom
<1>5. \A h \in DOMAIN e : DayOf(h) # h => h \in DOMAIN g /\ e[h] = g[h]
  BY DEF NoMore
<1>6. \A d : IsDay(d) => Total(e, DayHours(d)) <= Total(g, DayHours(d))
  BY <1>3 DEF NoMore
<1>7. NoMore(e, g)
  BY <1>2, <1>4, <1>5, <1>6 DEF NoMore
<1>8. NoLess(e, f) /\ NoLess(f, g) => NoLess(e, g)
  BY <1>3 DEF NoLess
<1> QED
  BY <1>7, <1>8

\* What is cleaned up after it was merged, or not.
LEMMA CleaningUpIsFaithful ==
  ASSUME Clock, NEW e, IsEntries(e, now), NEW x, NoMore(x, e)
  PROVE  /\ NoMore(CleanedUp(x), e)
         /\ NoLess(x, e) => NoLess(CleanedUp(x), e)
         /\ DOMAIN CleanedUp(x) \subseteq DOMAIN x
<1>1. IsEntries(x, now)
  BY DEF NoMore
<1>2. Trimmed(CleanedUp(x), x)
  BY <1>1, CleanUpTrims
<1>3. NoMore(CleanedUp(x), x) /\ NoLess(CleanedUp(x), x)
  BY <1>1, <1>2, TrimmingIsFaithful
<1>4. NoMore(CleanedUp(x), e) /\ (NoLess(x, e) => NoLess(CleanedUp(x), e))
  BY <1>3, FaithfulTwice
<1> QED
  BY <1>2, <1>4 DEF Trimmed
-----------------------------------------------------------------------------
(* How many entries there are *)

\* What n numbers count off has at most n elements.
LEMMA CountedOff ==
  ASSUME NEW n \in Nat, NEW f, NEW S, S \subseteq {f[k] : k \in 0..(n - 1)}
  PROVE  IsFiniteSet(S) /\ Cardinality(S) \in Nat /\ Cardinality(S) <= n
<1> DEFINE Q == 0..(n - 1)
           image == {f[k] : k \in Q}
<1>1. IsFiniteSet(Q) /\ Cardinality(Q) = n
  BY FS_Interval
<1> HIDE DEF Q
<1>2. IsFiniteSet(image) /\ Cardinality(image) <= Cardinality(Q)
  BY <1>1, ImageIsSmaller
<1>3. S \in SUBSET image
  BY DEF Q
<1> HIDE DEF image
<1>4. /\ IsFiniteSet(S) /\ Cardinality(S) \in Nat /\ Cardinality(image) \in Nat
      /\ Cardinality(S) <= Cardinality(image)
  BY <1>2, <1>3, SmallerSubset
<1> QED
  BY <1>1, <1>2, <1>4

\* The hours of a span of n hours are at most n.
LEMMA HoursBetween ==
  ASSUME NEW a \in Nat, NEW n \in Nat, NEW S,
         \A h \in S : h \in Nat /\ h % Hour = 0 /\ a <= h /\ h < a + 2 * n
  PROVE  IsFiniteSet(S) /\ Cardinality(S) \in Nat /\ Cardinality(S) <= n
<1> DEFINE b == (a + 1) \div 2
           f == [k \in Nat |-> 2 * (b + k)]
<1>1. b \in Nat /\ a <= 2 * b /\ 2 * b <= a + 1
  BY SMT
<1> HIDE DEF b
<1>2. ASSUME NEW h \in S PROVE h \in {f[k] : k \in 0..(n - 1)}
  <2>1. h \in Nat /\ a <= h /\ h < a + 2 * n /\ h % 2 = 0
    BY <1>2 DEF Hour
  <2> DEFINE q == h \div 2
             k == q - b
  <2>2. q \in Nat /\ h = 2 * q
    BY <2>1, SMT
  <2> HIDE DEF q
  <2>3. k \in 0..(n - 1) /\ b + k = q
    BY <1>1, <2>1, <2>2
  <2> HIDE DEF k
  <2>4. k \in Nat
    BY <2>3
  <2>5. f[k] = 2 * (b + k)
    BY <2>4
  <2>6. f[k] = h
    BY <2>2, <2>3, <2>5
  <2> QED
    BY <2>3, <2>6
<1> HIDE DEF f
<1> QED
  BY <1>2, CountedOff

\* The days of a span of n days are at most n.
LEMMA DaysBetween ==
  ASSUME NEW a, IsDay(a), NEW n \in Nat, NEW S,
         \A h \in S : IsDay(h) /\ a <= h /\ h < a + n * D
  PROVE  IsFiniteSet(S) /\ Cardinality(S) \in Nat /\ Cardinality(S) <= n
<1>1. PICK p \in Nat : a = p * D
  BY DEF IsDay
<1> DEFINE f == [k \in Nat |-> (p + k) * D]
<1>2. D \in Nat /\ D >= 4
  BY DayIsLong
<1>3. ASSUME NEW h \in S PROVE h \in {f[k] : k \in 0..(n - 1)}
  <2>1. PICK q \in Nat : h = q * D
    BY <1>3 DEF IsDay
  <2>2. p * D \in Nat /\ q * D \in Nat /\ n * D \in Nat
    BY <1>2, SMT
  <2>3. p * D <= q * D /\ q * D < p * D + n * D
    BY <1>1, <1>3, <2>1
  <2>4. p <= q
    <3> SUFFICES ASSUME q + 1 <= p PROVE FALSE
      OBVIOUS
    <3>1. (q + 1) * D <= p * D
      BY <1>2, Monotone
    <3>2. (q + 1) * D = q * D + D
      BY <1>2, SMT
    <3> QED
      BY <1>2, <2>2, <2>3, <3>1, <3>2
  <2>5. q < p + n
    <3> SUFFICES ASSUME p + n <= q PROVE FALSE
      OBVIOUS
    <3>1. (p + n) * D <= q * D
      BY <1>2, Monotone
    <3>2. (p + n) * D = p * D + n * D
      BY <1>2, SMT
    <3> QED
      BY <1>2, <2>2, <2>3, <3>1, <3>2
  <2> DEFINE k == q - p
  <2>6. k \in 0..(n - 1) /\ k \in Nat /\ p + k = q
    BY <2>4, <2>5
  <2> HIDE DEF k
  <2>7. f[k] = (p + k) * D
    BY <2>6
  <2>8. f[k] = h
    BY <2>1, <2>6, <2>7
  <2> QED
    BY <2>6, <2>8
<1> HIDE DEF f
<1> QED
  BY <1>3, CountedOff

\* What merging leaves: the hours of the buffer and a day for each before it.
LEMMA MergedAreFew ==
  ASSUME Clock, NEW e, IsEntries(e, now), NEW missing
  PROVE  Cardinality(DOMAIN Merged(e, missing)) <= (HourlyBuffer + 1) * Day + Retention - HourlyBuffer
<1> DEFINE days == {DayOf(h) : h \in Mergeable(e)} \ missing
           n == (HourlyBuffer + 1) * Day
           k == Retention - HourlyBuffer
           m == DOMAIN Merged(e, missing)
           a == MinThreshold
           c == DayOf(MaxThreshold)
<1>0. n \in Nat /\ k \in Nat /\ D \in Nat
  <2>1. HourlyBuffer + 1 \in Nat /\ Day \in Nat
    BY UptimeAssumption
  <2>2. \A i, j \in Nat : i * j \in Nat
    BY SMT
  <2> QED
    BY <2>1, <2>2, UptimeAssumption, DayIsLong
<1>1. /\ a \in Nat /\ now \in Nat /\ IsDay(c) /\ c \in Nat /\ c + k * D = a
      /\ DayOf(now) = a + HourlyBuffer * D /\ MaxThreshold \in Nat
  BY TimeLine DEF Clock
<1>2. now < a + 2 * n
  <2>1. DayOf(now) \in Nat /\ now < DayOf(now) + D
    BY <1>1, DayOfTime
  <2>2. HourlyBuffer * D + D = 2 * n
    <3>1. \A i, j \in Nat : i * (j * 2) + j * 2 = 2 * ((i + 1) * j)
      BY SMT
    <3>2. D = Day * 2
      BY DEF D, Hour
    <3> HIDE DEF n
    <3>3. HourlyBuffer \in Nat /\ Day \in Nat
      BY UptimeAssumption
    <3>4. HourlyBuffer * (Day * 2) + Day * 2 = 2 * ((HourlyBuffer + 1) * Day)
      BY <3>1, <3>3
    <3> QED
      BY <3>2, <3>4 DEF n
  <2>3. HourlyBuffer * D \in Nat
    <3>1. \A i, j \in Nat : i * j \in Nat
      BY SMT
    <3> QED
      BY <1>0, <3>1, UptimeAssumption
  <2> HIDE DEF n, a
  <2> QED
    BY <1>0, <1>1, <2>1, <2>2, <2>3
<1>3. \A h \in Recent(e) : h \in Nat /\ h % Hour = 0 /\ a <= h /\ h < a + 2 * n
  <2>1. \A h \in Recent(e) : h \in Hours(now) /\ a <= h
    BY <1>1 DEF Recent, IsEntries
  <2> HIDE DEF a, n
  <2> QED
    BY <1>0, <1>1, <1>2, <2>1 DEF Hours
<1>4. \A h \in days : IsDay(h) /\ c <= h /\ h < c + k * D
  <2>1. ASSUME NEW h \in Mergeable(e)
        PROVE  IsDay(DayOf(h)) /\ c <= DayOf(h) /\ DayOf(h) < a
    <3>1. h \in Nat /\ MaxThreshold <= h /\ h < a
      BY <1>1, EntriesAreNumbers DEF Mergeable
    <3>2. c <= MaxThreshold
      BY TimeLine
    <3>3. c <= h
      BY <1>1, <3>1, <3>2
    <3>4. DayOf(h) \in Nat /\ DayOf(h) <= h
      BY <3>1, DayOfTime
    <3> HIDE DEF c, a
    <3>5. IsDay(DayOf(h)) /\ c <= DayOf(h)
      BY <1>1, <3>1, <3>3, OneDay
    <3> QED
      BY <1>1, <3>1, <3>4, <3>5
  <2> HIDE DEF c, a
  <2> QED
    BY <1>1, <2>1
<1>5. m = Recent(e) \union days
  BY Merging
<1> HIDE DEF a, c, n, k, m, days
<1>6. IsFiniteSet(Recent(e)) /\ Cardinality(Recent(e)) \in Nat /\ Cardinality(Recent(e)) <= n
  BY <1>0, <1>1, <1>3, HoursBetween
<1>7. IsFiniteSet(days) /\ Cardinality(days) \in Nat /\ Cardinality(days) <= k
  BY <1>0, <1>1, <1>4, DaysBetween
<1>8. Cardinality(m) \in Nat /\ Cardinality(m) <= n + k
  BY <1>0, <1>5, <1>6, <1>7, UnionOfTwo
<1>9. n + k = (HourlyBuffer + 1) * Day + Retention - HourlyBuffer
  BY <1>0, UptimeAssumption DEF n, k
<1> QED
  BY <1>8, <1>9 DEF m

\* What the clean-up of the memory keeps is below its threshold.
LEMMA RetainedAreFew ==
  ASSUME Clock, NEW e, IsEntries(e, now)
  PROVE  Cardinality(DOMAIN Only(e, Retained(e))) <= AgeCleanUp * Day
<1> DEFINE s == DOMAIN Only(e, Retained(e))
           c == Retention * D
           a == now - (c + 2)
           n == Retention * Day + 2
<1>1. now \in Nat /\ D \in Nat /\ D >= 4 /\ Days(Retention) = c /\ c + D <= now /\ c \in Nat
  BY TimeLine, DayIsLong, Thresholds DEF Clock
<1>2. \A h \in s : h \in Nat /\ h % Hour = 0 /\ h <= now /\ a <= h
  <2>1. s \subseteq DOMAIN e /\ s \subseteq Retained(e)
    BY DEF Only
  <2>2. \A h \in s : h \in Hours(now) /\ h >= now - (c + 2)
    BY <1>1, <2>1 DEF IsEntries, Retained, Hour
  <2> QED
    BY <1>1, <2>2 DEF Hours
<1>3. Retention \in Nat /\ Day \in Nat /\ 2 <= Day /\ AgeCleanUp \in Nat /\ Retention + 1 <= AgeCleanUp
  BY UptimeAssumption
<1>4. n \in Nat /\ 2 * n = c + 4 /\ n <= AgeCleanUp * Day /\ AgeCleanUp * Day \in Nat
  <2>1. \A i, j \in Nat : i * j \in Nat
    BY SMT
  <2>2. \A i, j \in Nat : i * (j * 2) = 2 * (i * j)
    BY SMT
  <2>3. D = Day * 2
    BY DEF D, Hour
  <2>4. (Retention + 1) * Day <= AgeCleanUp * Day
    BY <1>3, Monotone
  <2>5. (Retention + 1) * Day = Retention * Day + Day
    BY <1>3, SMT
  <2>6. Retention * Day \in Nat /\ AgeCleanUp * Day \in Nat /\ c = 2 * (Retention * Day)
    BY <1>3, <2>1, <2>2, <2>3
  <2> QED
    BY <1>3, <2>4, <2>5, <2>6
<1>5. a \in Nat /\ now < a + 2 * n
  BY <1>1, <1>4
<1>6. \A h \in s : h \in Nat /\ h % Hour = 0 /\ a <= h /\ h < a + 2 * n
  BY <1>1, <1>2, <1>4, <1>5
<1> HIDE DEF a, c, n, s
<1>7. Cardinality(s) \in Nat /\ Cardinality(s) <= n
  BY <1>4, <1>5, <1>6, HoursBetween
<1> QED
  BY <1>4, <1>7 DEF s
-----------------------------------------------------------------------------
(* The inductive invariant *)

\* What EntriesAreBounded allows the rows.
RowsAtMost == Max({MergeThreshold, (HourlyBuffer + 1) * Day + Retention - HourlyBuffer})

\* The greater of two numbers.
LEMMA Greater ==
  ASSUME NEW a \in Int, NEW b \in Int
  PROVE  Max({a, b}) \in Int /\ a <= Max({a, b}) /\ b <= Max({a, b})
<1>1. \E x \in {a, b} : \A y \in {a, b} : x >= y
  OBVIOUS
<1> QED
  BY <1>1 DEF Max

\* The bound of the rows, and what it bounds.
LEMMA BoundOfRows ==
  LET kept == (HourlyBuffer + 1) * Day + Retention - HourlyBuffer IN
  RowsAtMost \in Int /\ kept \in Int /\ RowsAtMost >= MergeThreshold /\ RowsAtMost >= kept
<1> DEFINE kept == (HourlyBuffer + 1) * Day + Retention - HourlyBuffer
<1>1. \A i, j \in Nat : i * j \in Int
  BY SMT
<1>2. HourlyBuffer + 1 \in Nat /\ Day \in Nat
  BY UptimeAssumption
<1>3. MergeThreshold \in Int /\ kept \in Int
  BY <1>1, <1>2, UptimeAssumption
<1>4. RowsAtMost = Max({MergeThreshold, kept})
  BY DEF RowsAtMost
<1> HIDE DEF kept
<1> QED
  BY <1>3, <1>4, Greater DEF kept

\* The rows after Insert are those of the base: the old rows, with the new
\* execution or, when its statement failed, without it.  Failing statements may
\* leave a row more than there were.
LEMMA RowsAfterInsert ==
  ASSUME Clock, IsEntries(rows, now), NEW h \in Hours(now), InsertRow(h) \/ InsertRowFails(h),
         unfinished \in Nat, Cardinality(DOMAIN rows) <= RowsAtMost + unfinished
  PROVE  /\ \E base \in {rows, Upsert(rows, h)} :
              /\ NoMore(rows', base)
              /\ ~lost' => ~lost /\ base = Upsert(rows, h) /\ NoLess(rows', base)
         /\ unfinished' \in Nat /\ Cardinality(DOMAIN rows') <= RowsAtMost + unfinished'
<1> DEFINE u == Upsert(rows, h)
           few(x, n) == Cardinality(DOMAIN x) <= RowsAtMost + n
           Result(r, x, base, n) ==
             /\ r = x \/ r = CleanedUp(x)
             /\ NoMore(x, base) /\ few(x, n)
<1>0. IsEntries(u, now) /\ now \in Nat /\ RowsAtMost \in Int
  BY UpsertAddsOne, BoundOfRows DEF Clock
<1>h. /\ DOMAIN u = DOMAIN rows \union {h}
      /\ IsFiniteSet(DOMAIN rows) /\ Cardinality(DOMAIN rows) \in Nat
  <2>1. DOMAIN u = DOMAIN rows \union {h}
    BY <1>0, UpsertAddsOne
  <2>2. IsFiniteSet(DOMAIN rows)
    BY <1>0, EntriesAreNumbers
  <2>3. Cardinality(DOMAIN rows) \in Nat
    BY <2>2, FS_CardinalityType
  <2> QED
    BY <2>1, <2>2, <2>3
<1>s. Cardinality(DOMAIN u) \in Nat /\ Cardinality(DOMAIN u) <= Cardinality(DOMAIN rows) + 1
  <2>1. Cardinality(DOMAIN rows \union {h}) =
          IF h \in DOMAIN rows THEN Cardinality(DOMAIN rows) ELSE Cardinality(DOMAIN rows) + 1
    BY <1>h, FS_AddElement
  <2> QED
    BY <1>h, <2>1
<1> HIDE DEF u
<1>1. ASSUME NEW base, IsEntries(base, now), NEW x, NEW r, NEW n \in Nat, Result(r, x, base, n)
      PROVE  NoMore(r, base) /\ (NoLess(x, base) => NoLess(r, base)) /\ few(r, n)
  <2>1. CASE r = x
    BY <1>1, <2>1
  <2>2. CASE r = CleanedUp(x)
    <3>1. /\ NoMore(r, base) /\ (NoLess(x, base) => NoLess(r, base))
          /\ DOMAIN r \subseteq DOMAIN x
      BY <1>1, <2>2, CleaningUpIsFaithful
    <3>2. IsFiniteSet(DOMAIN x)
      <4>1. IsEntries(x, now)
        BY <1>1 DEF NoMore
      <4> QED
        BY <1>0, <4>1, EntriesAreNumbers
    <3>3. Cardinality(DOMAIN r) <= Cardinality(DOMAIN x) /\ Cardinality(DOMAIN r) \in Nat /\ Cardinality(DOMAIN x) \in Nat
      BY <3>1, <3>2, SmallerSubset
    <3>4. few(r, n)
      BY <1>0, <1>1, <3>3
    <3> QED
      BY <3>1, <3>4
  <2> QED
    BY <1>1, <2>1, <2>2
<1>2. ASSUME NEW base, IsEntries(base, now), NEW missing
      PROVE  /\ NoMore(Merged(base, missing), base)
             /\ \A n \in Nat : few(Merged(base, missing), n)
             /\ missing = {} => NoLess(Merged(base, missing), base)
  <2>1. /\ RowsAtMost >= (HourlyBuffer + 1) * Day + Retention - HourlyBuffer
        /\ RowsAtMost \in Int /\ (HourlyBuffer + 1) * Day + Retention - HourlyBuffer \in Int
    BY BoundOfRows
  <2>2. Cardinality(DOMAIN Merged(base, missing)) <= (HourlyBuffer + 1) * Day + Retention - HourlyBuffer
    BY <1>2, MergedAreFew
  <2>3. Cardinality(DOMAIN Merged(base, missing)) \in Nat
    <3>1. IsEntries(Merged(base, missing), now)
      BY <1>2, Merging
    <3> QED
      BY <1>0, <3>1, EntriesAreNumbers, SmallerSubset
  <2>4. Cardinality(DOMAIN Merged(base, missing)) <= RowsAtMost
    BY <2>1, <2>2, <2>3
  <2>5. \A n \in Nat : few(Merged(base, missing), n)
    BY <2>1, <2>3, <2>4
  <2> QED
    BY <1>2, <2>5, MergingIsFaithful
<1>3. CASE InsertRow(h)
  <2>1. /\ rows' = CleanedUp(IF TooMany(u) THEN Merged(u, {}) ELSE u)
        /\ lost' = lost /\ unfinished' = 0
    BY <1>3 DEF InsertRow, u
  <2>2. CASE TooMany(u)
    <3>1. Result(rows', Merged(u, {}), u, 0) /\ NoLess(Merged(u, {}), u)
      BY <1>0, <1>2, <2>1, <2>2
    <3> HIDE DEF Result
    <3>2. NoMore(rows', u) /\ NoLess(rows', u) /\ few(rows', 0)
      BY <1>0, <1>1, <3>1
    <3> QED
      BY <2>1, <3>2 DEF u
  <2>3. CASE ~TooMany(u)
    <3>1. few(u, 0)
      <4>1. RowsAtMost >= MergeThreshold /\ MergeThreshold \in Nat
        BY BoundOfRows, UptimeAssumption
      <4> QED
        BY <1>0, <1>s, <2>3, <4>1 DEF TooMany
    <3>2. NoMore(u, u) /\ NoLess(u, u)
      BY <1>0, SameIsFaithful
    <3>3. Result(rows', u, u, 0)
      BY <2>1, <2>3, <3>1, <3>2
    <3> HIDE DEF Result
    <3>4. NoMore(rows', u) /\ NoLess(rows', u) /\ few(rows', 0)
      BY <1>0, <1>1, <3>2, <3>3
    <3> QED
      BY <2>1, <3>4 DEF u
  <2> QED
    BY <2>2, <2>3
<1>4. CASE InsertRowFails(h)
  <2>1. unfinished' = unfinished + 1 /\ unfinished' \in Nat
    BY <1>4 DEF InsertRowFails
  <2>2. PICK inserted \in {rows, u} :
          \/ /\ rows' \in {inserted, CleanedUp(inserted)}
             /\ lost' = (lost \/ inserted = rows)
          \/ \E missing :
               /\ rows' \in {Merged(inserted, missing), CleanedUp(Merged(inserted, missing))}
               /\ lost' = (lost \/ inserted = rows \/ missing # {})
    BY <1>4 DEF InsertRowFails, u
  <2>3. IsEntries(inserted, now) /\ few(inserted, unfinished + 1)
    BY <1>0, <1>h, <1>s
  <2>4. ~lost' => ~lost /\ inserted = u
    BY <2>2
  <2>5. CASE rows' \in {inserted, CleanedUp(inserted)}
    <3>1. NoMore(inserted, inserted) /\ NoLess(inserted, inserted)
      BY <2>3, SameIsFaithful
    <3>2. Result(rows', inserted, inserted, unfinished + 1) /\ unfinished + 1 \in Nat
      BY <2>3, <2>5, <3>1
    <3> HIDE DEF Result
    <3>3. NoMore(rows', inserted) /\ NoLess(rows', inserted) /\ few(rows', unfinished + 1)
      BY <1>1, <2>3, <3>1, <3>2
    <3> QED
      BY <2>1, <2>4, <3>3 DEF u
  <2>6. ASSUME NEW missing,
               rows' \in {Merged(inserted, missing), CleanedUp(Merged(inserted, missing))},
               lost' = (lost \/ inserted = rows \/ missing # {})
        PROVE  /\ NoMore(rows', inserted) /\ few(rows', unfinished + 1)
               /\ ~lost' => NoLess(rows', inserted)
    <3>1. /\ Result(rows', Merged(inserted, missing), inserted, unfinished + 1)
          /\ unfinished + 1 \in Nat
          /\ missing = {} => NoLess(Merged(inserted, missing), inserted)
      BY <1>2, <2>3, <2>6
    <3> HIDE DEF Result
    <3> QED
      BY <1>1, <2>3, <2>6, <3>1
  <2> QED
    BY <2>1, <2>2, <2>4, <2>5, <2>6 DEF u
<1> QED
  BY <1>3, <1>4

\* The statistics after Insert are those with the new execution, cleaned up or not.
LEMMA StatisticsAfterInsert ==
  ASSUME Clock, IsEntries(statistics, now), NEW h \in Hours(now), InsertStatistics(h)
  PROVE  /\ Trimmed(statistics', Upsert(statistics, h))
         /\ Cardinality(DOMAIN statistics') <= AgeCleanUp * Day
<1> DEFINE u == Upsert(statistics, h)
           c == AgeCleanUp * Day
<1>1. IsEntries(u, now) /\ now \in Nat
  BY UpsertAddsOne DEF Clock
<1> HIDE DEF u, c
<1>2. \/ ~(Cardinality(DOMAIN u) > c) /\ statistics' = u
      \/ statistics' = Only(u, Retained(u))
  BY DEF InsertStatistics, u, c
<1>3. CASE ~(Cardinality(DOMAIN u) > c) /\ statistics' = u
  <2>1. Cardinality(DOMAIN u) \in Nat
    BY <1>1, EntriesAreNumbers, SmallerSubset
  <2>2. c \in Nat
    <3>1. \A i, j \in Nat : i * j \in Nat
      BY SMT
    <3> QED
      BY <3>1, UptimeAssumption DEF c
  <2> QED
    BY <1>1, <1>3, <2>1, <2>2, NothingIsTrimmed DEF u, c
<1>4. CASE statistics' = Only(u, Retained(u))
  BY <1>1, <1>4, RetainedIsTrimmed, RetainedAreFew DEF u, c
<1> QED
  BY <1>2, <1>3, <1>4

\* The types of the variables.
TypeInv ==
  /\ Clock /\ lost \in BOOLEAN /\ unfinished \in Nat
  /\ IsEntries(rows, now) /\ IsEntries(statistics, now) /\ IsEntries(executions, now)

\* The memory lacks nothing that the retention covers, and an hour more.
StatisticsAgree == AgreeFrom(statistics, executions, now - (Days(Retention) + Hour))

\* The hours that are not merged yet are as they were executed.
RecentRowsAgree == ~lost => AgreeFrom(rows, executions, MinThreshold)

\* A row that is not one of a day counts at most its hour.
HoursNotAbove ==
  \A h \in DOMAIN rows : DayOf(h) # h => h \in DOMAIN executions /\ rows[h] <= executions[h]

\* The rows of a day count at most its executions.
DaysNotAbove ==
  \A d : IsDay(d) => Total(rows, DayHours(d)) <= Total(executions, DayHours(d))

\* Without failures the rows of a day within the retention count all of them.
DaysNotBelow == ~lost => NoLess(rows, executions)

\* The inductive invariant.
IInv ==
  /\ TypeInv /\ StatisticsAgree /\ RecentRowsAgree /\ HoursNotAbove /\ DaysNotAbove /\ DaysNotBelow
  /\ EntriesAreBounded

\* The invariant holds at first.
LEMMA InitIInv == Init => IInv
<1> SUFFICES ASSUME Init PROVE IInv
  OBVIOUS
<1>1. Days(AgeCleanUp) \in Nat /\ now \in Nat /\ Clock
  BY Thresholds DEF Init, Clock
<1>2. DOMAIN NoEntries = {} /\ IsEntries(NoEntries, now)
  BY DEF NoEntries, IsEntries
<1>3. rows = NoEntries /\ statistics = NoEntries /\ executions = NoEntries /\ lost = FALSE
      /\ unfinished = 0
  BY DEF Init
<1>4. TypeInv
  BY <1>1, <1>2, <1>3 DEF TypeInv
<1>5. NoMore(rows, executions) /\ NoLess(rows, executions)
  BY <1>1, <1>2, <1>3, SameIsFaithful
<1>6. StatisticsAgree /\ RecentRowsAgree
  BY <1>2, <1>3, <1>5 DEF StatisticsAgree, RecentRowsAgree, AgreeFrom
<1>7. HoursNotAbove /\ DaysNotAbove /\ DaysNotBelow
  BY <1>2, <1>3, <1>5 DEF HoursNotAbove, DaysNotAbove, DaysNotBelow, NoMore
<1>8. EntriesAreBounded
  <2>1. Cardinality(DOMAIN rows) = 0 /\ Cardinality(DOMAIN statistics) = 0
    BY <1>2, <1>3, FS_EmptySet
  <2>2. RowsAtMost \in Int /\ RowsAtMost >= 0
    BY BoundOfRows, UptimeAssumption
  <2>3. AgeCleanUp * Day \in Nat
    <3>1. \A i, j \in Nat : i * j \in Nat
      BY SMT
    <3> QED
      BY <3>1, UptimeAssumption
  <2> QED
    BY <1>3, <2>1, <2>2, <2>3 DEF EntriesAreBounded, RowsAtMost
<1> QED
  BY <1>4, <1>6, <1>7, <1>8 DEF IInv

\* What agrees from a time on agrees from every later one.
LEMMA AgreeLater ==
  ASSUME NEW e, NEW f, NEW t \in Int, NEW u \in Int, t <= u, AgreeFrom(e, f, t)
  PROVE  AgreeFrom(e, f, u)
  BY DEF AgreeFrom

\* The day of a later time is no earlier one.
LEMMA Later ==
  ASSUME NEW t \in Nat, NEW u \in Nat, t <= u
  PROVE  DayOf(t) <= DayOf(u)
<1>1. IsDay(DayOf(t)) /\ DayOf(t) <= u
  BY DayOfTime DEF IsDay
<1> QED
  BY <1>1, OneDay

\* Time passes: the thresholds move forward only, and nothing else changes.
LEMMA IInvElapses ==
  ASSUME IInv, NEW pause \in Pauses, Elapse(pause)
  PROVE  IInv'
<1>1. /\ now \in Nat /\ now' = now + pause /\ pause \in Nat /\ now' \in Nat /\ now <= now'
      /\ rows' = rows /\ statistics' = statistics /\ executions' = executions /\ lost' = lost
      /\ unfinished' = unfinished
  BY UptimeAssumption DEF IInv, TypeInv, Clock, Elapse
<1>2. /\ Clock /\ Days(AgeCleanUp) \in Nat /\ Days(HourlyBuffer) \in Nat /\ Days(Retention) \in Nat
      /\ Days(HourlyBuffer) <= Days(AgeCleanUp)
  <2>1. Clock
    BY DEF IInv, TypeInv
  <2> QED
    BY <2>1, Thresholds, DayIsLong
<1>3. TypeInv'
  <2>1. Clock'
    BY <1>1, <1>2 DEF Clock, Days
  <2>2. /\ IsEntries(rows, now') /\ IsEntries(statistics, now') /\ IsEntries(executions, now')
    BY <1>1, LaterEntries DEF IInv, TypeInv
  <2>3. (lost \in BOOLEAN /\ unfinished \in Nat)'
    BY <1>1 DEF IInv, TypeInv
  <2> QED
    BY <1>1, <2>1, <2>2, <2>3 DEF TypeInv, IsEntries
<1>4. MinThreshold \in Nat /\ MinThreshold' \in Nat /\ MinThreshold <= MinThreshold'
  <2> DEFINE a == Days(HourlyBuffer)
  <2>1. MinThreshold = DayOf(now - a) /\ MinThreshold' = DayOf(now' - a)
    BY DEF MinThreshold, DayOf, Days
  <2>2. now - a \in Nat /\ now' - a \in Nat /\ now - a <= now' - a
    BY <1>1, <1>2 DEF Clock
  <2> HIDE DEF a
  <2> QED
    BY <2>1, <2>2, Later, DayOfTime
<1>5. StatisticsAgree'
  <2> DEFINE t == now - (Days(Retention) + Hour)
             u == now' - (Days(Retention) + Hour)
  <2>1. AgreeFrom(statistics, executions, t)
    BY DEF IInv, StatisticsAgree
  <2>2. t \in Int /\ u \in Int /\ t <= u
    BY <1>1, <1>2 DEF Hour
  <2> HIDE DEF t, u
  <2>3. AgreeFrom(statistics, executions, u)
    BY <2>1, <2>2, AgreeLater
  <2> QED
    BY <1>1, <2>3 DEF u, StatisticsAgree, AgreeFrom, Days, Hour
<1>6. RecentRowsAgree'
  <2>1. ~lost => AgreeFrom(rows, executions, MinThreshold')
    BY <1>4, AgreeLater DEF IInv, RecentRowsAgree
  <2> DEFINE u == MinThreshold'
  <2>2. ~lost => AgreeFrom(rows, executions, u)
    BY <2>1
  <2> HIDE DEF u
  <2>3. ~lost' => AgreeFrom(rows', executions', u)
    BY <1>1, <2>2
  <2> QED
    BY <2>3 DEF u, RecentRowsAgree, AgreeFrom
<1>7. HoursNotAbove'
  BY <1>1 DEF IInv, HoursNotAbove, DayOf
<1>8. DaysNotAbove'
  BY <1>1 DEF IInv, DaysNotAbove, DayHours, IsDay, D, Total, Only
<1>9. DaysNotBelow'
  <2>1. MaxThreshold = now - Days(Retention) /\ MaxThreshold' = now' - Days(Retention)
    BY DEF MaxThreshold, Days
  <2>2. MaxThreshold \in Int /\ MaxThreshold' \in Int /\ MaxThreshold <= MaxThreshold'
    BY <1>1, <1>2, <2>1
  <2>3. \A d : IsDay(d) /\ d >= MaxThreshold' => d >= MaxThreshold
    BY <2>2, DayIsNumber
  <2>4. ~lost => \A d : IsDay(d) /\ d >= MaxThreshold' =>
                          Total(rows, DayHours(d)) >= Total(executions, DayHours(d))
    BY <2>3 DEF IInv, DaysNotBelow, NoLess
  <2> QED
    BY <1>1, <2>4 DEF DaysNotBelow, NoLess, DayHours, IsDay, D, Total, Only
<1>10. EntriesAreBounded'
  BY <1>1 DEF IInv, EntriesAreBounded
<1> QED
  BY <1>3, <1>5, <1>6, <1>7, <1>8, <1>9, <1>10 DEF IInv

\* The hour of a result is one of the last two.
LEMMA HourOfResult ==
  ASSUME Clock, NEW timestamp \in {now, now - Hour}
  PROVE  /\ HourOf(timestamp) \in Hours(now) /\ HourOf(timestamp) >= MinThreshold
         /\ HourOf(timestamp) \in Nat
<1>1. /\ now \in Nat /\ Days(HourlyBuffer) \in Nat /\ D <= Days(HourlyBuffer) /\ D \in Nat /\ D >= 4
      /\ MinThreshold \in Nat /\ MinThreshold <= now - Days(HourlyBuffer)
  BY TimeLine, Thresholds, DayIsLong DEF Clock
<1>2. timestamp \in Nat /\ timestamp <= now /\ timestamp >= now - 2
  BY <1>1 DEF Hour
<1>3. /\ HourOf(timestamp) \in Nat /\ HourOf(timestamp) % Hour = 0
      /\ HourOf(timestamp) <= timestamp /\ timestamp < HourOf(timestamp) + 2
  BY <1>2, HourOfTime DEF Hour
<1> QED
  BY <1>1, <1>2, <1>3 DEF Hours

\* Counting the same execution keeps an agreement.
LEMMA UpsertAgrees ==
  ASSUME NEW t \in Nat, NEW e, IsEntries(e, t), NEW f, IsEntries(f, t), NEW h \in Hours(t),
         NEW from \in Int, AgreeFrom(e, f, from), h >= from
  PROVE  AgreeFrom(Upsert(e, h), Upsert(f, h), from)
<1>1. h \in Nat
  BY DEF Hours
<1>2. Counted(e, h) = Counted(f, h)
  BY <1>1 DEF AgreeFrom, Counted
<1> DEFINE u == Upsert(e, h)
           v == Upsert(f, h)
<1>3. DOMAIN u = DOMAIN e \union {h} /\ DOMAIN v = DOMAIN f \union {h}
  BY UpsertAddsOne
<1>4. u[h] = Counted(e, h) + 1 /\ v[h] = Counted(f, h) + 1
  BY UpsertCounts
<1>5. (\A k \in DOMAIN e : k # h => u[k] = e[k]) /\ (\A k \in DOMAIN f : k # h => v[k] = f[k])
  BY UpsertCounts
<1> HIDE DEF u, v
<1>6. AgreeFrom(u, v, from)
  <2> SUFFICES ASSUME NEW k \in Nat, k >= from
               PROVE  /\ k \in DOMAIN u <=> k \in DOMAIN v
                      /\ k \in DOMAIN u => u[k] = v[k]
    BY DEF AgreeFrom
  <2>1. (k \in DOMAIN e <=> k \in DOMAIN f) /\ (k \in DOMAIN e => e[k] = f[k])
    BY DEF AgreeFrom
  <2>2. CASE k = h
    BY <1>2, <1>3, <1>4, <2>2
  <2>3. CASE k # h
    BY <1>3, <1>5, <2>1, <2>3
  <2> QED
    BY <2>2, <2>3
<1> QED
  BY <1>6 DEF u, v

\* Agreement is transitive.
LEMMA AgreeTwice ==
  ASSUME NEW e, NEW f, NEW g, NEW t, AgreeFrom(e, f, t), AgreeFrom(f, g, t)
  PROVE  AgreeFrom(e, g, t)
  BY DEF AgreeFrom

\* A result is stored: every part of the invariant follows the execution.
LEMMA IInvInserts ==
  ASSUME IInv, NEW timestamp \in {now, now - Hour}, Insert(timestamp)
  PROVE  IInv'
<1> DEFINE h == HourOf(timestamp)
           x == Upsert(executions, h)
<1>1. /\ now' = now /\ executions' = x /\ (InsertRow(h) \/ InsertRowFails(h)) /\ InsertStatistics(h)
  BY DEF Insert
<1>2. /\ Clock /\ lost \in BOOLEAN /\ unfinished \in Nat /\ now \in Nat
      /\ IsEntries(rows, now) /\ IsEntries(statistics, now) /\ IsEntries(executions, now)
  BY DEF IInv, TypeInv, Clock
<1>3. h \in Hours(now) /\ h >= MinThreshold /\ h \in Nat
  BY <1>2, HourOfResult
<1> HIDE DEF h
<1>4. IsEntries(x, now) /\ DOMAIN x = DOMAIN executions \union {h} /\ x[h] = Counted(executions, h) + 1
      /\ Counted(executions, h) \in Nat
      /\ \A k \in DOMAIN executions : k # h => x[k] = executions[k]
  <2>1. IsEntries(x, now) /\ DOMAIN x = DOMAIN executions \union {h}
    BY <1>2, <1>3, UpsertAddsOne
  <2>2. /\ x[h] = Counted(executions, h) + 1 /\ Counted(executions, h) \in Nat
        /\ \A k \in DOMAIN executions : k # h => x[k] = executions[k]
    BY <1>2, UpsertCounts
  <2> QED
    BY <2>1, <2>2
<1>5. /\ \E base \in {rows, Upsert(rows, h)} :
              /\ NoMore(rows', base)
              /\ ~lost' => ~lost /\ base = Upsert(rows, h) /\ NoLess(rows', base)
      /\ unfinished' \in Nat /\ Cardinality(DOMAIN rows') <= RowsAtMost + unfinished'
  <2>1. Cardinality(DOMAIN rows) <= RowsAtMost + unfinished
    BY DEF IInv, EntriesAreBounded, RowsAtMost
  <2> QED
    BY <1>1, <1>2, <1>3, <2>1, RowsAfterInsert
<1>6. PICK base \in {rows, Upsert(rows, h)} :
              /\ NoMore(rows', base)
              /\ ~lost' => ~lost /\ base = Upsert(rows, h) /\ NoLess(rows', base)
  BY <1>5
<1>7. /\ Trimmed(statistics', Upsert(statistics, h))
      /\ Cardinality(DOMAIN statistics') <= AgeCleanUp * Day
  BY <1>1, <1>2, <1>3, StatisticsAfterInsert
<1>8. /\ MinThreshold \in Nat /\ MaxThreshold \in Nat /\ MaxThreshold = now - Days(Retention)
      /\ MaxThreshold < MinThreshold /\ Days(Retention) \in Nat
  BY <1>2, TimeLine, Thresholds
<1>9. IsEntries(Upsert(rows, h), now) /\ IsEntries(Upsert(statistics, h), now)
  BY <1>2, <1>3, UpsertAddsOne
<1>10. TypeInv'
  <2>1. IsEntries(rows', now) /\ IsEntries(statistics', now) /\ IsEntries(executions', now)
    <3>1. IsEntries(rows', now)
      BY <1>6 DEF NoMore
    <3>2. IsEntries(statistics', now)
      BY <1>7 DEF Trimmed
    <3> QED
      BY <1>1, <1>4, <3>1, <3>2
  <2>2. Clock'
    BY <1>1, <1>2 DEF Clock, Days
  <2>3. lost' \in BOOLEAN
    BY <1>1, <1>2 DEF InsertRow, InsertRowFails
  <2> QED
    BY <1>1, <1>5, <2>1, <2>2, <2>3 DEF TypeInv, IsEntries
<1>11. StatisticsAgree'
  <2> DEFINE t == now - (Days(Retention) + Hour)
             u == Upsert(statistics, h)
  <2>1. t \in Int /\ h >= t
    BY <1>2, <1>3, <1>8 DEF Hour
  <2>2. AgreeFrom(statistics, executions, t)
    BY DEF IInv, StatisticsAgree
  <2> HIDE DEF t
  <2>3. AgreeFrom(u, x, t)
    BY <1>2, <1>3, <2>1, <2>2, UpsertAgrees
  <2>4. AgreeFrom(statistics', u, t)
    BY <1>2, <1>7, <1>9, TrimmedAgree DEF t
  <2>5. AgreeFrom(statistics', x, t)
    BY <2>3, <2>4, AgreeTwice
  <2> QED
    BY <1>1, <2>5 DEF t, StatisticsAgree, AgreeFrom, Days, Hour
<1>12. RecentRowsAgree'
  <2> DEFINE u == Upsert(rows, h)
             t == MinThreshold
  <2>1. t = DayOf(now - Days(HourlyBuffer)) /\ t \in Int
    BY <1>8 DEF MinThreshold
  <2>2. ~lost => AgreeFrom(rows, executions, t)
    BY DEF IInv, RecentRowsAgree
  <2>3. h >= t
    BY <1>3
  <2> HIDE DEF t
  <2>4. ~lost => AgreeFrom(u, x, t)
    BY <1>2, <1>3, <2>1, <2>2, <2>3, UpsertAgrees
  <2>5. ~lost' => ~lost /\ AgreeFrom(rows', u, t)
    BY <1>6 DEF NoMore, t
  <2>6. ~lost' => AgreeFrom(rows', x, t)
    BY <2>4, <2>5, AgreeTwice
  <2> QED
    BY <1>1, <2>6 DEF t, RecentRowsAgree, AgreeFrom, MinThreshold, Days, DayOf
<1>13. HoursNotAbove'
  <2>1. ASSUME NEW k \in DOMAIN rows', DayOf(k) # k
        PROVE  k \in DOMAIN x /\ rows'[k] <= x[k]
    <3>1. k \in DOMAIN base /\ rows'[k] = base[k]
      BY <1>6, <2>1 DEF NoMore
    <3>2. \A i \in DOMAIN rows : DayOf(i) # i => i \in DOMAIN executions /\ rows[i] <= executions[i]
      BY DEF IInv, HoursNotAbove
    <3>3. (\A i \in DOMAIN rows : rows[i] \in Nat) /\ (\A i \in DOMAIN executions : executions[i] \in Nat)
      BY <1>2 DEF IsEntries
    <3>4. CASE base = rows
      <4>1. k \in DOMAIN executions /\ rows[k] <= executions[k] /\ rows[k] \in Nat /\ executions[k] \in Nat
        BY <2>1, <3>1, <3>2, <3>3, <3>4
      <4>2. CASE k = h
        BY <1>4, <3>1, <3>4, <4>1, <4>2 DEF Counted
      <4>3. CASE k # h
        BY <1>4, <3>1, <3>4, <4>1, <4>3
      <4> QED
        BY <4>2, <4>3
    <3>5. CASE base = Upsert(rows, h)
      <4>1. DOMAIN base = DOMAIN rows \union {h}
        BY <1>2, <1>3, <3>5, UpsertAddsOne
      <4>2. /\ base[h] = Counted(rows, h) + 1 /\ Counted(rows, h) \in Nat
            /\ \A i \in DOMAIN rows : i # h => base[i] = rows[i]
        BY <1>2, <3>5, UpsertCounts
      <4>3. CASE k = h
        <5>1. Counted(rows, h) <= Counted(executions, h)
          BY <1>4, <2>1, <3>2, <4>3 DEF Counted
        <5> QED
          BY <1>4, <3>1, <4>2, <4>3, <5>1
      <4>4. CASE k # h
        <5>1. k \in DOMAIN rows /\ base[k] = rows[k]
          BY <3>1, <4>1, <4>2, <4>4
        <5>2. k \in DOMAIN executions /\ rows[k] <= executions[k]
          BY <2>1, <3>2, <5>1
        <5>3. x[k] = executions[k] /\ k \in DOMAIN x
          BY <1>4, <4>4, <5>2
        <5> QED
          BY <3>1, <5>1, <5>2, <5>3
      <4> QED
        BY <4>3, <4>4
    <3> QED
      BY <3>4, <3>5
  <2> QED
    BY <1>1, <2>1 DEF HoursNotAbove, DayOf
<1>14. \A S : /\ Total(x, S) = Total(executions, S) + (IF h \in S THEN 1 ELSE 0)
              /\ Total(Upsert(rows, h), S) = Total(rows, S) + (IF h \in S THEN 1 ELSE 0)
              /\ Total(executions, S) \in Nat /\ Total(rows, S) \in Nat
  <2> SUFFICES ASSUME NEW S
               PROVE  /\ Total(x, S) = Total(executions, S) + (IF h \in S THEN 1 ELSE 0)
                      /\ Total(Upsert(rows, h), S) = Total(rows, S) + (IF h \in S THEN 1 ELSE 0)
                      /\ Total(executions, S) \in Nat /\ Total(rows, S) \in Nat
    OBVIOUS
  <2>1. Total(x, S) = Total(executions, S) + (IF h \in S THEN 1 ELSE 0)
    BY <1>2, <1>3, TotalAfterUpsert
  <2>2. Total(Upsert(rows, h), S) = Total(rows, S) + (IF h \in S THEN 1 ELSE 0)
    BY <1>2, <1>3, TotalAfterUpsert
  <2>3. Total(executions, S) \in Nat /\ Total(rows, S) \in Nat
    BY <1>2, TotalIsSum
  <2> QED
    BY <2>1, <2>2, <2>3
<1>15. \A S : Total(rows', S) \in Nat /\ Total(base, S) \in Nat /\ Total(x, S) \in Nat
  <2>1. IsEntries(rows', now) /\ IsEntries(base, now)
    BY <1>2, <1>6, <1>9 DEF NoMore
  <2> QED
    BY <1>2, <1>4, <2>1, TotalIsSum
<1>16. DaysNotAbove'
  <2>1. ASSUME NEW d, IsDay(d) PROVE Total(rows', DayHours(d)) <= Total(x, DayHours(d))
    <3>1. Total(rows', DayHours(d)) <= Total(base, DayHours(d))
      BY <1>6, <2>1 DEF NoMore
    <3>2. Total(rows, DayHours(d)) <= Total(executions, DayHours(d))
      BY <2>1 DEF IInv, DaysNotAbove
    <3>3. Total(base, DayHours(d)) <= Total(x, DayHours(d))
      <4> DEFINE S == DayHours(d)
      <4>1. /\ Total(x, S) = Total(executions, S) + (IF h \in S THEN 1 ELSE 0)
            /\ Total(Upsert(rows, h), S) = Total(rows, S) + (IF h \in S THEN 1 ELSE 0)
            /\ Total(executions, S) \in Nat /\ Total(rows, S) \in Nat
        BY <1>14
      <4> HIDE DEF S
      <4>2. Total(rows, S) <= Total(executions, S)
        BY <3>2 DEF S
      <4>3. base = rows \/ base = Upsert(rows, h)
        OBVIOUS
      <4>4. Total(base, S) = Total(rows, S) \/ Total(base, S) = Total(Upsert(rows, h), S)
        BY <4>3
      <4>5. Total(base, S) <= Total(x, S)
        BY <4>1, <4>2, <4>4
      <4> QED
        BY <4>5 DEF S
    <3> QED
      BY <1>15, <3>1, <3>3
  <2> QED
    BY <1>1, <2>1 DEF DaysNotAbove, DayHours, IsDay, D, Total, Only
<1>17. DaysNotBelow'
  <2>1. ASSUME ~lost', NEW d, IsDay(d), d >= MaxThreshold
        PROVE  Total(rows', DayHours(d)) >= Total(x, DayHours(d))
    <3> DEFINE S == DayHours(d)
    <3>1. ~lost /\ base = Upsert(rows, h) /\ Total(rows', S) >= Total(base, S)
      BY <1>6, <2>1 DEF NoLess
    <3>2. Total(rows, S) >= Total(executions, S)
      BY <2>1, <3>1 DEF IInv, DaysNotBelow, NoLess
    <3>3. /\ Total(x, S) = Total(executions, S) + (IF h \in S THEN 1 ELSE 0)
          /\ Total(Upsert(rows, h), S) = Total(rows, S) + (IF h \in S THEN 1 ELSE 0)
          /\ Total(executions, S) \in Nat /\ Total(rows, S) \in Nat
      BY <1>14
    <3>4. Total(rows', S) \in Nat
      BY <1>15
    <3> HIDE DEF S
    <3>5. Total(rows', S) >= Total(x, S)
      BY <3>1, <3>2, <3>3, <3>4
    <3> QED
      BY <3>5 DEF S
  <2> QED
    BY <1>1, <2>1 DEF DaysNotBelow, NoLess, MaxThreshold, Days, DayHours, IsDay, D, Total, Only
<1>18. EntriesAreBounded'
  BY <1>5, <1>7 DEF EntriesAreBounded, RowsAtMost
<1> QED
  BY <1>10, <1>11, <1>12, <1>13, <1>16, <1>17, <1>18 DEF IInv

\* The invariant is inductive.
LEMMA Inductive == Spec => []IInv
<1>1. IInv /\ UNCHANGED vars => IInv'
  <2> SUFFICES ASSUME IInv, UNCHANGED vars PROVE IInv'
    OBVIOUS
  <2>1. /\ now' = now /\ rows' = rows /\ statistics' = statistics /\ executions' = executions
        /\ lost' = lost /\ unfinished' = unfinished
    BY DEF vars
  <2>2. TypeInv'
    BY <2>1 DEF IInv, TypeInv, Clock, IsEntries, Days
  <2>3. StatisticsAgree' /\ RecentRowsAgree' /\ HoursNotAbove' /\ EntriesAreBounded'
    BY <2>1 DEF IInv, StatisticsAgree, RecentRowsAgree, HoursNotAbove, EntriesAreBounded,
                AgreeFrom, MinThreshold, DayOf, Days, Hour
  <2>4. DaysNotAbove'
    BY <2>1 DEF IInv, DaysNotAbove, DayHours, IsDay, D, Total, Only
  <2>5. DaysNotBelow'
    BY <2>1 DEF IInv, DaysNotBelow, NoLess, MaxThreshold, Days, DayHours, IsDay, D, Total, Only
  <2> QED
    BY <2>2, <2>3, <2>4, <2>5 DEF IInv
<1>2. IInv /\ [Next]_vars => IInv'
  BY <1>1, IInvInserts, IInvElapses DEF Next
<1> QED
  BY InitIInv, <1>2, PTL DEF Spec
-----------------------------------------------------------------------------
(* What the windows show *)

\* Entries that agree from a time on have the same totals from there.
LEMMA TotalsAgree ==
  ASSUME NEW t \in Nat, NEW e, IsEntries(e, t), NEW f, IsEntries(f, t),
         NEW from, AgreeFrom(e, f, from), NEW S, \A h \in S : h >= from
  PROVE  Total(e, S) = Total(f, S)
<1>1. (\A h \in DOMAIN e : h \in Nat /\ e[h] \in Nat) /\ (\A h \in DOMAIN f : h \in Nat /\ f[h] \in Nat)
  BY EntriesAreNumbers DEF IsEntries
<1>2. \A h \in DOMAIN e : h \in S => h \in DOMAIN f /\ e[h] <= f[h]
  BY <1>1 DEF AgreeFrom
<1>3. \A h \in DOMAIN f : h \in S => h \in DOMAIN e /\ f[h] <= e[h]
  BY <1>1 DEF AgreeFrom
<1>4. Total(e, S) <= Total(f, S)
  BY <1>2, TotalsCompare
<1>5. Total(f, S) <= Total(e, S)
  BY <1>3, TotalsCompare
<1>6. Total(e, S) \in Nat /\ Total(f, S) \in Nat
  BY TotalIsSum
<1> QED
  BY <1>4, <1>5, <1>6

\* Entries that are not greater day by day are not greater over several days.
LEMMA DayByDay ==
  ASSUME NEW t \in Nat, NEW e, IsEntries(e, t), NEW f, IsEntries(f, t), NEW a, IsDay(a),
         \A d : IsDay(d) /\ d >= a => Total(e, DayHours(d)) <= Total(f, DayHours(d)),
         NEW n \in Nat
  PROVE  Total(e, a..((a + n * D) - 1)) <= Total(f, a..((a + n * D) - 1))
<1> DEFINE days(k) == a..((a + k * D) - 1)
           N == {k \in Nat : Total(e, days(k)) <= Total(f, days(k))}
<1>1. a \in Nat /\ D \in Nat /\ D >= 4
  BY DayIsNumber, DayIsLong
<1>2. \A S : Total(e, S) \in Nat /\ Total(f, S) \in Nat
  BY TotalIsSum
<1>3. 0 \in N
  <2>1. 0 * D = 0
    BY <1>1, SMT
  <2>2. \A h \in DOMAIN e \union DOMAIN f : h \notin days(0)
    <3>1. (a + 0 * D) - 1 < a
      BY <1>1, <2>1
    <3>2. days(0) = {}
      BY <1>1, <2>1, <3>1
    <3> QED
      BY <3>2
  <2> HIDE DEF days
  <2>3. Total(e, days(0)) = 0 /\ Total(f, days(0)) = 0
    BY <2>2, TotalOfNothing
  <2> QED
    BY <2>3
<1>4. \A k \in Nat : k \in N => k + 1 \in N
  <2> SUFFICES ASSUME NEW k \in Nat, Total(e, days(k)) <= Total(f, days(k))
               PROVE  Total(e, days(k + 1)) <= Total(f, days(k + 1))
    OBVIOUS
  <2> DEFINE d == a + k * D
  <2>1. IsDay(d) /\ k * D \in Nat /\ d \in Nat /\ d >= a
    <3>1. IsDay(a + k * D) /\ k * D \in Nat
      BY NextDay
    <3> QED
      BY <1>1, <3>1
  <2>2. (k + 1) * D = k * D + D
    BY <1>1, SMT
  <2> HIDE DEF d
  <2>3. days(k) = a..(d - 1) /\ days(k + 1) = a..(d + D - 1)
    <3>1. (a + (k + 1) * D) - 1 = d + D - 1
      BY <1>1, <2>1, <2>2 DEF d
    <3> QED
      BY <3>1 DEF d
  <2>4. days(k + 1) = days(k) \union DayHours(d) /\ (\A h : ~(h \in days(k) /\ h \in DayHours(d)))
    BY <1>1, <2>1, <2>3 DEF DayHours
  <2>5. Total(e, DayHours(d)) <= Total(f, DayHours(d))
    BY <2>1
  <2> HIDE DEF days
  <2>6. /\ Total(e, days(k + 1)) = Total(e, days(k)) + Total(e, DayHours(d))
        /\ Total(f, days(k + 1)) = Total(f, days(k)) + Total(f, DayHours(d))
    BY <2>4, TotalOfUnion
  <2> QED
    BY <1>2, <2>5, <2>6
<1> HIDE DEF N
<1>5. Nat \subseteq N
  BY <1>3, <1>4, NaturalInduction
<1> QED
  BY <1>5 DEF N

\* A window within the retention begins after MaxThreshold.
LEMMA WindowOfDays ==
  ASSUME Clock, NEW n \in 1..Retention
  PROVE  /\ Days(n) = n * D /\ Days(n) \in Nat /\ D <= Days(n) /\ Days(n) <= Days(Retention)
         /\ now - Days(n) \in Nat /\ now \in Nat /\ now - Days(n) >= MaxThreshold
<1>1. n \in Nat /\ 1 <= n /\ n <= Retention /\ Retention \in Nat
  BY UptimeAssumption
<1>2. D \in Nat /\ D >= 4
  BY DayIsLong
<1>3. 1 * D <= n * D /\ n * D <= Retention * D /\ 1 * D = D
  BY <1>1, <1>2, Monotone, SMT
<1>4. Days(n) = n * D /\ Days(Retention) = Retention * D /\ Days(n) \in Int
  BY <1>1, DaysAreMultiples
<1>5. Days(Retention) \in Nat /\ Days(Retention) + D <= Days(AgeCleanUp) /\ Days(AgeCleanUp) \in Nat
  BY Thresholds
<1>6. now \in Nat /\ now >= Days(AgeCleanUp) /\ MaxThreshold = now - Days(Retention)
  BY DEF Clock, MaxThreshold
<1> QED
  BY <1>2, <1>3, <1>4, <1>5, <1>6

\* The store in memory counts every execution of a window within the retention:
\* processUptimeAfterResult deletes only what no such window can show.
THEOREM StatisticsExact == Spec => []StatisticsAreExact
<1>1. IInv => StatisticsAreExact
  <2> SUFFICES ASSUME IInv, NEW n \in 1..Retention
               PROVE  Total(statistics, HourOf(now - Days(n))..now) =
                      Total(executions, HourOf(now - Days(n))..now)
    BY DEF StatisticsAreExact, HoursSince
  <2>1. Clock /\ IsEntries(statistics, now) /\ IsEntries(executions, now)
    BY DEF IInv, TypeInv
  <2> DEFINE from == now - Days(n)
             first == HourOf(from)
             t == now - (Days(Retention) + Hour)
  <2>2. /\ from \in Nat /\ now \in Nat /\ Days(n) \in Nat /\ Days(n) <= Days(Retention)
        /\ Days(Retention) \in Nat
    BY <2>1, WindowOfDays, Thresholds
  <2>3. first \in Nat /\ first <= from /\ from < first + 2
    BY <2>2, HourOfTime DEF Hour
  <2> HIDE DEF first
  <2>4. \A h \in first..now : h >= t
    BY <2>2, <2>3 DEF Hour
  <2>5. AgreeFrom(statistics, executions, t)
    BY DEF IInv, StatisticsAgree
  <2> HIDE DEF t
  <2> DEFINE S == first..now
  <2>6. \A h \in S : h >= t
    BY <2>4
  <2> HIDE DEF S
  <2>7. Total(statistics, S) = Total(executions, S)
    BY <2>1, <2>2, <2>5, <2>6, TotalsAgree
  <2> QED
    BY <2>7 DEF S, first
<1> QED
  BY <1>1, Inductive, PTL

\* The badge of 24 hours is exact however often rows were merged, as long as no
\* statement failed: mergeHourlyUptimeEntries...IntoDailyUptimeEntries leaves the
\* hours alone that getEndpointUptime selects for it.
THEOREM DayWindowExact == Spec => []DayWindowIsExact
<1>1. IInv => DayWindowIsExact
  <2> SUFFICES ASSUME IInv, ~lost
               PROVE  Total(rows, (now - Days(1))..now) = Total(executions, (now - Days(1))..now)
    BY DEF DayWindowIsExact, RowsSince
  <2>1. Clock /\ IsEntries(rows, now) /\ IsEntries(executions, now)
    BY DEF IInv, TypeInv
  <2>2. /\ now \in Nat /\ MinThreshold \in Nat /\ MinThreshold <= now - Days(HourlyBuffer)
        /\ Days(HourlyBuffer) \in Nat /\ Days(1) = D /\ D \in Nat /\ D <= Days(HourlyBuffer)
    BY <2>1, TimeLine, Thresholds, DayIsLong DEF Clock
  <2> DEFINE S == (now - Days(1))..now
  <2>3. \A h \in S : h >= MinThreshold
    BY <2>2
  <2>4. AgreeFrom(rows, executions, MinThreshold)
    BY DEF IInv, RecentRowsAgree
  <2> HIDE DEF S
  <2>5. Total(rows, S) = Total(executions, S)
    BY <2>1, <2>2, <2>3, <2>4, TotalsAgree
  <2> QED
    BY <2>5 DEF S
<1> QED
  BY <1>1, Inductive, PTL

\* A window of days counts nothing twice and nothing from before it, even when
\* statements of the merge failed, and without failures it misses at most the day
\* in which it begins.
THEOREM WindowsBracketed == Spec => []WindowsAreBracketed
<1>1. IInv => WindowsAreBracketed
  <2> SUFFICES ASSUME IInv, NEW n \in 1..Retention
               PROVE  /\ Total(rows, (now - Days(n))..now) <= Total(executions, (now - Days(n))..now)
                      /\ ~lost => Total(rows, (now - Days(n))..now) >=
                                  Total(executions, (DayOf(now - Days(n)) + Days(1))..now)
    BY DEF WindowsAreBracketed, RowsSince
  <2>1. Clock /\ IsEntries(rows, now) /\ IsEntries(executions, now)
    BY DEF IInv, TypeInv
  <2> DEFINE from == now - Days(n)
             c == DayOf(from)
             b == c + D
  <2>2. /\ Days(n) = n * D /\ Days(n) \in Nat /\ from \in Nat /\ now \in Nat /\ from >= MaxThreshold
        /\ Days(1) = D /\ D \in Nat /\ D >= 4 /\ n \in Nat /\ n >= 1 /\ MaxThreshold \in Nat
    BY <2>1, WindowOfDays, DayIsLong, Thresholds, TimeLine
  <2>3. IsDay(c) /\ c \in Nat /\ c <= from /\ from < c + D /\ IsDay(c + D)
    <3> HIDE DEF from
    <3>1. IsDay(c) /\ c \in Nat /\ c <= from /\ from < c + D
      BY <2>2, DayOfTime DEF IsDay
    <3> QED
      BY <3>1, NextDay
  <2>4. DayOf(now) = c + n * D
    <3>1. n * D <= now /\ now - n * D = from
      BY <2>2
    <3> QED
      BY <2>2, <3>1, DaysBefore
  <2>5. DayOf(now) <= now /\ now < DayOf(now) + D /\ DayOf(now) \in Nat
    BY <2>2, DayOfTime
  <2>6. D <= n * D /\ n * D \in Nat
    <3>1. 1 * D <= n * D
      BY <2>2, Monotone
    <3>2. 1 * D = D
      BY <2>2, SMT
    <3> QED
      BY <2>2, <3>1, <3>2
  <2> HIDE DEF from, c
  <2>7. b \in Nat /\ IsDay(b) /\ b <= now /\ from < b /\ b + n * D > now /\ b = c + Days(1)
    BY <2>2, <2>3, <2>4, <2>5, <2>6
  <2> HIDE DEF b
  <2>8. \A S : Total(rows, S) \in Nat /\ Total(executions, S) \in Nat
    BY <2>1, <2>2, TotalIsSum
  <2>9. /\ \A h \in DOMAIN rows : h \in Nat /\ h <= now
        /\ \A h \in DOMAIN executions : h \in Nat /\ h <= now
    BY <2>1, <2>2 DEF IsEntries, Hours
  <2>10. ASSUME NEW e \in {rows, executions}, NEW a \in Nat, NEW z \in Nat, z > now
         PROVE  Total(e, a..(z - 1)) = Total(e, a..now)
    <3>1. \A h \in DOMAIN e : h \in a..(z - 1) <=> h \in a..now
      BY <2>2, <2>9, <2>10
    <3>2. DOMAIN e \intersect (a..(z - 1)) = DOMAIN e \intersect (a..now)
      BY <3>1
    <3> QED
      BY <3>2, TotalOfSameHours
  <2>11. \A d : IsDay(d) => Total(rows, DayHours(d)) <= Total(executions, DayHours(d))
    BY DEF IInv, DaysNotAbove
  <2>12. Total(rows, b..now) <= Total(executions, b..now)
    <3>1. Total(rows, b..((b + n * D) - 1)) <= Total(executions, b..((b + n * D) - 1))
      BY <2>1, <2>2, <2>7, <2>11, DayByDay
    <3> DEFINE z == b + n * D
    <3>2. z \in Nat /\ z > now
      BY <2>6, <2>7
    <3>3. Total(rows, b..(z - 1)) <= Total(executions, b..(z - 1))
      BY <3>1
    <3> HIDE DEF z
    <3>4. Total(rows, b..(z - 1)) = Total(rows, b..now) /\ Total(executions, b..(z - 1)) = Total(executions, b..now)
      BY <2>7, <2>10, <3>2
    <3> QED
      BY <3>3, <3>4
  <2>13. Total(rows, from..now) <= Total(executions, from..now)
    <3>1. CASE from = c
      <4> DEFINE z == c + (n + 1) * D
      <4>1. Total(rows, c..((c + (n + 1) * D) - 1)) <= Total(executions, c..((c + (n + 1) * D) - 1))
        <5> DEFINE k == n + 1
        <5>1. k \in Nat
          BY <2>2
        <5> HIDE DEF k
        <5>2. Total(rows, c..((c + k * D) - 1)) <= Total(executions, c..((c + k * D) - 1))
          BY <2>1, <2>2, <2>3, <2>11, <5>1, DayByDay
        <5> QED
          BY <5>2 DEF k
      <4>2. Total(rows, c..(z - 1)) <= Total(executions, c..(z - 1))
        BY <4>1
      <4>3. (n + 1) * D = n * D + D
        BY <2>2, SMT
      <4>4. z \in Nat /\ z > now
        BY <2>2, <2>3, <2>4, <2>5, <2>6, <4>3
      <4> HIDE DEF z
      <4>5. Total(rows, c..(z - 1)) = Total(rows, c..now) /\ Total(executions, c..(z - 1)) = Total(executions, c..now)
        BY <2>3, <2>10, <4>4
      <4> QED
        BY <3>1, <4>2, <4>5
    <3>2. CASE from # c
      <4> DEFINE head == from..(b - 1)
                 tail == b..now
      <4>1. from..now = head \union tail /\ (\A h : ~(h \in head /\ h \in tail))
        BY <2>2, <2>7
      <4>2. \A h \in head : DayOf(h) # h
        <5>1. \A h \in head : h \in Nat /\ c < h /\ h < c + D
          BY <2>2, <2>3, <2>7, <3>2
        <5>2. \A h \in head : DayOf(h) = c
          BY <2>3, <5>1, OneDay
        <5> QED
          BY <2>3, <5>1, <5>2
      <4> HIDE DEF head, tail
      <4>3. \A h \in DOMAIN rows : h \in head => h \in DOMAIN executions /\ rows[h] <= executions[h]
        BY <4>2 DEF IInv, HoursNotAbove
      <4>4. Total(rows, head) <= Total(executions, head)
        BY <2>1, <2>2, <4>3, TotalsCompare
      <4>5. /\ Total(rows, head \union tail) = Total(rows, head) + Total(rows, tail)
            /\ Total(executions, head \union tail) = Total(executions, head) + Total(executions, tail)
        BY <2>1, <2>2, <4>1, TotalOfUnion
      <4>6. Total(rows, tail) <= Total(executions, tail)
        BY <2>12 DEF tail
      <4>7. Total(rows, head \union tail) <= Total(executions, head \union tail)
        BY <2>8, <4>4, <4>5, <4>6
      <4> QED
        BY <4>1, <4>7
    <3> QED
      BY <3>1, <3>2
  <2>14. ASSUME ~lost PROVE Total(rows, from..now) >= Total(executions, b..now)
    <3>1. \A d : IsDay(d) /\ d >= b => Total(executions, DayHours(d)) <= Total(rows, DayHours(d))
      <4>1. \A d : IsDay(d) /\ d >= b => d >= MaxThreshold
        BY <2>2, <2>7, DayIsNumber
      <4>2. \A d : IsDay(d) /\ d >= MaxThreshold =>
                     Total(rows, DayHours(d)) >= Total(executions, DayHours(d))
        BY <2>14 DEF IInv, DaysNotBelow, NoLess
      <4> QED
        BY <2>8, <4>1, <4>2
    <3>2. Total(executions, b..((b + n * D) - 1)) <= Total(rows, b..((b + n * D) - 1))
      BY <2>1, <2>2, <2>7, <3>1, DayByDay
    <3> DEFINE z == b + n * D
    <3>3. z \in Nat /\ z > now
      BY <2>6, <2>7
    <3>4. Total(executions, b..(z - 1)) <= Total(rows, b..(z - 1))
      BY <3>2
    <3> HIDE DEF z
    <3>5. Total(rows, b..(z - 1)) = Total(rows, b..now) /\ Total(executions, b..(z - 1)) = Total(executions, b..now)
      BY <2>7, <2>10, <3>3
    <3>6. Total(rows, b..now) <= Total(rows, from..now)
      <4>1. \A h \in DOMAIN rows : h \in b..now => h \in from..now
        BY <2>2, <2>7
      <4> QED
        BY <2>1, <2>2, <4>1, TotalOfMore
    <3> QED
      BY <2>8, <3>4, <3>5, <3>6
  <2> QED
    BY <2>7, <2>13, <2>14 DEF from, c
<1> QED
  BY <1>1, Inductive, PTL

\* The rows and the statistics stay bounded although both clean-ups of Insert and
\* the one of processUptimeAfterResult wait for a threshold.
THEOREM EntriesBounded == Spec => []EntriesAreBounded
<1>1. IInv => EntriesAreBounded
  BY DEF IInv
<1> QED
  BY <1>1, Inductive, PTL
=============================================================================
