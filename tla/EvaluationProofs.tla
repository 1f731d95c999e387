-------------------------- MODULE EvaluationProofs --------------------------
(***************************************************************************)
(* Proofs about health checks: paths are followed through every body, a       *)
(* check without errors that ends in success means its conditions, nothing   *)
(* hidden is in an error that is kept, and a maintenance window is exact.     *)
(*                                                                           *)
(* What does not depend on the state comes first: the walk along a path,     *)
(* what a condition says, what strings.ReplaceAll leaves of an error.  Then  *)
(* the inductive invariant IInv, with a lemma for every step of the check.   *)
(***************************************************************************)
EXTENDS Evaluation, Maintenance, Counting, SequenceTheorems, TLAPS

\* f starts at v and moves on within W.
IsChain(f, N, v, W, move) ==
  /\ f \in [0..N -> W] /\ f[0] = v
  /\ \A n \in 1..N : f[n] = move[n][f[n - 1]]

LEMMA ChainExists ==
  ASSUME NEW W, NEW v \in W, NEW N \in Nat, NEW move \in [1..N -> [W -> W]]
  PROVE  \E f : IsChain(f, N, v, W, move)
<1> DEFINE S == {k \in Nat : k <= N => \E f : IsChain(f, k, v, W, move)}
<1>1. 0 \in S
  <2>1. IsChain([n \in 0..0 |-> v], 0, v, W, move)
    BY DEF IsChain
  <2> QED
    BY <2>1
<1>2. \A k \in Nat : k \in S => k + 1 \in S
  <2> SUFFICES ASSUME NEW k \in Nat, k <= N => \E f : IsChain(f, k, v, W, move), k + 1 <= N
               PROVE  \E f : IsChain(f, k + 1, v, W, move)
    OBVIOUS
  <2>1. PICK f : IsChain(f, k, v, W, move)
    OBVIOUS
  <2> DEFINE g == [n \in 0..(k + 1) |-> IF n = k + 1 THEN move[k + 1][f[k]] ELSE f[n]]
  <2>2. f[k] \in W /\ k + 1 \in 1..N
    BY <2>1 DEF IsChain
  <2>3. move[k + 1][f[k]] \in W
    BY <2>2
  <2>4. g \in [0..(k + 1) -> W]
    BY <2>1, <2>3 DEF IsChain
  <2>5. g[0] = v
    BY <2>1 DEF IsChain
  <2>6. ASSUME NEW n \in 1..(k + 1) PROVE g[n] = move[n][g[n - 1]]
    <3>1. CASE n = k + 1
      <4>1. g[n - 1] = f[k]
        BY <3>1
      <4> QED
        BY <3>1, <4>1
    <3>2. CASE n \in 1..k
      <4>1. g[n] = f[n] /\ g[n - 1] = f[n - 1]
        BY <3>2
      <4> QED
        BY <4>1, <3>2, <2>1 DEF IsChain
    <3> QED
      BY <3>1, <3>2
  <2> HIDE DEF g
  <2>7. IsChain(g, k + 1, v, W, move)
    BY <2>4, <2>5, <2>6 DEF IsChain
  <2> QED
    BY <2>7
<1> HIDE DEF S
<1>3. N \in S
  BY <1>1, <1>2, NaturalInduction
<1> QED
  BY <1>3 DEF S

\* What holds at the start and is kept by every step holds everywhere.
LEMMA ChainInvariant ==
  ASSUME NEW N \in Nat, NEW P, 0 \in P,
         \A n \in 1..N : n - 1 \in P => n \in P
  PROVE  0..N \subseteq P
<1> DEFINE S == {n \in Nat : n <= N => n \in P}
<1>1. 0 \in S
  OBVIOUS
<1>2. \A n \in Nat : n \in S => n + 1 \in S
  <2> SUFFICES ASSUME NEW n \in Nat, n \in S, n + 1 <= N PROVE n + 1 \in P
    OBVIOUS
  <2>1. n + 1 \in 1..N /\ (n + 1) - 1 = n /\ n \in P
    OBVIOUS
  <2> QED
    BY <2>1
<1> HIDE DEF S
<1>3. Nat \subseteq S
  BY <1>1, <1>2, NaturalInduction
<1> QED
  BY <1>3 DEF S
-----------------------------------------------------------------------------
(* Paths *)

Jsons == Values \union {Nil}
Visits == Jsons \union {Panic, Missing}

LEMMA Types ==
  /\ \A v \in Jsons : /\ v.type \in {"nil", "scalar", "string", "array", "object"}
                      /\ v.type = "array" => v.items \in Seq(Values)
                      /\ v.type = "object" => \A name : Field(v, name) \in Jsons
  /\ Nil.type = "nil" /\ Panic.type = "panic" /\ Missing.type = "missing"
<1>1. Nil.type = "nil" /\ Panic.type = "panic" /\ Missing.type = "missing"
  BY DEF Nil, Panic, Missing
<1>2. \A v \in Jsons : /\ v.type \in {"nil", "scalar", "string", "array", "object"}
                       /\ v.type = "array" => v.items \in Seq(Values)
  BY <1>1, ValuesAssumption DEF Jsons
<1>3. ASSUME NEW v \in Jsons, v.type = "object", NEW name PROVE Field(v, name) \in Jsons
  <2>1. v \in Values
    BY <1>1, <1>3 DEF Jsons
  <2>2. \A n \in DOMAIN v.fields : v.fields[n] \in Values
    BY <2>1, <1>3, ValuesAssumption
  <2> QED
    BY <2>2 DEF Field, Jsons
<1> QED
  BY <1>1, <1>2, <1>3

LEMMA ItemType ==
  ASSUME NEW v \in Jsons, NEW i \in Int
  PROVE  Item(v, i) \in Jsons /\ (v.type # "array" => Item(v, i).type = "nil")
<1>1. CASE v.type = "array" /\ i \in 0..(Len(v.items) - 1)
  <2>1. v.items \in Seq(Values)
    BY <1>1, Types
  <2>2. v.items[i + 1] \in Values
    BY <2>1, <1>1
  <2> QED
    BY <2>2, <1>1 DEF Item, Jsons
<1>2. CASE ~(v.type = "array" /\ i \in 0..(Len(v.items) - 1))
  BY <1>2, Types DEF Item, Jsons
<1> QED
  BY <1>1, <1>2

LEMMA ElementCases ==
  ASSUME NEW v \in Jsons, NEW i \in Int
  PROVE  \/ i < 0 /\ Element(v, i) = Panic /\ Item(v, i) = Nil
         \/ Element(v, i) = Missing /\ Item(v, i) = Nil
         \/ Element(v, i) = Item(v, i)
<1>1. v.type \notin {"panic", "missing"}
  BY Types
<1>2. CASE i < 0
  BY <1>1, <1>2 DEF Element, Item
<1>3. CASE ~(i < 0) /\ v.type = "array"
  BY <1>1, <1>3, Types DEF Element, Item, ItemsOf
<1>4. CASE ~(i < 0) /\ v.type # "array"
  <2>1. ItemsOf(v) = <<>> /\ Len(ItemsOf(v)) = 0
    BY <1>4 DEF ItemsOf
  <2> QED
    BY <1>1, <1>4, <2>1 DEF Element, Item
<1> QED
  BY <1>2, <1>3, <1>4

LEMMA ElementType ==
  ASSUME NEW v \in Visits, NEW i \in Int
  PROVE  /\ Element(v, i) \in Visits
         /\ v.type \in {"panic", "missing"} => Element(v, i) = v
<1>1. CASE v \in Jsons
  BY <1>1, ElementCases, ItemType, Types DEF Visits
<1>2. CASE v \in {Panic, Missing}
  <2>1. v.type \in {"panic", "missing"}
    BY <1>2, Types
  <2>2. Element(v, i) = v
    BY <2>1, SMT DEF Element
  <2> QED
    BY <2>2
<1> QED
  BY <1>1, <1>2 DEF Visits

LEMMA ElementsSteps ==
  ASSUME NEW v \in Visits, NEW s \in Seq(Int)
  PROVE  LET x == Elements(v, s) IN
         /\ x \in [0..Len(s) -> Visits] /\ x[0] = v
         /\ \A n \in 1..Len(s) : x[n] = Element(x[n - 1], s[n])
<1> DEFINE N == Len(s)
           x == Elements(v, s)
           move == [n \in 1..N |-> [w \in Visits |-> Element(w, s[n])]]
<1>1. N \in Nat /\ \A n \in 1..N : s[n] \in Int
  OBVIOUS
<1>2. move \in [1..N -> [Visits -> Visits]]
  BY <1>1, ElementType
<1> HIDE DEF N, move, x
<1>3. PICK f : IsChain(f, N, v, Visits, move)
  BY <1>1, <1>2, ChainExists, Zenon
<1>4. /\ f \in [0..N -> Visits] /\ f[0] = v
      /\ \A n \in 1..N : f[n] = Element(f[n - 1], s[n])
  <2>1. f \in [0..N -> Visits] /\ f[0] = v
    BY <1>3 DEF IsChain
  <2>2. ASSUME NEW n \in 1..N PROVE f[n] = Element(f[n - 1], s[n])
    <3>1. f[n - 1] \in Visits
      BY <1>1, <2>1
    <3> QED
      BY <1>3, <3>1 DEF IsChain, move
  <2> QED
    BY <2>1, <2>2
<1>5. f = [n \in 0..N |-> IF n = 0 THEN v ELSE Element(f[n - 1], s[n])]
  BY <1>1, <1>4
<1>6. x = [n \in 0..N |-> IF n = 0 THEN v ELSE Element(x[n - 1], s[n])]
  BY <1>5 DEF Elements, N, x
<1>7. x = f
  <2> DEFINE P == {n \in 0..N : x[n] = f[n]}
  <2>1. 0 \in P
    BY <1>1, <1>4, <1>6
  <2>2. \A n \in 1..N : n - 1 \in P => n \in P
    BY <1>1, <1>4, <1>6
  <2> HIDE DEF P
  <2>3. 0..N \subseteq P
    BY <1>1, <2>1, <2>2, ChainInvariant
  <2>4. \A n \in 0..N : x[n] = f[n]
    BY <2>3 DEF P
  <2> QED
    BY <1>4, <1>6, <2>4
<1> QED
  BY <1>4, <1>7 DEF x, N

LEMMA ItemsSteps ==
  ASSUME NEW v \in Jsons, NEW s \in Seq(Int)
  PROVE  LET x == Items(v, s) IN
         /\ x \in [0..Len(s) -> Jsons] /\ x[0] = v
         /\ \A n \in 1..Len(s) : x[n] = Item(x[n - 1], s[n])
<1> DEFINE N == Len(s)
           x == Items(v, s)
           move == [n \in 1..N |-> [w \in Jsons |-> Item(w, s[n])]]
<1>1. N \in Nat /\ \A n \in 1..N : s[n] \in Int
  OBVIOUS
<1>2. move \in [1..N -> [Jsons -> Jsons]]
  BY <1>1, ItemType
<1> HIDE DEF N, move, x
<1>3. PICK f : IsChain(f, N, v, Jsons, move)
  BY <1>1, <1>2, ChainExists, Zenon
<1>4. /\ f \in [0..N -> Jsons] /\ f[0] = v
      /\ \A n \in 1..N : f[n] = Item(f[n - 1], s[n])
  <2>1. f \in [0..N -> Jsons] /\ f[0] = v
    BY <1>3 DEF IsChain
  <2>2. ASSUME NEW n \in 1..N PROVE f[n] = Item(f[n - 1], s[n])
    <3>1. f[n - 1] \in Jsons
      BY <1>1, <2>1
    <3> QED
      BY <1>3, <3>1 DEF IsChain, move
  <2> QED
    BY <2>1, <2>2
<1>5. f = [n \in 0..N |-> IF n = 0 THEN v ELSE Item(f[n - 1], s[n])]
  BY <1>1, <1>4
<1>6. x = [n \in 0..N |-> IF n = 0 THEN v ELSE Item(x[n - 1], s[n])]
  BY <1>5 DEF Items, N, x
<1>7. x = f
  <2> DEFINE P == {n \in 0..N : x[n] = f[n]}
  <2>1. 0 \in P
    BY <1>1, <1>4, <1>6
  <2>2. \A n \in 1..N : n - 1 \in P => n \in P
    BY <1>1, <1>4, <1>6
  <2> HIDE DEF P
  <2>3. 0..N \subseteq P
    BY <1>1, <2>1, <2>2, ChainInvariant
  <2>4. \A n \in 0..N : x[n] = f[n]
    BY <2>3 DEF P
  <2> QED
    BY <1>4, <1>6, <2>4
<1> QED
  BY <1>4, <1>7 DEF x, N

\* What is found behind indices: what they mean, or nothing.
Followed(x, y, s) ==
  \/ x = y
  \/ x = Missing /\ y.type = "nil"
  \/ x = Panic /\ y.type = "nil" /\ \E i \in DOMAIN s : s[i] < 0

LEMMA Indexed ==
  ASSUME NEW v \in Jsons, NEW s \in Seq(Int)
  PROVE  /\ Items(v, s)[Len(s)] \in Jsons
         /\ Followed(Elements(v, s)[Len(s)], Items(v, s)[Len(s)], s)
         /\ s # <<>> /\ v.type # "array" => Items(v, s)[Len(s)].type = "nil"
<1> DEFINE N == Len(s)
           x == Elements(v, s)
           y == Items(v, s)
           P == {n \in 0..N : Followed(x[n], y[n], s)}
           Q == {n \in 0..N : n >= 1 /\ v.type # "array" => y[n].type = "nil"}
<1> HIDE DEF x, y
<1>1. N \in Nat /\ \A n \in 1..N : s[n] \in Int /\ n \in DOMAIN s /\ n - 1 \in 0..N
  OBVIOUS
<1>2. /\ x[0] = v /\ \A n \in 1..N : x[n] = Element(x[n - 1], s[n])
      /\ y \in [0..N -> Jsons] /\ y[0] = v /\ \A n \in 1..N : y[n] = Item(y[n - 1], s[n])
  <2>1. v \in Visits
    BY DEF Visits
  <2> QED
    BY <2>1, ElementsSteps, ItemsSteps DEF x, y
<1>3. \A n \in 0..N : y[n] \in Jsons
  BY <1>2
<1>4. 0..N \subseteq P
  <2>1. 0 \in P
    BY <1>1, <1>2 DEF Followed
  <2>2. ASSUME NEW n \in 1..N, n - 1 \in P PROVE Followed(x[n], y[n], s)
    <3>1. /\ Followed(x[n - 1], y[n - 1], s) /\ y[n - 1] \in Jsons /\ s[n] \in Int
          /\ x[n] = Element(x[n - 1], s[n]) /\ y[n] = Item(y[n - 1], s[n]) /\ n \in DOMAIN s
      BY <1>1, <1>2, <1>3, <2>2
    <3>2. CASE x[n - 1] = y[n - 1]
      <4>1. \/ s[n] < 0 /\ x[n] = Panic /\ y[n] = Nil
            \/ x[n] = Missing /\ y[n] = Nil
            \/ x[n] = y[n]
        BY <3>1, <3>2, ElementCases
      <4> QED
        BY <4>1, <3>1, Types DEF Followed
    <3>3. CASE x[n - 1] \in {Missing, Panic} /\ y[n - 1].type = "nil"
      <4>1. x[n] = x[n - 1]
        BY <3>1, <3>3, ElementType, Types DEF Visits
      <4>2. y[n].type = "nil"
        BY <3>1, <3>3, ItemType
      <4>3. x[n - 1] # y[n - 1]
        BY <3>3, Types
      <4> QED
        BY <3>1, <4>1, <4>2, <4>3 DEF Followed
    <3> QED
      BY <3>1, <3>2, <3>3 DEF Followed
  <2>3. \A n \in 1..N : n - 1 \in P => n \in P
    BY <1>1, <2>2
  <2> HIDE DEF P
  <2> QED
    BY <1>1, <2>1, <2>3, ChainInvariant
<1>5. 0..N \subseteq Q
  <2>1. 0 \in Q
    BY <1>1
  <2>2. ASSUME NEW n \in 1..N, n - 1 \in Q, v.type # "array" PROVE y[n].type = "nil"
    <3>1. y[n - 1].type # "array" /\ y[n - 1] \in Jsons /\ s[n] \in Int /\ y[n] = Item(y[n - 1], s[n])
      BY <1>1, <1>2, <1>3, <2>2
    <3> QED
      BY <3>1, ItemType
  <2>3. \A n \in 1..N : n - 1 \in Q => n \in Q
    BY <1>1, <2>2
  <2> HIDE DEF Q
  <2> QED
    BY <1>1, <2>1, <2>3, ChainInvariant
<1>6. N \in 0..N /\ (s # <<>> => N >= 1)
  BY <1>1
<1> QED
  BY <1>3, <1>4, <1>5, <1>6 DEF x, y

KeyType == [name : STRING, indices : Seq(Int)]

\* A name leads to what the code finds, too, but for an answer that is the
\* value itself, or a name with an index in a value that has no names.
KeyFollowed(key, v, x, y) ==
  /\ y \in Jsons
  /\ \/ x = y
     \/ x.type \in {"nil", "missing"} /\ y.type = "nil"
     \/ /\ x = Panic /\ y.type = "nil"
        /\ \/ \E i \in DOMAIN key.indices : key.indices[i] < 0
           \/ key.name # "" /\ key.indices # <<>> /\ v.type \notin {"nil", "object"}
     \/ x = v /\ v.type # "object" /\ y.type = "nil" /\ key.name # ""
  /\ key.name # "" /\ v.type # "object" => y.type = "nil"

LEMMA KeyCases ==
  ASSUME NEW key \in KeyType, key.name = "" => key.indices # <<>>, NEW v \in Jsons
  PROVE  KeyFollowed(key, v, ExtractValue(key, v), Named(key, v))
<1> DEFINE s == key.indices
           x == ExtractValue(key, v)
           y == Named(key, v)
           field == IF key.name = "" THEN v
                    ELSE IF v.type = "object" THEN Field(v, key.name) ELSE Nil
<1> SUFFICES /\ y \in Jsons
             /\ \/ x = y
                \/ x.type \in {"nil", "missing"} /\ y.type = "nil"
                \/ /\ x = Panic /\ y.type = "nil"
                   /\ \/ \E i \in DOMAIN s : s[i] < 0
                      \/ key.name # "" /\ s # <<>> /\ v.type \notin {"nil", "object"}
                \/ x = v /\ v.type # "object" /\ y.type = "nil" /\ key.name # ""
             /\ key.name # "" /\ v.type # "object" => y.type = "nil"
  BY DEF KeyFollowed
<1>1. s \in Seq(Int) /\ field \in Jsons /\ y = Items(field, s)[Len(s)]
  BY Types DEF KeyType, Named, Jsons
<1>2. /\ y \in Jsons
      /\ Followed(Elements(field, s)[Len(s)], y, s)
      /\ s # <<>> /\ field.type # "array" => y.type = "nil"
  <2> HIDE DEF field, s, y
  <2> QED
    BY <1>1, Indexed
<1>3. s = <<>> => y = field
  <2> HIDE DEF field, s
  <2> QED
    BY <1>1, ItemsSteps
<1>4. CASE s # <<>> /\ key.name = ""
  <2>1. x = Elements(field, s)[Len(s)]
    BY <1>4 DEF ExtractValue
  <2> HIDE DEF x, y, field, s
  <2> QED
    BY <1>4, <1>2, <2>1, Types DEF Followed
<1>5. CASE s # <<>> /\ key.name # "" /\ v.type = "nil"
  <2>1. x = Nil /\ field = Nil
    BY <1>5 DEF ExtractValue
  <2> HIDE DEF x, y, field, s
  <2> QED
    BY <1>5, <1>2, <2>1, Types
<1>6. CASE s # <<>> /\ key.name # "" /\ v.type \notin {"nil", "object"}
  <2>1. x = Panic /\ field = Nil
    BY <1>6 DEF ExtractValue
  <2> HIDE DEF x, y, field, s
  <2> QED
    BY <1>6, <1>2, <2>1, Types
<1>7. CASE s # <<>> /\ key.name # "" /\ v.type = "object" /\ Field(v, key.name).type = "nil"
  <2>1. x = Nil /\ field.type = "nil"
    BY <1>7 DEF ExtractValue
  <2> HIDE DEF x, y, field, s
  <2> QED
    BY <1>7, <1>2, <2>1, Types
<1>8. CASE s # <<>> /\ key.name # "" /\ v.type = "object" /\ Field(v, key.name).type # "nil"
  <2>1. x = Elements(field, s)[Len(s)]
    BY <1>8 DEF ExtractValue
  <2> HIDE DEF x, y, field, s
  <2> QED
    BY <1>8, <1>2, <2>1, Types DEF Followed
<1>9. CASE s = <<>> /\ v.type = "object"
  <2>1. x = Field(v, key.name) /\ field = Field(v, key.name)
    BY <1>9 DEF ExtractValue
  <2> HIDE DEF x, y, field, s
  <2> QED
    BY <1>9, <1>2, <1>3, <2>1
<1>10. CASE s = <<>> /\ v.type # "object"
  <2>1. x = v /\ field = Nil /\ key.name # ""
    BY <1>10 DEF ExtractValue
  <2> HIDE DEF x, y, field, s
  <2> QED
    BY <1>10, <1>2, <1>3, <2>1, Types
<1> HIDE DEF x, y, field, s
<1> QED
  BY <1>4, <1>5, <1>6, <1>7, <1>8, <1>9, <1>10

IsKey(key) == key \in KeyType /\ (key.name = "" => key.indices # <<>>)

LEMMA PathTypes ==
  ASSUME NEW path \in Paths
  PROVE  /\ Len(path) \in Nat /\ DOMAIN path = 1..Len(path)
         /\ path = <<>> <=> Len(path) = 0
         /\ \A n \in 1..Len(path) : IsKey(path[n]) /\ (path[n].name = "" => n = 1)
<1>1. path \in Seq(KeyType)
  BY PathsAssumption DEF KeyType
<1>2. Len(path) \in Nat /\ DOMAIN path = 1..Len(path) /\ (path = <<>> <=> Len(path) = 0)
  BY <1>1
<1>3. \A n \in 1..Len(path) : path[n] \in KeyType
  BY <1>1
<1> QED
  BY <1>2, <1>3, PathsAssumption DEF IsKey

LEMMA NamedType ==
  ASSUME NEW key, IsKey(key), NEW v \in Jsons
  PROVE  Named(key, v) \in Jsons
  BY KeyCases DEF IsKey, KeyFollowed

LEMMA ExtractedType ==
  ASSUME NEW key, IsKey(key), NEW v \in Visits
  PROVE  ExtractValue(key, v) \in Visits
<1>1. key.indices \in Seq(Int)
  BY DEF IsKey, KeyType
<1>2. \A w \in Visits : Elements(w, key.indices)[Len(key.indices)] \in Visits
  <2> TAKE w \in Visits
  <2>1. Elements(w, key.indices) \in [0..Len(key.indices) -> Visits]
    BY <1>1, ElementsSteps
  <2>2. Len(key.indices) \in 0..Len(key.indices)
    BY <1>1
  <2> QED
    BY <2>1, <2>2
<1>3. v.type = "object" => Field(v, key.name) \in Visits
  BY Types DEF Visits
<1>4. Nil \in Visits /\ Panic \in Visits
  BY DEF Visits, Jsons
<1> QED
  BY <1>2, <1>3, <1>4 DEF ExtractValue

LEMMA VisitedSteps ==
  ASSUME NEW path \in Paths, NEW v \in Jsons
  PROVE  LET x == Visited(path, v) IN
         /\ x \in [0..Len(path) -> Visits] /\ x[0] = v
         /\ \A n \in 1..Len(path) : x[n] = ExtractValue(path[n], x[n - 1])
<1> DEFINE N == Len(path)
           x == Visited(path, v)
           move == [n \in 1..N |-> [w \in Visits |-> ExtractValue(path[n], w)]]
<1>1. N \in Nat /\ v \in Visits /\ \A n \in 1..N : IsKey(path[n])
  BY PathTypes DEF Visits
<1>2. move \in [1..N -> [Visits -> Visits]]
  BY <1>1, ExtractedType
<1> HIDE DEF N, move, x
<1>3. PICK f : IsChain(f, N, v, Visits, move)
  BY <1>1, <1>2, ChainExists, Zenon
<1>4. /\ f \in [0..N -> Visits] /\ f[0] = v
      /\ \A n \in 1..N : f[n] = ExtractValue(path[n], f[n - 1])
  <2>1. f \in [0..N -> Visits] /\ f[0] = v
    BY <1>3 DEF IsChain
  <2>2. ASSUME NEW n \in 1..N PROVE f[n] = ExtractValue(path[n], f[n - 1])
    <3>1. f[n - 1] \in Visits
      BY <1>1, <2>1
    <3> QED
      BY <1>3, <3>1 DEF IsChain, move
  <2> QED
    BY <2>1, <2>2
<1>5. f = [n \in 0..N |-> IF n = 0 THEN v ELSE ExtractValue(path[n], f[n - 1])]
  BY <1>1, <1>4
<1>6. x = [n \in 0..N |-> IF n = 0 THEN v ELSE ExtractValue(path[n], x[n - 1])]
  BY <1>5 DEF Visited, N, x
<1>7. x = f
  <2> DEFINE P == {n \in 0..N : x[n] = f[n]}
  <2>1. 0 \in P
    BY <1>1, <1>4, <1>6
  <2>2. \A n \in 1..N : n - 1 \in P => n \in P
    BY <1>1, <1>4, <1>6
  <2> HIDE DEF P
  <2>3. 0..N \subseteq P
    BY <1>1, <2>1, <2>2, ChainInvariant
  <2>4. \A n \in 0..N : x[n] = f[n]
    BY <2>3 DEF P
  <2> QED
    BY <1>4, <1>6, <2>4
<1> QED
  BY <1>4, <1>7 DEF x, N

LEMMA AtSteps ==
  ASSUME NEW path \in Paths, NEW v \in Jsons
  PROVE  LET x == At(path, v) IN
         /\ x \in [0..Len(path) -> Jsons] /\ x[0] = v
         /\ \A n \in 1..Len(path) : x[n] = Named(path[n], x[n - 1])
<1> DEFINE N == Len(path)
           x == At(path, v)
           move == [n \in 1..N |-> [w \in Jsons |-> Named(path[n], w)]]
<1>1. N \in Nat /\ v \in Jsons /\ \A n \in 1..N : IsKey(path[n])
  BY PathTypes DEF Visits
<1>2. move \in [1..N -> [Jsons -> Jsons]]
  BY <1>1, NamedType
<1> HIDE DEF N, move, x
<1>3. PICK f : IsChain(f, N, v, Jsons, move)
  BY <1>1, <1>2, ChainExists, Zenon
<1>4. /\ f \in [0..N -> Jsons] /\ f[0] = v
      /\ \A n \in 1..N : f[n] = Named(path[n], f[n - 1])
  <2>1. f \in [0..N -> Jsons] /\ f[0] = v
    BY <1>3 DEF IsChain
  <2>2. ASSUME NEW n \in 1..N PROVE f[n] = Named(path[n], f[n - 1])
    <3>1. f[n - 1] \in Jsons
      BY <1>1, <2>1
    <3> QED
      BY <1>3, <3>1 DEF IsChain, move
  <2> QED
    BY <2>1, <2>2
<1>5. f = [n \in 0..N |-> IF n = 0 THEN v ELSE Named(path[n], f[n - 1])]
  BY <1>1, <1>4
<1>6. x = [n \in 0..N |-> IF n = 0 THEN v ELSE Named(path[n], x[n - 1])]
  BY <1>5 DEF At, N, x
<1>7. x = f
  <2> DEFINE P == {n \in 0..N : x[n] = f[n]}
  <2>1. 0 \in P
    BY <1>1, <1>4, <1>6
  <2>2. \A n \in 1..N : n - 1 \in P => n \in P
    BY <1>1, <1>4, <1>6
  <2> HIDE DEF P
  <2>3. 0..N \subseteq P
    BY <1>1, <2>1, <2>2, ChainInvariant
  <2>4. \A n \in 0..N : x[n] = f[n]
    BY <2>3 DEF P
  <2> QED
    BY <1>4, <1>6, <2>4
<1> QED
  BY <1>4, <1>7 DEF x, N

\* Where a walk ends: at the first value that is no object.
LEMMA WalkEnds ==
  ASSUME NEW path \in Paths, path # <<>>, NEW x
  PROVE  LET e == EndOfWalk(path, x) IN
         /\ e \in 1..Len(path) /\ (e = Len(path) \/ x[e].type # "object")
         /\ \A n \in 1..(e - 1) : x[n].type = "object"
<1> DEFINE S == {n \in DOMAIN path : n = Len(path) \/ x[n].type # "object"}
           e == EndOfWalk(path, x)
<1>1. Len(path) \in Nat \ {0} /\ DOMAIN path = 1..Len(path)
  BY PathTypes
<1>2. Len(path) \in S /\ S \in SUBSET Nat /\ S \subseteq 1..Len(path)
  BY <1>1
<1>3. \E i \in S : \A j \in S : i <= j
  <2> HIDE DEF S
  <2> QED
    BY <1>2, LeastElement
<1>4. e \in S /\ \A j \in S : e <= j
  <2>1. e = Min(S)
    BY DEF EndOfWalk
  <2> HIDE DEF S, e
  <2> QED
    BY <1>3, <2>1 DEF Min
<1> HIDE DEF e
<1>5. e \in 1..Len(path)
  BY <1>2, <1>4
<1>6. e = Len(path) \/ x[e].type # "object"
  BY <1>4
<1>7. ASSUME NEW n \in 1..(e - 1), x[n].type # "object" PROVE FALSE
  <2>0. n \in 1..Len(path)
    BY <1>1, <1>5
  <2>1. n \in S
    BY <1>1, <1>7, <2>0, Zenon
  <2> HIDE DEF S
  <2> QED
    BY <1>4, <1>5, <2>1
<1> QED
  BY <1>5, <1>7, <1>6 DEF e

\* A name leads from nothing, or from a value without names, to nothing.
LEMMA NothingStays ==
  ASSUME NEW path \in Paths, NEW v \in Jsons, NEW m \in 1..Len(path),
         At(path, v)[m].type # "object", m < Len(path) \/ At(path, v)[m].type = "nil"
  PROVE  At(path, v)[Len(path)].type = "nil"
<1> DEFINE N == Len(path)
           y == At(path, v)
           P == {n \in 0..N : n = m \/ (n > m => y[n].type = "nil")}
<1> HIDE DEF y
<1>0. N \in Nat /\ m \in 1..N /\ N \in 0..N /\ \A n \in 1..N : n - 1 \in 0..N
  <2>1. N \in Nat /\ m \in 1..N
    BY PathTypes
  <2> HIDE DEF N
  <2> QED
    BY <2>1
<1>1. \A n \in 1..N : IsKey(path[n]) /\ (path[n].name = "" => n = 1)
  BY PathTypes
<1>2. y \in [0..N -> Jsons] /\ \A n \in 1..N : y[n] = Named(path[n], y[n - 1])
  BY AtSteps DEF y
<1>3. 0 \in P
  BY <1>0
<1>4. ASSUME NEW n \in 1..N, n - 1 \in P, n > m PROVE y[n].type = "nil"
  <2>1. y[n - 1] \in Jsons
    BY <1>0, <1>2, Zenon
  <2>2. n - 1 = m \/ n - 1 > m
    BY <1>0, <1>4
  <2>3. y[n - 1].type # "object"
    BY <1>4, <2>2, SMT DEF y
  <2>4. n # 1
    BY <1>0, <1>4
  <2>5. IsKey(path[n]) /\ path[n].name # "" /\ y[n] = Named(path[n], y[n - 1])
    BY <1>1, <1>2, <2>4, Zenon
  <2> QED
    BY <2>1, <2>3, <2>5, KeyCases DEF IsKey, KeyFollowed
<1>5. \A n \in 1..N : n - 1 \in P => n \in P
  BY <1>0, <1>4
<1>6. 0..N \subseteq P
  <2> HIDE DEF P
  <2> QED
    BY <1>0, <1>3, <1>5, ChainInvariant
<1>7. N \in P
  BY <1>0, <1>6
<1> QED
  <2>1. N = m \/ N > m
    BY <1>0
  <2> QED
    BY <1>7, <2>1 DEF y

\* PathsAreFollowed, for one path and one body.
Follows(path, body) ==
  LET answer == Eval(path, body)
      target == At(path, body)[Len(path)]
  IN /\ target.type # "nil" => answer = Found(target)
     /\ answer.outcome = "found" /\ answer.value # target =>
          \E n \in 0..(Len(path) - 1) :
            /\ answer.value = At(path, body)[n]
            /\ \/ answer.value.type \in {"array", "scalar"}
               \/ (answer.value.type = "string" /\ n = 0 /\ Len(path) = 1)
     /\ answer.outcome = "panic" =>
          \/ \E n \in DOMAIN path : \E i \in DOMAIN path[n].indices : path[n].indices[i] < 0
          \/ /\ Head(path).name # "" /\ Head(path).indices # <<>>
             /\ body.type \notin {"nil", "object"}

LEMMA Answers ==
  /\ \A v : Found(v).outcome = "found" /\ Found(v).value = v
  /\ NotFound.outcome = "error" /\ Stopped.outcome = "panic"
  BY SMT DEF Found, NotFound, Stopped

LEMMA EveryPathIsFollowed ==
  ASSUME NEW path \in Paths, NEW body \in Jsons
  PROVE  Follows(path, body)
<1> DEFINE N == Len(path)
           x == Visited(path, body)
           y == At(path, body)
           e == EndOfWalk(path, x)
           answer == Eval(path, body)
<1>1. /\ x[0] = body /\ \A n \in 1..N : x[n] = ExtractValue(path[n], x[n - 1])
      /\ y[0] = body /\ \A n \in 1..N : y[n] = Named(path[n], y[n - 1])
      /\ \A n \in 0..N : y[n] \in Jsons
  BY VisitedSteps, AtSteps
<1>2. N \in Nat /\ (path # <<>> => N >= 1)
  <2>1. N \in Nat /\ (path = <<>> <=> N = 0)
    BY PathTypes
  <2> HIDE DEF N
  <2> QED
    BY <2>1
<1>5. DOMAIN path = 1..N /\ \A n \in 1..N : IsKey(path[n])
  BY PathTypes
<1>3. CASE path = <<>>
  <2>1. answer = Found(body) /\ y[N] = body
    BY <1>1, <1>3, PathTypes DEF Eval
  <2> HIDE DEF answer, y
  <2>2. answer.outcome = "found" /\ answer.value = body
    BY <2>1, Answers
  <2> QED
    BY <2>1, <2>2 DEF Follows, answer, y
<1>4. CASE path # <<>>
  <2>0. e \in 1..N
    BY <1>4, WalkEnds
  <2>1. /\ e = N \/ x[e].type # "object"
        /\ \A n \in 1..(e - 1) : x[n].type = "object"
    BY <1>4, WalkEnds
  <2>2. /\ x[e].type = "panic" => answer = Stopped
        /\ x[e].type \in {"nil", "missing"} => answer = NotFound
        /\ x[e].type = "string" => answer = IF e = N THEN Found(x[e]) ELSE NotFound
        /\ x[e].type \notin {"panic", "nil", "missing", "string"} => answer = Found(x[e])
    BY <1>4 DEF Eval, Walk, EndingAt
  <2> HIDE DEF x, y, e, answer, N
  <2>3. \A n \in 1..N : n - 1 \in 0..N
    BY <1>2
  \* Up to the end the walk is where the path says.
  <2>4. ASSUME NEW n \in 1..N, x[n - 1] = y[n - 1]
        PROVE  KeyFollowed(path[n], y[n - 1], x[n], y[n])
    <3>1. y[n - 1] \in Jsons /\ IsKey(path[n]) /\ x[n] = ExtractValue(path[n], y[n - 1])
          /\ y[n] = Named(path[n], y[n - 1])
      BY <1>1, <1>5, <2>3, <2>4, Zenon
    <3> QED
      BY <3>1, KeyCases, Zenon DEF IsKey
  <2>5. \A n \in 0..(e - 1) : x[n] = y[n]
    <3> DEFINE P == {n \in 0..(e - 1) : x[n] = y[n]}
    <3>1. 0 \in P
      <4>1. 0 \in 0..(e - 1)
        BY <1>2, <2>0
      <4> QED
        BY <1>1, <4>1
    <3>2. ASSUME NEW n \in 1..(e - 1), n - 1 \in P PROVE x[n] = y[n]
      <4>0. n \in 1..N
        BY <1>2, <2>0
      <4>1. n \in 1..N /\ x[n].type = "object" /\ x[n - 1] = y[n - 1]
        BY <4>0, <2>1, <3>2, Zenon
      <4>2. x[n] # Panic
        BY <4>1, Types
      <4> QED
        BY <2>4, <4>1, <4>2 DEF KeyFollowed
    <3>3. \A n \in 1..(e - 1) : n - 1 \in P => n \in P
      <4>1. \A n \in 1..(e - 1) : n \in 0..(e - 1)
        BY <1>2, <2>0
      <4> QED
        BY <3>2, <4>1
    <3>4. e - 1 \in Nat
      BY <1>2, <2>0
    <3> HIDE DEF P
    <3>5. 0..(e - 1) \subseteq P
      BY <3>1, <3>3, <3>4, ChainInvariant
    <3> QED
      BY <3>5 DEF P
  <2>6. e - 1 \in 0..(e - 1) /\ e \in 0..N /\ N \in 0..N
    BY <1>2, <2>0
  <2>7. x[e - 1] = y[e - 1] /\ y[e] \in Jsons /\ y[N] \in Jsons
    BY <2>5, <2>6, <1>1
  <2>8. e > 1 => y[e - 1].type = "object"
    <3>1. e > 1 => e - 1 \in 1..(e - 1)
      BY <2>0, <1>2
    <3> QED
      BY <3>1, <2>1, <2>7
  <2>9. (e < N \/ y[e].type = "nil") /\ y[e].type # "object" => y[N].type = "nil"
    BY <2>0, <2>1, NothingStays DEF y, N
  <2>10. CASE x[e] = y[e]
    <3>1. x[e].type \in {"nil", "scalar", "string", "array", "object"}
      BY <2>7, <2>10, Types
    <3>2. CASE x[e].type = "nil"
      <4>1. answer.outcome = "error" /\ y[N].type = "nil"
        BY <2>2, <2>9, <2>10, <3>2, Answers
      <4> QED
        BY <4>1 DEF Follows, answer, y, N
    <3>3. CASE x[e].type # "nil" /\ e = N
      <4>1. answer = Found(y[N])
        BY <2>2, <2>10, <3>1, <3>3
      <4>2. answer.outcome = "found" /\ answer.value = y[N]
        BY <4>1, Answers
      <4> QED
        BY <4>1, <4>2 DEF Follows, answer, y, N
    <3>4. CASE x[e].type # "nil" /\ e # N
      <4>0. e < N /\ e \in 0..(N - 1)
        BY <1>2, <2>0, <3>4
      <4>1. y[N].type = "nil" /\ x[e].type \in {"scalar", "string", "array"} /\ e \in 0..(N - 1)
        BY <4>0, <2>1, <2>9, <2>10, <3>1, <3>4
      <4>2. CASE x[e].type = "string"
        <5>1. answer.outcome = "error"
          BY <2>2, <3>4, <4>2, Answers
        <5> QED
          BY <4>1, <5>1 DEF Follows, answer, y, N
      <4>3. CASE x[e].type \in {"scalar", "array"}
        <5>1. answer.outcome = "found" /\ answer.value = y[e] /\ answer.value.type \in {"array", "scalar"}
          BY <2>2, <2>10, <4>3, Answers
        <5> QED
          BY <4>1, <5>1 DEF Follows, answer, y, N
      <4> QED
        BY <4>1, <4>2, <4>3
    <3> QED
      BY <3>2, <3>3, <3>4
  <2>11. CASE x[e].type \in {"nil", "missing"} /\ y[e].type = "nil"
    <3>1. answer.outcome = "error" /\ y[N].type = "nil"
      BY <2>2, <2>9, <2>11, Answers
    <3> QED
      BY <3>1 DEF Follows, answer, y, N
  <2>12. CASE /\ x[e] = Panic /\ y[e].type = "nil"
              /\ \/ \E i \in DOMAIN path[e].indices : path[e].indices[i] < 0
                 \/ path[e].name # "" /\ path[e].indices # <<>> /\ y[e - 1].type \notin {"nil", "object"}
    <3>1. answer.outcome = "panic" /\ y[N].type = "nil"
      BY <2>2, <2>9, <2>12, Answers, Types
    <3>2. CASE \E i \in DOMAIN path[e].indices : path[e].indices[i] < 0
      <4>1. \E n \in DOMAIN path : \E i \in DOMAIN path[n].indices : path[n].indices[i] < 0
        BY <1>5, <2>0, <3>2
      <4> QED
        BY <3>1, <4>1 DEF Follows, answer, y, N
    <3>3. CASE path[e].name # "" /\ path[e].indices # <<>> /\ y[e - 1].type \notin {"nil", "object"}
      <4>0. ~(e > 1)
        BY <2>8, <3>3
      <4>1. e = 1 /\ e - 1 = 0
        BY <1>2, <2>0, <4>0
      <4>2. Head(path) = path[e] /\ y[e - 1] = body
        BY <1>1, <4>1
      <4> QED
        BY <3>1, <3>3, <4>2 DEF Follows, answer, y, N
    <3> QED
      BY <2>12, <3>2, <3>3
  <2>13. CASE x[e] = y[e - 1] /\ y[e - 1].type # "object" /\ y[e].type = "nil"
    <3>0. ~(e > 1)
      BY <2>8, <2>13
    <3>5. e = 1 /\ e - 1 = 0 /\ (e < N \/ e = N)
      BY <1>2, <2>0, <3>0
    <3>1. e = 1 /\ x[e] = body /\ y[N].type = "nil" /\ y[0] = body
      BY <1>1, <2>9, <2>13, <3>5
    <3>2. x[e].type \in {"nil", "scalar", "string", "array"}
      BY <3>1, <2>13, <2>7, Types
    <3>3. CASE x[e].type = "nil" \/ (x[e].type = "string" /\ N # 1)
      <4>1. answer.outcome = "error"
        BY <2>2, <3>1, <3>3, Answers
      <4> QED
        BY <3>1, <4>1 DEF Follows, answer, y, N
    <3>4. CASE x[e].type \in {"scalar", "array"} \/ (x[e].type = "string" /\ N = 1)
      <4>1. answer.outcome = "found" /\ answer.value = y[0]
        BY <2>2, <3>1, <3>4, Answers
      <4>2. 0 \in 0..(N - 1)
        BY <1>2, <2>0
      <4> QED
        BY <3>1, <3>4, <4>1, <4>2 DEF Follows, answer, y, N
    <3> QED
      BY <3>2, <3>3, <3>4
  <2> QED
    BY <2>0, <2>4, <2>7, <2>10, <2>11, <2>12, <2>13 DEF KeyFollowed
<1> QED
  BY <1>3, <1>4
-----------------------------------------------------------------------------
(* Conditions *)

LEMMA NumberType ==
  ASSUME NEW t, IsText(t)
  PROVE  Number(t) \in Int
<1>1. Is("exponent", t) =>
        \/ Is("int", t.exponent) /\ t.exponent.int \in Int
        \/ Is("float", t.exponent) /\ ~Is("int", t.exponent) /\ t.exponent.float \in Int
  BY DEF IsText, Is
<1> QED
  BY <1>1 DEF IsText, Is, Number, IsInteger, IntegerOf

\* The number that is compared is the one that is written, but for its rest.
LEMMA NumberMeans ==
  ASSUME NEW t, IsText(t), IsNumber(t)
  PROVE  /\ ~Is("float", Written(t)) => Amount(t) = 2 * Number(t)
         /\ Is("float", Written(t)) =>
              Amount(t) = 2 * Number(t) + (IF Number(t) < 0 THEN -1 ELSE 1)
<1>1. CASE Is("exponent", t)
  <2>1. Is("int", t.exponent) \/ (Is("float", t.exponent) /\ ~Is("int", t.exponent))
    BY <1>1 DEF IsText, Is
  <2>2. Number(t) = IF Is("int", t.exponent) THEN t.exponent.int ELSE t.exponent.float
    BY <1>1 DEF Number, Is, IsInteger
  <2>3. Written(t) = t.exponent /\ Amount(t) = Halves(t.exponent)
    BY <1>1 DEF Written, Amount
  <2>4. Is("int", t.exponent) => Halves(t.exponent) = 2 * t.exponent.int /\ ~Is("float", t.exponent)
    BY DEF Halves, Is
  <2>5. Is("float", t.exponent) =>
          Halves(t.exponent) = 2 * t.exponent.float + (IF t.exponent.float < 0 THEN -1 ELSE 1)
    BY DEF Halves, Is
  <2> QED
    BY <2>1, <2>2, <2>3, <2>4, <2>5
<1>2. CASE ~Is("exponent", t)
  <2>1. Written(t) = t /\ Amount(t) = Halves(t)
    BY <1>2 DEF Written, Amount
  <2> QED
    BY <1>2, <2>1 DEF IsNumber, Is, Number, Halves, IsInteger, IntegerOf
<1> QED
  BY <1>1, <1>2

\* A text writes another if it is that text, or the same number with an exponent.
Writes(s, t) ==
  \/ s = t
  \/ /\ IsNumber(s) /\ IsNumber(t) /\ Amount(s) = Amount(t) /\ Number(s) = Number(t)
     /\ ~IsInteger(s)

LEMMA Prints ==
  ASSUME NEW t, IsText(t)
  PROVE  IsText(Printed(t)) /\ Writes(Printed(t), t)
<1>1. CASE Printed(t) = t
  BY <1>1 DEF Writes
<1>2. CASE Printed(t) # t
  <2>1. Printed(t) = [exponent |-> t] /\ (Is("int", t) \/ Is("float", t))
    BY <1>2 DEF Printed, Exponent
  <2> DEFINE s == Printed(t)
  <2>2. Is("exponent", s) /\ s.exponent = t /\ ~IsInteger(s) /\ ~Is("time", s) /\ ~Is("float", s)
    BY <2>1 DEF Is, IsInteger
  <2> HIDE DEF s
  <2>3. IsText(s)
    BY <2>1, <2>2 DEF IsText, Is
  <2>4. IsNumber(s) /\ IsNumber(t)
    BY <2>1, <2>2 DEF IsNumber
  <2>5. Amount(s) = Amount(t)
    BY <2>1, <2>2 DEF Amount, Written, Is
  <2>6. Number(s) = Number(t)
    <3>1. Number(s) = IF Is("int", t) THEN t.int ELSE t.float
      BY <2>2 DEF Number, Is
    <3>2. CASE Is("int", t)
      <4>1. Number(t) = t.int
        BY <3>2 DEF Number, Is, IsInteger, IntegerOf
      <4> QED
        BY <3>1, <3>2, <4>1
    <3>3. CASE ~Is("int", t)
      <4>1. Is("float", t)
        BY <2>1, <3>3
      <4>2. Number(t) = t.float
        BY <4>1 DEF Number, Is, IsInteger
      <4> QED
        BY <3>1, <3>3, <4>2
    <3> QED
      BY <3>2, <3>3
  <2> QED
    BY <2>2, <2>3, <2>4, <2>5, <2>6 DEF Writes, s
<1> QED
  BY <1>1, <1>2

\* What conditions are judged on.
SameAnswers(r, q) ==
  /\ r.status = q.status /\ r.ip = q.ip /\ r.duration = q.duration /\ r.body = q.body
  /\ r.rcode = q.rcode /\ r.connected = q.connected
  /\ r.certificate = q.certificate /\ r.domain = q.domain

LEMMA SameJudgement ==
  ASSUME NEW c, NEW r, NEW q, SameAnswers(r, q)
  PROVE  Satisfied(c, r) = Satisfied(c, q)
<1>1. ASSUME NEW p PROVE Resolved(p, r) = Resolved(p, q)
  <2>1. Said(p, r) = Said(p, q)
    BY DEF Said, SameAnswers
  <2> QED
    BY <2>1 DEF Resolved, SameAnswers
<1>2. Resolved(c.left, r) = Resolved(c.left, q) /\ Resolved(c.right, r) = Resolved(c.right, q)
  BY <1>1
<1> QED
  BY <1>2 DEF Satisfied

\* A condition whose paths led somewhere.
Sound(c, r) ==
  \A p \in {c.left, c.right} : ~Panics(p, r) /\ (r.errors = <<>> => ~LeadsNowhere(p, r))

LEMMA SameSound ==
  ASSUME NEW c, NEW r, NEW q, r.body = q.body, q.errors = <<>> => r.errors = <<>>, Sound(c, r)
  PROVE  Sound(c, q)
  BY DEF Sound, Panics, LeadsNowhere

LEMMA SameIsEqual ==
  ASSUME NEW a, NEW b
  PROVE  /\ Same(a, b) => Equal(a, b)
         /\ IsText(a) /\ IsText(b) /\ Equal(a, b) /\ ~Same(a, b) =>
              /\ IsNumber(a) /\ IsNumber(b) /\ Amount(a) = Amount(b) /\ a # b
              /\ ~(IsInteger(a) /\ IsInteger(b))
<1>1. ASSUME NEW t, IsInteger(t)
      PROVE  IsNumber(t) /\ Amount(t) = 2 * IntegerOf(t) /\ (IsText(t) => IntegerOf(t) \in Int)
  BY <1>1 DEF IsInteger, Is, IsNumber, Amount, Written, Halves, IntegerOf, IsText
<1>2. ASSUME IsInteger(a), IsInteger(b) PROVE Same(a, b) => Equal(a, b)
  BY <1>1, <1>2 DEF Same, Equal
<1>3. ASSUME IsInteger(a), IsInteger(b), IsText(a), IsText(b), Equal(a, b) PROVE Same(a, b)
  <2>1. 2 * IntegerOf(a) = 2 * IntegerOf(b) /\ IntegerOf(a) \in Int /\ IntegerOf(b) \in Int
    BY <1>1, <1>3 DEF Equal
  <2>2. \A m, n \in Int : 2 * m = 2 * n => m = n
    OBVIOUS
  <2> QED
    BY <1>3, <2>1, <2>2 DEF Same
<1>4. ~(IsInteger(a) /\ IsInteger(b)) => (Same(a, b) <=> a = b)
  BY DEF Same
<1>5. a = b => Equal(a, b)
  BY DEF Equal
<1> QED
  BY <1>2, <1>3, <1>4, <1>5 DEF Equal

LEMMA Functions ==
  ASSUME NEW t
  PROVE  /\ ~(Is("pattern", t) /\ Is("any", t))
         /\ IsFunction(t) => ~IsNumber(t) /\ ~IsInteger(t)
         /\ IsInteger(t) => IsNumber(t)
  BY DEF Is, IsFunction, IsNumber, IsInteger

\* What is compared where a and b are meant; a number may be written otherwise.
LEMMA EqualIsAccepted ==
  ASSUME NEW a, NEW b, NEW s, NEW t, Writes(s, a), Writes(t, b),
         IsText(s), IsText(t), ~(IsFunction(a) /\ IsFunction(b)),
         Is("pattern", s) => t = b, Is("pattern", t) => s = a
  PROVE  /\ IsEqual(s, t) => Accepts(a, b) \/ Accepts(b, a)
         /\ (Accepts(a, b) \/ Accepts(b, a)) /\ ~TwoWritings(s, t) => IsEqual(s, t)
<1>1. ASSUME NEW u, NEW v, Writes(u, v)
      PROVE  /\ IsFunction(u) \/ IsFunction(v) => u = v
             /\ \A x : x = u => Equal(x, v) /\ Equal(v, x)
             /\ \A x : Equal(x, v) <=> Equal(x, u)
             /\ \A x : Equal(v, x) <=> Equal(u, x)
  <2>1. IsFunction(u) \/ IsFunction(v) => u = v
    BY <1>1, Functions DEF Writes
  <2>2. u # v => IsNumber(u) /\ IsNumber(v) /\ Amount(u) = Amount(v)
    BY <1>1 DEF Writes
  <2>3. \A x : (Equal(x, v) <=> Equal(x, u)) /\ (Equal(v, x) <=> Equal(u, x))
    BY <2>2 DEF Equal
  <2> QED
    BY <2>1, <2>3 DEF Equal
<1>2. ASSUME NEW x, NEW y, IsFunction(x), ~IsFunction(y) PROVE ~Equal(x, y) /\ ~Equal(y, x)
  BY <1>2, Functions DEF Equal
<1>3. ASSUME NEW u, NEW o PROVE Among(u, o) <=> u \in Range(o)
  BY DEF Among, Range
<1>4. ASSUME NEW u, NEW v, NEW o, Writes(u, v), ~IsFunction(v), Is("any", o)
      PROVE  /\ Accepts(o, v) \/ Accepts(v, o) <=> \E x \in Range(o.any) : Equal(x, v)
             /\ Among(u, o.any) => \E x \in Range(o.any) : Equal(x, v)
             /\ (\E x \in Range(o.any) : Equal(x, v)) /\ ~Among(u, o.any) =>
                  TwoWritings(o, u) /\ TwoWritings(u, o)
  <2>1. IsFunction(o) /\ ~Is("pattern", o) /\ ~IsFunction(u) /\ ~Is("pattern", v) /\ ~Is("any", v)
    BY <1>1, <1>4, Functions DEF IsFunction
  <2>2. Accepts(o, v) <=> \E x \in Range(o.any) : Equal(x, v)
    BY <1>4, <2>1 DEF Accepts
  <2>3. ~Accepts(v, o)
    BY <1>2, <1>4, <2>1 DEF Accepts
  <2>4. Among(u, o.any) => \E x \in Range(o.any) : Equal(x, v)
    BY <1>1, <1>3, <1>4
  <2>5. ASSUME NEW x \in Range(o.any), Equal(x, v), ~Among(u, o.any)
        PROVE  TwoWritings(o, u) /\ TwoWritings(u, o)
    <3>1. x # u /\ Equal(x, u)
      BY <1>1, <1>3, <1>4, <2>5
    <3>2. IsNumber(x) /\ IsNumber(u) /\ Amount(x) = Amount(u)
      BY <3>1 DEF Equal
    <3>3. Options(o) = Range(o.any) /\ u \in Options(u)
      BY <1>4, <2>1 DEF Options, IsFunction
    <3>4. x # o
      BY <2>1, <3>2, Functions
    <3> QED
      BY <2>5, <3>1, <3>2, <3>3, <3>4 DEF TwoWritings
  <2> QED
    BY <2>2, <2>3, <2>4, <2>5
<1>5. CASE Is("pattern", s)
  <2>1. s = a /\ t = b /\ IsFunction(a) /\ ~IsFunction(b) /\ ~Is("pattern", b) /\ ~Is("any", b)
    BY <1>1, <1>5 DEF IsFunction
  <2>2. ~Accepts(b, a)
    BY <1>2, <2>1 DEF Accepts
  <2>3. Accepts(a, b) <=> b \in a.pattern
    <3>1. Is("pattern", a) /\ ~Is("any", a)
      BY <1>5, <2>1, Functions
    <3> QED
      BY <3>1, Zenon DEF Accepts
  <2>4. IsEqual(s, t) <=> b \in a.pattern
    BY <1>5, <2>1 DEF IsEqual
  <2> QED
    BY <2>2, <2>3, <2>4
<1>6. CASE Is("pattern", t)
  <2>1. s = a /\ t = b /\ IsFunction(b) /\ ~IsFunction(a) /\ ~Is("pattern", a) /\ ~Is("any", a)
    BY <1>1, <1>6 DEF IsFunction
  <2>2. ~Accepts(a, b)
    BY <1>2, <2>1 DEF Accepts
  <2>3. Accepts(b, a) <=> a \in b.pattern
    <3>1. Is("pattern", b) /\ ~Is("any", b)
      BY <1>6, <2>1, Functions
    <3> QED
      BY <3>1, Zenon DEF Accepts
  <2>4. IsEqual(s, t) <=> a \in b.pattern
    BY <1>6, <2>1 DEF IsEqual
  <2> QED
    BY <2>2, <2>3, <2>4
<1>7. CASE Is("any", s)
  <2>1. s = a /\ IsFunction(a) /\ ~IsFunction(b) /\ ~IsFunction(t) /\ ~Is("pattern", a)
    BY <1>1, <1>7, Functions DEF IsFunction
  <2>2. IsEqual(s, t) = Among(t, s.any)
    BY <1>7, <2>1 DEF IsEqual, IsFunction
  <2> QED
    BY <1>4, <1>7, <2>1, <2>2
<1>8. CASE Is("any", t)
  <2>1. t = b /\ IsFunction(b) /\ ~IsFunction(a) /\ ~IsFunction(s) /\ ~Is("pattern", b)
    BY <1>1, <1>8, Functions DEF IsFunction
  <2>2. IsEqual(s, t) = Among(s, t.any)
    BY <1>8, <2>1 DEF IsEqual, IsFunction
  <2> QED
    BY <1>4, <1>8, <2>1, <2>2
<1>9. CASE ~IsFunction(s) /\ ~IsFunction(t)
  <2>1. ~IsFunction(a) /\ ~IsFunction(b)
    BY <1>1, <1>9
  <2>2. /\ Accepts(a, b) <=> Equal(a, b)
        /\ Accepts(b, a) <=> Equal(b, a)
        /\ IsEqual(s, t) <=> Same(s, t)
    BY <1>9, <2>1 DEF IsFunction, Accepts, IsEqual, Stripped
  <2>3. Equal(a, b) <=> Equal(s, t)
    BY <1>1
  <2>4. Equal(b, a) <=> Equal(a, b)
    BY DEF Equal
  <2>5. Equal(s, t) /\ ~Same(s, t) => TwoWritings(s, t)
    <3>1. s \in Options(s) /\ t \in Options(t)
      BY <1>9 DEF Options, IsFunction
    <3> QED
      BY <3>1, SameIsEqual DEF TwoWritings
  <2> QED
    BY <2>2, <2>3, <2>4, <2>5, SameIsEqual
<1> QED
  BY <1>5, <1>6, <1>7, <1>8, <1>9 DEF IsFunction

\* An order of two numbers is kept when their rests are cut off, unless only the
\* rests differ.
LEMMA OrderIsKept ==
  ASSUME NEW a, NEW b, IsText(a), IsText(b), IsNumber(a), IsNumber(b),
         Number(a) = Number(b) => ~Is("float", Written(a)) /\ ~Is("float", Written(b))
  PROVE  /\ Number(a) <= Number(b) => Amount(a) <= Amount(b)
         /\ Number(a) < Number(b) => Amount(a) < Amount(b)
<1>1. Number(a) \in Int /\ Number(b) \in Int
  BY NumberType
<1>2. \A t \in {a, b} :
        \/ Amount(t) = 2 * Number(t) /\ ~Is("float", Written(t))
        \/ Is("float", Written(t)) /\ Number(t) < 0 /\ Amount(t) = 2 * Number(t) - 1
        \/ Is("float", Written(t)) /\ ~(Number(t) < 0) /\ Amount(t) = 2 * Number(t) + 1
  BY <1>1, NumberMeans
<1> DEFINE m == Number(a)
           n == Number(b)
           x == Amount(a)
           y == Amount(b)
<1>3. /\ x = 2 * m \/ (m < 0 /\ x = 2 * m - 1) \/ (~(m < 0) /\ x = 2 * m + 1)
      /\ y = 2 * n \/ (n < 0 /\ y = 2 * n - 1) \/ (~(n < 0) /\ y = 2 * n + 1)
      /\ m = n => x = 2 * m /\ y = 2 * n
  BY <1>2
<1> HIDE DEF m, n, x, y
<1>4. m \in Int /\ n \in Int
  BY <1>1 DEF m, n
<1>5. (m < n => x < y) /\ (m = n => x = y) /\ x \in Int /\ y \in Int
  BY <1>3, <1>4
<1>6. (m <= n => x <= y) /\ (m < n => x < y)
  BY <1>4, <1>5
<1> QED
  BY <1>6 DEF m, n, x, y

\* What satisfies an operator, written as s and t, is meant by it.
LEMMA JudgementMeans ==
  ASSUME NEW op \in Operators, NEW a, NEW b, NEW s, NEW t, Writes(s, a), Writes(t, b),
         IsText(a), IsText(b), IsText(s), IsText(t), Nothing \notin {a, b},
         ~(IsFunction(a) /\ IsFunction(b)), ~Unordered(op, a, b),
         Is("pattern", s) => t = b, Is("pattern", t) => s = a,
         op = "!=" => ~TwoWritings(s, t),
         CASE op = "==" -> IsEqual(s, t)
           [] op = "!=" -> ~IsEqual(s, t)
           [] op = "<=" -> Number(s) <= Number(t)
           [] op = ">=" -> Number(s) >= Number(t)
           [] op = ">" -> Number(s) > Number(t)
           [] op = "<" -> Number(s) < Number(t)
  PROVE  Means(op, a, b)
<1>1. CASE op \in {"==", "!="}
  BY <1>1, EqualIsAccepted DEF Means
<1>2. CASE op \notin {"==", "!="}
  <2>1. /\ IsNumber(a) /\ IsNumber(b)
        /\ Number(a) = Number(b) => ~Is("float", Written(a)) /\ ~Is("float", Written(b))
    BY <1>2 DEF Unordered
  <2>2. Number(s) = Number(a) /\ Number(t) = Number(b) /\ Number(a) \in Int /\ Number(b) \in Int
    BY NumberType DEF Writes
  <2>3. /\ Number(a) <= Number(b) => Amount(a) <= Amount(b)
        /\ Number(a) < Number(b) => Amount(a) < Amount(b)
        /\ Number(b) <= Number(a) => Amount(b) <= Amount(a)
        /\ Number(b) < Number(a) => Amount(b) < Amount(a)
    BY <2>1, OrderIsKept
  <2>4. Amount(a) \in Int /\ Amount(b) \in Int
    BY <2>1, <2>2, NumberMeans
  <2>5. Means(op, a, b) <=> Ordered(op, Amount(a), Amount(b))
    BY <1>2, <2>1 DEF Means
  <2>6. CASE op = "<="
    BY <2>2, <2>3, <2>5, <2>6 DEF Ordered
  <2>7. CASE op = "<"
    BY <2>2, <2>3, <2>5, <2>7 DEF Ordered
  <2>8. CASE op = ">="
    BY <2>2, <2>3, <2>4, <2>5, <2>8 DEF Ordered
  <2>9. CASE op = ">"
    BY <2>2, <2>3, <2>4, <2>5, <2>9 DEF Ordered
  <2> QED
    BY <1>2, <2>6, <2>7, <2>8, <2>9 DEF Operators
<1> QED
  BY <1>1, <1>2

LEMMA SatisfiedType ==
  ASSUME NEW c, c.op \in Operators, NEW r
  PROVE  Satisfied(c, r) \in BOOLEAN
<1> DEFINE a == Resolved(c.left, r)
           b == Resolved(c.right, r)
<1>1. Same(Stripped(a), Stripped(b)) \in BOOLEAN
  BY DEF Same
<1>2. \A t, s : Among(t, s) \in BOOLEAN
  BY DEF Among
<1>3. IsEqual(a, b) \in BOOLEAN
  <2> DEFINE p == Is("pattern", a) /\ ~Is("pattern", b)
             q == Is("pattern", b) /\ ~Is("pattern", a)
             n == Is("any", a) /\ ~Is("any", b)
             o == Is("any", b) /\ ~Is("any", a)
  <2>1. IsEqual(a, b) = IF p THEN b \in a.pattern ELSE IF q THEN a \in b.pattern
                        ELSE IF n THEN Among(b, a.any) ELSE IF o THEN Among(a, b.any)
                        ELSE Same(Stripped(a), Stripped(b))
    BY DEF IsEqual
  <2> HIDE DEF p, q, n, o, a, b
  <2>2. CASE p
    BY <2>1, <2>2
  <2>3. CASE ~p /\ q
    BY <2>1, <2>3
  <2>4. CASE ~p /\ ~q /\ n
    BY <1>2, <2>1, <2>4
  <2>5. CASE ~p /\ ~q /\ ~n /\ o
    BY <1>2, <2>1, <2>5
  <2>6. CASE ~p /\ ~q /\ ~n /\ ~o
    BY <1>1, <2>1, <2>6
  <2> QED
    BY <2>2, <2>3, <2>4, <2>5, <2>6
<1> HIDE DEF a, b
<1>4. Satisfied(c, r) =
        CASE c.op = "==" -> IsEqual(a, b)
          [] c.op = "!=" -> ~IsEqual(a, b)
          [] c.op = "<=" -> Number(a) <= Number(b)
          [] c.op = ">=" -> Number(a) >= Number(b)
          [] c.op = ">" -> Number(a) > Number(b)
          [] c.op = "<" -> Number(a) < Number(b)
  BY DEF Satisfied, a, b
<1>5. CASE c.op = "=="
  BY <1>3, <1>4, <1>5
<1>6. CASE c.op = "!="
  BY <1>3, <1>4, <1>6
<1>7. CASE c.op = "<="
  BY <1>4, <1>7
<1>8. CASE c.op = ">="
  BY <1>4, <1>8
<1>9. CASE c.op = ">"
  BY <1>4, <1>9
<1>10. CASE c.op = "<"
  BY <1>4, <1>10
<1> QED
  BY <1>5, <1>6, <1>7, <1>8, <1>9, <1>10 DEF Operators

\* What error messages are made of.
Pieces == {"parse", "lookup", "whois", "dial", "get", "read", "command", "walk",
           "scheme", "host", "port", "path", "changed", "redacted"}

Bodies(b) == {Empty, Cut, b}

ResultType(b) ==
  [success : BOOLEAN, errors : Seq(Seq(Pieces)), hostname : Seq(Pieces), port : Seq(Pieces),
   ip : {Word(""), Word("ip")}, domain : Int, connected : BOOLEAN, status : Int,
   rcode : {Word(""), Word("NOERROR")}, certificate : Int, duration : Int,
   body : Bodies(b), conditions : Seq(BOOLEAN)]

\* A body an endpoint may answer with.
IsBody(b) ==
  /\ b.type \in {"json", "empty", "cut", "plain"}
  /\ b.type = "json" => b.value \in Values
  /\ b.type = "plain" => IsText(b.text)

LEMMA Texts ==
  /\ \A n \in Int : IsText(Decimal(n))
  /\ \A w : IsText(Word(w)) /\ IsText(Invalid(w)) /\ IsText([json |-> w]) /\ IsText([cut |-> w])
<1>1. ASSUME NEW n \in Int PROVE IsText(Decimal(n))
  BY DEF IsText, Decimal, Is
<1>2. ASSUME NEW w
      PROVE  IsText(Word(w)) /\ IsText(Invalid(w)) /\ IsText([json |-> w]) /\ IsText([cut |-> w])
  BY DEF IsText, Word, Is, Invalid
<1> QED
  BY <1>1, <1>2

LEMMA BodyTypes ==
  ASSUME NEW b, IsBody(b), NEW body \in Bodies(b)
  PROVE  IsBody(body) /\ IsText(TextOfBody(body))
<1>1. IsBody(body)
  BY DEF Bodies, IsBody, Empty, Cut
<1>2. body.type = "json" => body.value \in Values /\ (body.value.type = "scalar" => IsText(body.value.data))
  BY <1>1, AnswersAssumption DEF IsBody
<1> QED
  BY <1>1, <1>2, Texts DEF IsBody, TextOfBody

\* What is found can be written as a text, and counted.
LEMMA FoundTypes ==
  ASSUME NEW body, IsBody(body), IsText(TextOfBody(body)), NEW path \in Paths,
         Lookup(path, body).outcome = "found"
  PROVE  LET v == Lookup(path, body).value IN
         IsText(TextOfValue(v)) /\ LengthOf(v) \in Int
<1> DEFINE v == Lookup(path, body).value
<1>1. ASSUME NEW w \in Jsons PROVE IsText(TextOfValue(w)) /\ LengthOf(w) \in Int
  <2>1. w.type \in {"scalar", "string"} => IsText(w.data)
    <3>1. w \in Values \/ w.type = "nil"
      BY Types DEF Jsons
    <3> QED
      BY <3>1, AnswersAssumption
  <2>2. w.type = "array" => Len(w.items) \in Int
    BY Types
  <2>3. IsText(TextOfValue(w))
    <3>1. CASE w.type = "scalar"
      BY <2>1, <3>1, Prints DEF TextOfValue
    <3>2. CASE w.type # "scalar"
      BY <2>1, <3>2, Texts DEF TextOfValue
    <3> QED
      BY <3>1, <3>2
  <2>4. LengthOf(w) \in Int
    BY <2>2, Types DEF LengthOf
  <2> QED
    BY <2>3, <2>4
<1>2. CASE body.type = "json" /\ path = <<>>
  <2>1. v = body.value
    BY <1>2, Answers DEF Lookup, Eval
  <2> QED
    BY <1>1, <1>2, <2>1 DEF IsBody, Jsons
<1>3. CASE body.type = "json" /\ path # <<>>
  <2>1. body.value \in Jsons
    BY <1>3 DEF IsBody, Jsons
  <2> DEFINE x == Visited(path, body.value)
             e == EndOfWalk(path, x)
  <2>2. x \in [0..Len(path) -> Visits] /\ e \in 0..Len(path)
    <3>1. e \in 1..Len(path)
      BY <1>3, WalkEnds
    <3>2. e \in 0..Len(path)
      <4>1. Len(path) \in Nat
        BY PathTypes
      <4> HIDE DEF e
      <4> QED
        BY <3>1, <4>1
    <3> QED
      BY <2>1, <3>2, VisitedSteps
  <2>3. x[e] \in Visits
    BY <2>2
  <2>4. Lookup(path, body) = Walk(path, body.value)
    BY <1>3 DEF Lookup, Eval
  <2>5. Walk(path, body.value) \in {Stopped, NotFound} \/ (Walk(path, body.value) = Found(x[e]) /\ x[e].type \notin {"panic", "missing"})
    BY DEF Walk, EndingAt
  <2> HIDE DEF x, e
  <2>6. v = x[e] /\ x[e] \in Jsons
    BY <2>3, <2>4, <2>5, Answers, Types DEF Visits
  <2> QED
    BY <1>1, <2>6
<1>4. CASE body.type # "json"
  <2>1. \/ Lookup(path, body) = Found(Text(TextOfBody(body)))
        \/ Lookup(path, body) = [outcome |-> "unexpected end"]
        \/ Lookup(path, body) = NotFound
    BY <1>4 DEF Lookup
  <2>2. [outcome |-> "unexpected end"].outcome # "found"
    BY SMT
  <2>3. v = Text(TextOfBody(body))
    BY <2>1, <2>2, Answers
  <2>4. v.type = "string" /\ v.data = TextOfBody(body)
    BY <2>3 DEF Text
  <2>5. TextOfValue(v) = TextOfBody(body) /\ LengthOf(v) \in {0, 1}
    <3> HIDE DEF v
    <3> QED
      BY <2>4 DEF TextOfValue, LengthOf
  <2> QED
    BY <2>5
<1> QED
  BY <1>2, <1>3, <1>4

LEMMA ResolvedType ==
  ASSUME NEW b, IsBody(b), NEW r \in ResultType(b), NEW p, Parameter(p)
  PROVE  IsText(Resolved(p, r))
<1>1. /\ IsBody(r.body) /\ IsText(TextOfBody(r.body))
      /\ r.status \in Int /\ r.certificate \in Int /\ r.domain \in Int /\ r.duration \in Int
      /\ IsText(r.ip) /\ IsText(r.rcode)
  BY BodyTypes, Texts DEF ResultType
<1>2. CASE p.name # "path"
  <2>1. Resolved(p, r) = Said(p, r)
    BY <1>2 DEF Resolved
  <2> QED
    BY <1>1, <1>2, <2>1, Texts DEF Parameter, Said
<1>3. CASE p.name = "path"
  <2> DEFINE found == Lookup(p.path, r.body)
  <2>1. p.path \in Paths
    BY <1>3 DEF Parameter
  <2>2. found.outcome = "found" => IsText(TextOfValue(found.value)) /\ LengthOf(found.value) \in Int
    BY <1>1, <2>1, FoundTypes
  <2>3. Resolved(p, r) = Applied(p, found)
    BY <1>3 DEF Resolved
  <2> HIDE DEF found
  <2> QED
    BY <2>2, <2>3, Texts DEF Applied
<1> QED
  BY <1>2, <1>3

\* A walk does not find nothing.
LEMMA SomethingIsFound ==
  ASSUME NEW path, path # <<>>, NEW v, Eval(path, v).outcome = "found"
  PROVE  Eval(path, v).value.type # "nil"
<1> DEFINE x == Visited(path, v)[EndOfWalk(path, Visited(path, v))]
           last == EndOfWalk(path, Visited(path, v)) = Len(path)
<1>1. Eval(path, v) = EndingAt(x, last)
  BY DEF Eval, Walk
<1> HIDE DEF x, last
<1>2. \/ EndingAt(x, last) \in {Stopped, NotFound}
      \/ EndingAt(x, last) = Found(x) /\ x.type # "nil"
  BY DEF EndingAt
<1> QED
  BY <1>1, <1>2, Answers

\* Where a path leads to something, that is what is found; and where it leads
\* to nothing, something is only found when the walk ends early.
LEMMA TargetIsFound ==
  ASSUME NEW body, IsBody(body), NEW p, p.name = "path", p.path \in Paths, ~EndsEarly(p, body)
  PROVE  /\ Exists(p.path, body) => Lookup(p.path, body) = Found(Target(p.path, body))
         /\ Lookup(p.path, body).outcome = "found" => Exists(p.path, body)
<1> DEFINE path == p.path
           found == Lookup(path, body)
           target == Target(path, body)
<1>1. CASE body.type = "json" /\ path = <<>>
  <2>1. At(path, body.value)[0] = body.value /\ Len(path) = 0
    BY <1>1, AtSteps, PathTypes DEF IsBody, Jsons
  <2> QED
    BY <1>1, <2>1 DEF Lookup, Eval, Target, Exists
<1>2. CASE body.type = "json" /\ path # <<>>
  <2>1. found = Eval(path, body.value) /\ target = At(path, body.value)[Len(path)]
    BY <1>2 DEF Lookup, Target
  <2>2. Follows(path, body.value)
    BY <1>2, EveryPathIsFollowed DEF IsBody, Jsons
  <2>3. Exists(path, body) <=> target.type # "nil"
    BY <1>2 DEF Exists
  <2>4. target.type # "nil" => found = Found(target)
    BY <2>1, <2>2 DEF Follows
  <2>5. ASSUME found.outcome = "found" PROVE target.type # "nil"
    <3>1. found.value.type # "nil"
      BY <1>2, <2>1, <2>5, SomethingIsFound
    <3>2. ASSUME target.type = "nil" PROVE FALSE
      <4>1. PICK n \in 0..(Len(path) - 1) :
              At(path, body.value)[n].type \in {"array", "scalar", "string"}
        BY <2>1, <2>2, <2>5, <3>1, <3>2 DEF Follows
      <4> QED
        BY <1>2, <2>3, <3>2, <4>1 DEF EndsEarly
    <3> QED
      BY <3>2
  <2> QED
    BY <2>3, <2>4, <2>5
<1>3. CASE body.type # "json" /\ path = <<>>
  BY <1>3 DEF Lookup, Target, Exists
<1>4. CASE body.type # "json" /\ path # <<>>
  <2>1. ~Exists(path, body)
    BY <1>4 DEF Exists, Target, Nil
  <2>2. found = [outcome |-> "unexpected end"] \/ found = NotFound
    BY <1>4 DEF Lookup
  <2>3. [outcome |-> "unexpected end"].outcome # "found"
    BY SMT
  <2> QED
    BY <2>1, <2>2, <2>3, Answers
<1> QED
  BY <1>1, <1>2, <1>3, <1>4

\* What is compared is what is meant, as it is printed, unless something was
\* guessed on the way.
LEMMA ComparedIsMeant ==
  ASSUME NEW b, IsBody(b), NEW r \in ResultType(b), NEW p, Parameter(p),
         ~LeadsNowhere(p, r), ~Panics(p, r), ~IntoNothing(p, r.body), ~EndsEarly(p, r.body)
  PROVE  /\ Resolved(p, r) = Compared(p, r) /\ Writes(Compared(p, r), Meant(p, r))
         /\ IsText(Compared(p, r)) /\ IsText(Meant(p, r)) /\ Meant(p, r) # Nothing
<1>1. \A t : IsText(t) => t # Nothing
  BY DEF IsText, Nothing, Is
<1>2. IsText(Resolved(p, r)) /\ IsBody(r.body)
  BY ResolvedType, BodyTypes DEF ResultType
<1>3. CASE p.name # "path"
  <2>1. Resolved(p, r) = Meant(p, r) /\ Compared(p, r) = Meant(p, r)
    BY <1>3 DEF Resolved, Meant, Compared
  <2> QED
    BY <1>1, <1>2, <2>1 DEF Writes
<1>4. CASE p.name = "path"
  <2> DEFINE found == Lookup(p.path, r.body)
             target == Target(p.path, r.body)
             exists == Exists(p.path, r.body)
  <2>1. p.path \in Paths
    BY <1>4 DEF Parameter
  <2>2. exists => found = Found(target)
    BY <1>2, <1>4, <2>1, TargetIsFound
  <2>3. found.outcome = "found" => exists
    BY <1>2, <1>4, <2>1, TargetIsFound
  <2>4. Resolved(p, r) = Applied(p, found)
    BY <1>4 DEF Resolved
  <2>5. CASE p.function = "has"
    <3>1. Meant(p, r) = Word(IF exists THEN "true" ELSE "false") /\ Compared(p, r) = Meant(p, r)
      BY <1>4, <2>5 DEF Meant, Compared
    <3> HIDE DEF found, target, exists
    <3>2. found.outcome = "found" <=> exists
      BY <2>2, <2>3, Answers
    <3>3. Resolved(p, r) = Meant(p, r)
      BY <2>4, <2>5, <3>1, <3>2 DEF Applied
    <3> QED
      BY <1>1, <1>2, <3>1, <3>3 DEF Writes
  <2>6. CASE p.function # "has"
    <3>1. found.outcome = "found"
      <4>1. found.outcome \notin {"error", "panic"}
        BY <1>4, <2>6 DEF LeadsNowhere, Panics
      <4>2. CASE r.body.type = "json" \/ p.path = <<>>
        <5>1. found \in {NotFound, Stopped} \/ \E v : found = Found(v)
          BY <4>2, Zenon DEF Lookup, Eval, Walk, EndingAt
        <5> HIDE DEF found
        <5> QED
          BY <4>1, <5>1, Answers
      <4>3. CASE r.body.type # "json" /\ p.path # <<>>
        <5>1. r.body.type \notin {"empty", "cut"}
          BY <1>4, <2>6, <4>3 DEF IntoNothing
        <5>2. found = NotFound
          BY <4>3, <5>1 DEF Lookup
        <5> QED
          BY <4>1, <5>2, Answers
      <4> QED
        BY <4>2, <4>3
    <3>2. exists /\ found.value = target
      <4> HIDE DEF found, target, exists
      <4> QED
        BY <2>2, <2>3, <3>1, Answers
    <3>3. Resolved(p, r) = IF p.function = "len" THEN Decimal(LengthOf(target)) ELSE TextOfValue(target)
      <4> HIDE DEF found, target, exists
      <4> QED
        BY <2>4, <2>6, <3>1, <3>2 DEF Applied
    <3>4. Meant(p, r) = IF p.function = "len" THEN Decimal(LengthOf(target))
                        ELSE IF target.type \in {"scalar", "string"} THEN target.data
                        ELSE [json |-> target]
      BY <1>4, <2>6, <3>2 DEF Meant
    <3>5. CASE p.function = "len"
      <4>1. Compared(p, r) = Meant(p, r)
        BY <3>5, Zenon DEF Compared
      <4> HIDE DEF target
      <4>2. Meant(p, r) = Decimal(LengthOf(target))
        BY <3>4, <3>5
      <4> QED
        BY <1>1, <1>2, <3>3, <3>5, <4>1, <4>2 DEF Writes
    <3>6. CASE p.function # "len" /\ target.type = "scalar"
      <4>1. Compared(p, r) = Printed(Meant(p, r))
        BY <1>4, <2>6, <3>2, <3>6 DEF Compared
      <4>2. IsText(target.data)
        <5>1. r.body.type = "json"
          <6>1. \A x : Text(x).type = "string"
            BY DEF Text
          <6>2. Nil.type = "nil"
            BY DEF Nil
          <6> QED
            BY <3>6, <6>1, <6>2 DEF Target
        <5>2. r.body.value \in Jsons
          BY <1>2, <5>1 DEF IsBody, Jsons
        <5>3. target = At(p.path, r.body.value)[Len(p.path)] /\ Len(p.path) \in 0..Len(p.path)
          <6>1. Len(p.path) \in Nat
            BY <2>1, PathTypes
          <6> QED
            BY <5>1, <6>1 DEF Target
        <5>4. target \in Jsons
          BY <2>1, <5>2, <5>3, AtSteps
        <5> HIDE DEF target
        <5>5. target \in Values
          BY <3>6, <5>4, Types DEF Jsons
        <5> QED
          BY <3>6, <5>5, AnswersAssumption
      <4> HIDE DEF target
      <4>3. Meant(p, r) = target.data
        BY <3>4, <3>6
      <4>4. TextOfValue(target) = Printed(target.data)
        BY <3>6 DEF TextOfValue
      <4> QED
        BY <1>1, <3>3, <3>6, <4>1, <4>2, <4>3, <4>4, Prints
    <3>7. CASE p.function # "len" /\ target.type # "scalar"
      <4>1. Compared(p, r) = Meant(p, r)
        BY <3>7, Zenon DEF Compared
      <4> HIDE DEF target
      <4>2. Meant(p, r) = TextOfValue(target)
        BY <3>4, <3>7 DEF TextOfValue
      <4> QED
        BY <1>1, <1>2, <3>3, <3>7, <4>1, <4>2 DEF Writes
    <3> QED
      BY <3>5, <3>6, <3>7
  <2> QED
    BY <2>5, <2>6
<1> QED
  BY <1>3, <1>4
-----------------------------------------------------------------------------
(* Redaction *)

\* Nothing comes into an error but the word that replaces a text.
LEMMA RedactedRange ==
  ASSUME NEW error \in Seq(Pieces), NEW text \in Seq(Pieces)
  PROVE  /\ Redacted(error, text) \in Seq(Pieces)
         /\ Range(Redacted(error, text)) \subseteq Range(error) \union {"redacted"}
<1> DEFINE L == Len(error)
           r == Redacted(error, text)
           A == Range(error) \union {"redacted"}
<1>1. L \in Nat /\ A \subseteq Pieces /\ \A i \in 1..L : error[i] \in A
  <2>1. L \in Nat /\ DOMAIN error = 1..L /\ \A i \in 1..L : error[i] \in Pieces
    OBVIOUS
  <2>2. Range(error) \subseteq Pieces
    BY <2>1 DEF Range
  <2>3. \A i \in 1..L : error[i] \in Range(error)
    BY <2>1 DEF Range
  <2>4. "redacted" \in Pieces
    BY DEF Pieces
  <2>5. A \subseteq Pieces
    BY <2>2, <2>4, Zenon
  <2>6. \A i \in 1..L : error[i] \in A
    BY <2>3, Zenon
  <2> QED
    BY <2>1, <2>5, <2>6
<1>2. \E n \in Nat : r \in [1..n -> A]
  <2>1. CASE text = <<>>
    <3>1. r = [i \in 1..(2 * L + 1) |-> IF i % 2 = 1 THEN "redacted" ELSE error[i \div 2]]
      BY <2>1 DEF Redacted
    <3>2. ASSUME NEW i \in 1..(2 * L + 1), i % 2 # 1 PROVE i \div 2 \in 1..L
      <4> HIDE DEF L
      <4> QED
        BY <1>1, <3>2
    <3> HIDE DEF r, L, A
    <3>3. r \in [1..(2 * L + 1) -> A]
      <4>1. "redacted" \in A
        BY DEF A
      <4> QED
        BY <1>1, <3>1, <3>2, <4>1
    <3>4. 2 * L + 1 \in Nat
      BY <1>1
    <3> QED
      BY <3>3, <3>4
  <2>2. CASE text # <<>>
    <3>1. r \in [1..L -> A]
      BY <1>1, <2>2 DEF Redacted
    <3> HIDE DEF r, L, A
    <3> QED
      BY <1>1, <3>1
  <2> QED
    BY <2>1, <2>2
<1> HIDE DEF r, A, L
<1>3. PICK n \in Nat : r \in [1..n -> A]
  BY <1>2
<1>4. r \in [1..n -> Pieces]
  BY <1>1, <1>3
<1>5. r \in Seq(Pieces)
  BY <1>4, SeqDef
<1>6. Range(r) \subseteq A
  BY <1>3 DEF Range
<1> QED
  BY <1>5, <1>6 DEF r, A

\* Where the text stands, it is replaced.
LEMMA RedactedPlace ==
  ASSUME NEW error \in Seq(Pieces), NEW text \in Seq(Pieces), text # <<>>,
         NEW place \in 1..(Len(error) - Len(text) + 1),
         SubSeq(error, place, place + Len(text) - 1) = text
  PROVE  \A i \in place..(place + Len(text) - 1) :
           i \in 1..Len(error) /\ Redacted(error, text)[i] = "redacted"
<1> DEFINE places == {i \in 1..(Len(error) - Len(text) + 1) :
                        SubSeq(error, i, i + Len(text) - 1) = text}
<1>1. Len(error) \in Nat /\ Len(text) \in Nat
  OBVIOUS
<1>2. place \in places
  OBVIOUS
<1>3. \A i \in place..(place + Len(text) - 1) : i \in 1..Len(error)
  BY <1>1
<1>4. Redacted(error, text) =
        [i \in 1..Len(error) |->
           IF \E p \in places : i \in p..(p + Len(text) - 1) THEN "redacted" ELSE error[i]]
  BY DEF Redacted
<1> HIDE DEF places
<1> QED
  BY <1>2, <1>3, <1>4

\* A text of one piece is nowhere any more.
LEMMA PieceIsRedacted ==
  ASSUME NEW error \in Seq(Pieces), NEW piece \in Pieces, piece # "redacted"
  PROVE  piece \notin Range(Redacted(error, <<piece>>))
<1> DEFINE text == <<piece>>
           r == Redacted(error, text)
<1>1. Len(text) = 1 /\ text # <<>> /\ text \in Seq(Pieces) /\ Len(error) \in Nat
  OBVIOUS
<1>2. DOMAIN r = 1..Len(error) /\ \A i \in 1..Len(error) : r[i] \in {"redacted", error[i]}
  BY <1>1 DEF Redacted
<1>3. ASSUME NEW i \in 1..Len(error), r[i] = piece PROVE FALSE
  <2>1. error[i] = piece
    BY <1>2, <1>3
  <2>2. SubSeq(error, i, i + Len(text) - 1) = text
    <3> DEFINE s == SubSeq(error, i, i)
    <3>1. s \in Seq(Pieces) /\ Len(s) = 1 /\ s[1] = error[i]
      BY <1>1
    <3>2. i + Len(text) - 1 = i
      BY <1>1
    <3> HIDE DEF s
    <3>3. s = text
      BY <1>1, <2>1, <3>1, SeqEqual
    <3> QED
      BY <3>2, <3>3 DEF s
  <2>3. i \in 1..(Len(error) - Len(text) + 1) /\ i \in i..(i + Len(text) - 1)
    BY <1>1
  <2>4. r[i] = "redacted"
    <3> HIDE DEF text
    <3> QED
      BY <1>1, <2>2, <2>3, RedactedPlace
  <2> QED
    BY <1>3, <2>4
<1> HIDE DEF r
<1> QED
  BY <1>2, <1>3 DEF Range, r

\* What stands before and after the text is all that may be left.
LEMMA TextIsRedacted ==
  ASSUME NEW a \in Seq(Pieces), NEW text \in Seq(Pieces), text # <<>>, NEW b \in Seq(Pieces)
  PROVE  Range(Redacted(a \o text \o b, text)) \subseteq Range(a) \union Range(b) \union {"redacted"}
<1> DEFINE e == a \o text \o b
           r == Redacted(e, text)
           p == Len(a) + 1
<1>1. /\ e \in Seq(Pieces) /\ Len(e) = Len(a) + Len(text) + Len(b)
      /\ Len(a) \in Nat /\ Len(b) \in Nat /\ Len(text) \in Nat /\ Len(text) >= 1
  OBVIOUS
<1>2. /\ \A i \in 1..Len(a) : e[i] = a[i]
      /\ \A i \in 1..Len(text) : e[Len(a) + i] = text[i]
      /\ \A i \in 1..Len(b) : e[Len(a) + Len(text) + i] = b[i]
  OBVIOUS
<1> HIDE DEF e
<1>3. p \in 1..(Len(e) - Len(text) + 1)
  BY <1>1
<1>4. SubSeq(e, p, p + Len(text) - 1) = text
  <2> DEFINE s == SubSeq(e, p, p + Len(text) - 1)
  <2>1. s \in Seq(Pieces) /\ Len(s) = Len(text) /\ \A i \in 1..Len(text) : s[i] = e[p + i - 1]
    BY <1>1
  <2>2. \A i \in 1..Len(text) : p + i - 1 = Len(a) + i
    BY <1>1
  <2> HIDE DEF s
  <2>3. \A i \in 1..Len(text) : s[i] = text[i]
    BY <1>2, <2>1, <2>2
  <2> QED
    BY <2>1, <2>3, SeqEqual DEF s
<1>5. DOMAIN r = 1..Len(e) /\ \A i \in 1..Len(e) : r[i] \in {"redacted", e[i]}
  BY DEF Redacted
<1>6. \A i \in p..(p + Len(text) - 1) : r[i] = "redacted"
  BY <1>1, <1>3, <1>4, RedactedPlace
<1>7. ASSUME NEW i \in 1..Len(e) PROVE r[i] \in Range(a) \union Range(b) \union {"redacted"}
  <2>1. CASE i <= Len(a)
    <3>1. i \in 1..Len(a) /\ i \in DOMAIN a
      BY <1>1, <2>1
    <3>2. r[i] \in {"redacted", a[i]}
      BY <1>2, <1>5, <3>1
    <3> HIDE DEF r
    <3> QED
      BY <3>1, <3>2 DEF Range
  <2>2. CASE i > Len(a) /\ i <= Len(a) + Len(text)
    <3>1. i \in p..(p + Len(text) - 1)
      BY <1>1, <2>2
    <3> QED
      BY <1>6, <3>1
  <2>3. CASE i > Len(a) + Len(text)
    <3>1. i - Len(a) - Len(text) \in Int
      BY <1>1
    <3>2. PICK k \in 1..Len(b) : i = Len(a) + Len(text) + k
      <4>1. (i - Len(a)) - Len(text) \in 1..Len(b)
        BY <1>1, <2>3
      <4>2. i = Len(a) + Len(text) + ((i - Len(a)) - Len(text))
        BY <1>1
      <4> QED
        BY <4>1, <4>2
    <3>3. k \in DOMAIN b /\ e[i] = b[k]
      BY <1>1, <1>2, <3>2
    <3>4. r[i] \in {"redacted", b[k]}
      BY <1>5, <3>3
    <3> HIDE DEF r
    <3> QED
      BY <3>3, <3>4 DEF Range
  <2> QED
    BY <1>1, <2>1, <2>2, <2>3
<1> HIDE DEF r
<1>8. Range(r) \subseteq Range(a) \union Range(b) \union {"redacted"}
  BY <1>5, <1>7 DEF Range
<1> QED
  BY <1>8 DEF r, e

\* A text whose first piece is not there leaves everything as it is.
LEMMA NothingToRedact ==
  ASSUME NEW error \in Seq(Pieces), NEW text \in Seq(Pieces), text # <<>>,
         text[1] \notin Range(error)
  PROVE  Redacted(error, text) = error
<1>1. Len(error) \in Nat /\ Len(text) \in Nat /\ Len(text) >= 1
  OBVIOUS
<1>2. ASSUME NEW i \in 1..(Len(error) - Len(text) + 1),
             SubSeq(error, i, i + Len(text) - 1) = text
      PROVE  FALSE
  <2>1. i \in 1..Len(error) /\ i \in DOMAIN error
    BY <1>1
  <2>2. SubSeq(error, i, i + Len(text) - 1)[1] = error[i]
    BY <1>1, <2>1
  <2> QED
    BY <1>2, <2>1, <2>2 DEF Range
<1>3. Redacted(error, text) = [i \in 1..Len(error) |-> error[i]]
  BY <1>2 DEF Redacted
<1> QED
  BY <1>3

\* A piece of an error that is not in the text stays.
LEMMA PieceStays ==
  ASSUME NEW error \in Seq(Pieces), NEW text \in Seq(Pieces),
         NEW piece \in Range(error), piece \notin Range(text)
  PROVE  piece \in Range(Redacted(error, text))
<1> DEFINE L == Len(error)
           r == Redacted(error, text)
<1>1. L \in Nat /\ Len(text) \in Nat /\ DOMAIN error = 1..L
  OBVIOUS
<1>2. PICK i \in 1..L : error[i] = piece
  BY <1>1 DEF Range
<1>3. CASE text = <<>>
  <2>1. r = [k \in 1..(2 * L + 1) |-> IF k % 2 = 1 THEN "redacted" ELSE error[k \div 2]]
    BY <1>3 DEF Redacted
  <2> HIDE DEF L, r
  <2>2. 2 * i \in 1..(2 * L + 1) /\ (2 * i) % 2 # 1 /\ (2 * i) \div 2 = i
    BY <1>1
  <2>3. 2 * i \in DOMAIN r /\ r[2 * i] = piece
    BY <1>2, <2>1, <2>2
  <2> QED
    BY <2>3 DEF Range, r
<1>4. CASE text # <<>>
  <2> DEFINE places == {k \in 1..(L - Len(text) + 1) : SubSeq(error, k, k + Len(text) - 1) = text}
  <2>1. r = [k \in 1..L |-> IF \E place \in places : k \in place..(place + Len(text) - 1)
                            THEN "redacted" ELSE error[k]]
    BY <1>4 DEF Redacted
  <2>2. ASSUME NEW place \in places, i \in place..(place + Len(text) - 1) PROVE FALSE
    <3>1. (i - place) + 1 \in 1..Len(text) /\ (i - place) + 1 \in DOMAIN text
      BY <1>1, <2>2
    <3>2. SubSeq(error, place, place + Len(text) - 1)[(i - place) + 1] = error[i]
      BY <1>1, <2>2, <3>1
    <3>3. text[(i - place) + 1] = piece
      BY <1>2, <2>2, <3>2
    <3> QED
      BY <3>1, <3>3 DEF Range
  <2> HIDE DEF places, r
  <2>3. i \in DOMAIN r /\ r[i] = piece
    BY <1>2, <2>1, <2>2
  <2> QED
    BY <2>3 DEF Range, r
<1> QED
  BY <1>3, <1>4

Parsed(e) == e.parses \/ TypeOf(e) \in {"dns", "icmp"}

\* The errors there may be.
Messages(e) ==
  {<<"whois">>, <<"read">>, <<"command">>, <<"walk">>}
    \union {<<"lookup">> \o h : h \in {<<>>, HostnameOf(e)}}
    \union (IF Parsed(e) THEN {} ELSE {<<"parse">> \o URL(e)})
    \union (IF TypeOf(e) \in {"unknown", "icmp"} THEN {} ELSE {<<"dial">> \o Address(e)})
    \union (IF TypeOf(e) \in {"http", "ws"}
            THEN {<<"get">> \o url \o Address(e) : url \in {URL(e), Changed(e)}} ELSE {})

LEMMA RangeOfConcat ==
  ASSUME NEW a \in Seq(Pieces), NEW b \in Seq(Pieces)
  PROVE  a \o b \in Seq(Pieces) /\ Range(a \o b) = Range(a) \union Range(b)
<1>1. a \o b \in Seq(Pieces)
  OBVIOUS
<1>2. ASSUME NEW i \in DOMAIN (a \o b) PROVE (a \o b)[i] \in Range(a) \union Range(b)
  <2>1. CASE i <= Len(a)
    <3>1. i \in DOMAIN a /\ (a \o b)[i] = a[i]
      BY <1>2, <2>1
    <3> QED
      BY <3>1 DEF Range
  <2>2. CASE i > Len(a)
    <3>1. i - Len(a) \in DOMAIN b /\ (a \o b)[i] = b[i - Len(a)]
      BY <1>2, <2>2
    <3> QED
      BY <3>1 DEF Range
  <2>3. i \in Int /\ Len(a) \in Int
    BY <1>2
  <2> QED
    BY <2>1, <2>2, <2>3
<1>3. ASSUME NEW i \in DOMAIN a PROVE a[i] \in Range(a \o b)
  <2>1. i \in DOMAIN (a \o b) /\ (a \o b)[i] = a[i]
    OBVIOUS
  <2> QED
    BY <2>1 DEF Range
<1>4. ASSUME NEW i \in DOMAIN b PROVE b[i] \in Range(a \o b)
  <2>1. Len(a) + i \in DOMAIN (a \o b) /\ (a \o b)[Len(a) + i] = b[i]
    OBVIOUS
  <2> QED
    BY <2>1 DEF Range
<1> HIDE DEF Range
<1>5. Range(a \o b) \subseteq Range(a) \union Range(b)
  BY <1>2 DEF Range
<1>6. Range(a) \union Range(b) \subseteq Range(a \o b)
  BY <1>3, <1>4 DEF Range
<1> QED
  BY <1>1, <1>5, <1>6

LEMMA OnePiece ==
  ASSUME NEW x \in Pieces
  PROVE  <<x>> \in Seq(Pieces) /\ Range(<<x>>) = {x} /\ <<x>> # <<>> /\ <<x>>[1] = x
  BY DEF Range

LEMMA NoPiece == <<>> \in Seq(Pieces) /\ Range(<<>>) = {}
  BY DEF Range

LEMMA Addresses ==
  ASSUME NEW e \in Endpoints
  PROVE  /\ Port(e) \in Seq(Pieces) /\ Range(Port(e)) \subseteq {"port"}
         /\ e.port => Port(e) = <<"port">>
         /\ ~e.port => Port(e) = <<>>
         /\ Address(e) \in Seq(Pieces) /\ Range(Address(e)) \subseteq {"host", "port"}
         /\ ~e.port => Range(Address(e)) \subseteq {"host"}
         /\ Address(e) # <<>>
<1>1. /\ Port(e) \in Seq(Pieces) /\ Range(Port(e)) \subseteq {"port"}
      /\ e.port => Port(e) = <<"port">>
      /\ ~e.port => Port(e) = <<>> /\ Range(Port(e)) = {}
  BY OnePiece, NoPiece DEF Port, Pieces
<1>2. /\ Address(e) = <<"host">> \o Port(e)
      /\ <<"host">> \in Seq(Pieces) /\ Range(<<"host">>) = {"host"}
  BY OnePiece DEF Address, Pieces
<1>3. Address(e) \in Seq(Pieces) /\ Range(Address(e)) = {"host"} \union Range(Port(e))
  BY <1>1, <1>2, RangeOfConcat
<1>4. "host" \in Range(Address(e))
  BY <1>3
<1>5. Address(e) # <<>>
  BY <1>4, NoPiece
<1> QED
  BY <1>1, <1>3, <1>5

LEMMA URLs ==
  ASSUME NEW e \in Endpoints
  PROVE  /\ URL(e) \in Seq(Pieces) /\ URL(e) # <<>>
         /\ Range(URL(e)) \subseteq {"scheme", "host", "port", "path"}
         /\ ~e.port => "port" \notin Range(URL(e))
         /\ TypeOf(e) = "dns" => URL(e) = Address(e)
         /\ TypeOf(e) # "dns" => URL(e)[1] = "scheme"
<1> DEFINE s == <<"scheme">>
           a == Address(e)
           p == <<"path">>
<1>1. /\ s \in Seq(Pieces) /\ Range(s) = {"scheme"} /\ p \in Seq(Pieces) /\ Range(p) = {"path"}
      /\ a \in Seq(Pieces) /\ Range(a) \subseteq {"host", "port"} /\ a # <<>>
      /\ ~e.port => Range(a) \subseteq {"host"}
  BY OnePiece, Addresses DEF Pieces
<1>2. URL(e) \in {a, s \o a, s \o a \o p}
  BY DEF URL
<1>3. /\ s \o a \in Seq(Pieces) /\ Range(s \o a) = Range(s) \union Range(a)
      /\ (s \o a) \o p \in Seq(Pieces) /\ Range((s \o a) \o p) = Range(s \o a) \union Range(p)
  BY <1>1, RangeOfConcat
<1>4. (s \o a)[1] = "scheme" /\ (s \o a \o p)[1] = "scheme" /\ s \o a # <<>> /\ s \o a \o p # <<>>
  BY <1>1
<1>5. /\ TypeOf(e) = "dns" => URL(e) = a
      /\ TypeOf(e) # "dns" => URL(e) \in {s \o a, s \o a \o p}
  BY DEF URL
<1> HIDE DEF s, a, p
<1>6. URL(e) \in Seq(Pieces) /\ URL(e) # <<>>
  BY <1>1, <1>2, <1>3, <1>4
<1>7. Range(URL(e)) \subseteq {"scheme", "host", "port", "path"} /\ (~e.port => "port" \notin Range(URL(e)))
  BY <1>1, <1>2, <1>3
<1>8. TypeOf(e) # "dns" => URL(e)[1] = "scheme"
  BY <1>4, <1>5
<1> QED
  BY <1>5, <1>6, <1>7, <1>8 DEF a

LEMMA ChangedURLs ==
  ASSUME NEW e \in Endpoints
  PROVE  /\ Changed(e) \in Seq(Pieces) /\ Changed(e) # <<>> /\ "changed" \in Range(Changed(e))
         /\ Range(Changed(e)) \subseteq {"changed", "host", "port", "path"}
         /\ ~e.port => "port" \notin Range(Changed(e))
<1> DEFINE s == <<"changed">>
           a == Address(e)
           p == <<"path">>
<1>1. /\ s \in Seq(Pieces) /\ Range(s) = {"changed"} /\ p \in Seq(Pieces) /\ Range(p) = {"path"}
      /\ a \in Seq(Pieces) /\ Range(a) \subseteq {"host", "port"}
      /\ ~e.port => Range(a) \subseteq {"host"}
  BY OnePiece, Addresses DEF Pieces
<1>2. Changed(e) = (s \o a) \o p
  BY DEF Changed
<1> HIDE DEF s, a, p
<1>3. /\ s \o a \in Seq(Pieces) /\ Range(s \o a) = Range(s) \union Range(a)
      /\ (s \o a) \o p \in Seq(Pieces) /\ Range((s \o a) \o p) = Range(s \o a) \union Range(p)
  BY <1>1, RangeOfConcat
<1>4. "changed" \in Range(Changed(e))
  BY <1>1, <1>2, <1>3
<1>5. Changed(e) # <<>>
  BY <1>4, NoPiece
<1> QED
  BY <1>1, <1>2, <1>3, <1>4, <1>5

LEMMA Hostnames ==
  ASSUME NEW e \in Endpoints
  PROVE  /\ HostnameOf(e) \in Seq(Pieces) /\ Range(HostnameOf(e)) \subseteq {"host", "port"}
         /\ ~e.port => Range(HostnameOf(e)) \subseteq {"host"}
         /\ HostnameOf(e) = <<>> <=> TypeOf(e) = "unknown"
         /\ TypeOf(e) \in {"dns", "icmp"} => HostnameOf(e) = Address(e)
         /\ TypeOf(e) \notin {"dns", "icmp", "unknown"} => HostnameOf(e) = <<"host">>
         /\ PortOf(e) \in Seq(Pieces)
         /\ TypeOf(e) \in {"dns", "icmp", "unknown"} => PortOf(e) = <<>>
         /\ TypeOf(e) \notin {"dns", "icmp", "unknown"} => PortOf(e) = Port(e)
<1>1. /\ <<"host">> \in Seq(Pieces) /\ Range(<<"host">>) = {"host"} /\ <<"host">> # <<>>
      /\ <<>> \in Seq(Pieces) /\ Range(<<>>) = {}
  BY OnePiece, NoPiece DEF Pieces
<1> QED
  BY <1>1, Addresses DEF HostnameOf, PortOf

Words == {"parse", "lookup", "whois", "dial", "get", "read", "command", "walk"}

LEMMA Shapes ==
  ASSUME NEW e \in Endpoints, NEW m \in Messages(e)
  PROVE  \E x \in Words :
           \/ m = <<x>>
           \/ /\ TypeOf(e) # "unknown"
              /\ \E h \in {HostnameOf(e), Address(e)} : m = <<x>> \o h \o <<>>
           \/ ~Parsed(e) /\ m = <<x>> \o URL(e) \o <<>>
           \/ /\ TypeOf(e) \in {"http", "ws"}
              /\ \E url \in {URL(e), Changed(e)} : m = <<x>> \o url \o Address(e)
<1>1. \A a \in Seq(Pieces) : a \o <<>> = a
  OBVIOUS
<1>2. \A x \in Words : <<x>> \in Seq(Pieces)
  BY DEF Words, Pieces
<1>3. /\ HostnameOf(e) \in Seq(Pieces) /\ Address(e) \in Seq(Pieces) /\ URL(e) \in Seq(Pieces)
      /\ HostnameOf(e) = <<>> <=> TypeOf(e) = "unknown"
  BY Hostnames, Addresses, URLs
<1>4. \A x \in Words : /\ <<x>> \o HostnameOf(e) \in Seq(Pieces) /\ <<x>> \o Address(e) \in Seq(Pieces)
                       /\ <<x>> \o URL(e) \in Seq(Pieces)
  BY <1>2, <1>3
<1>5. {"whois", "read", "command", "walk", "lookup", "parse", "dial", "get"} \subseteq Words
  BY DEF Words
<1>6. CASE m \in {<<"whois">>, <<"read">>, <<"command">>, <<"walk">>}
  BY <1>5, <1>6
<1>7. CASE m = <<"lookup">> \o <<>>
  BY <1>1, <1>2, <1>5, <1>7
<1>8. CASE m = <<"lookup">> \o HostnameOf(e)
  <2>1. CASE TypeOf(e) = "unknown"
    BY <1>3, <1>7, <1>8, <2>1
  <2>2. CASE TypeOf(e) # "unknown"
    BY <1>1, <1>4, <1>5, <1>8, <2>2
  <2> QED
    BY <2>1, <2>2
<1>9. CASE m = <<"parse">> \o URL(e) /\ ~Parsed(e)
  BY <1>1, <1>4, <1>5, <1>9
<1>10. CASE m = <<"dial">> \o Address(e) /\ TypeOf(e) # "unknown"
  BY <1>1, <1>4, <1>5, <1>10
<1>11. CASE /\ TypeOf(e) \in {"http", "ws"}
            /\ \E url \in {URL(e), Changed(e)} : m = <<"get">> \o url \o Address(e)
  BY <1>5, <1>11
<1> QED
  BY <1>6, <1>7, <1>8, <1>9, <1>10, <1>11 DEF Messages

\* What hiding parts of an error leaves of it.
Cleaned(error) ==
  /\ error \in Seq(Pieces)
  /\ "url" \in endpoint.hide => "path" \notin Range(error) \/ "changed" \in Range(error)
  /\ "hostname" \in endpoint.hide /\ endpoint.parses => "host" \notin Range(error)
  /\ "port" \in endpoint.hide /\ endpoint.parses /\ TypeOf(endpoint) \notin {"dns", "icmp"}
       => "port" \notin Range(error)

\* The host name and the port of the result while it is made.
Addressed ==
  \/ Parsed(endpoint) /\ result.hostname = HostnameOf(endpoint) /\ result.port = PortOf(endpoint)
  \/ ~Parsed(endpoint) /\ result.hostname = <<>> /\ result.port = <<>>

LEMMA ErrorsAreCleanedUp ==
  ASSUME endpoint \in Endpoints, Addressed, NEW m \in Messages(endpoint)
  PROVE  Cleaned(CleanedUp(m))
<1> DEFINE e == endpoint
           a == HideURL(m)
           b == HideHostname(a)
           c == HidePort(b)
           R == {"redacted"}
<1>1. PICK x \in Words :
        \/ m = <<x>>
        \/ /\ TypeOf(e) # "unknown"
           /\ \E h \in {HostnameOf(e), Address(e)} : m = <<x>> \o h \o <<>>
        \/ ~Parsed(e) /\ m = <<x>> \o URL(e) \o <<>>
        \/ /\ TypeOf(e) \in {"http", "ws"}
           /\ \E url \in {URL(e), Changed(e)} : m = <<x>> \o url \o Address(e)
  BY Shapes
<1>2. /\ <<x>> \in Seq(Pieces) /\ Range(<<x>>) = {x} /\ <<>> \in Seq(Pieces) /\ Range(<<>>) = {}
      /\ x \notin {"host", "port", "path", "scheme", "changed", "redacted"}
  BY OnePiece, NoPiece DEF Words, Pieces
<1>3. /\ HostnameOf(e) \in Seq(Pieces) /\ Address(e) \in Seq(Pieces) /\ URL(e) \in Seq(Pieces)
      /\ PortOf(e) \in Seq(Pieces) /\ Changed(e) \in Seq(Pieces)
      /\ result.hostname \in Seq(Pieces) /\ result.port \in Seq(Pieces)
  <2>1. /\ HostnameOf(e) \in Seq(Pieces) /\ Address(e) \in Seq(Pieces) /\ URL(e) \in Seq(Pieces)
        /\ PortOf(e) \in Seq(Pieces) /\ Changed(e) \in Seq(Pieces)
    BY Hostnames, Addresses, URLs, ChangedURLs
  <2>2. result.hostname \in {<<>>, HostnameOf(e)} /\ result.port \in {<<>>, PortOf(e)}
    BY DEF Addressed
  <2> QED
    BY <1>2, <2>1, <2>2, Zenon
<1>4. /\ m \in Seq(Pieces)
      /\ \/ Range(m) = {x}
         \/ /\ TypeOf(e) # "unknown"
            /\ \E h \in {HostnameOf(e), Address(e)} : m = <<x>> \o h \o <<>> /\ Range(m) = {x} \union Range(h)
         \/ ~Parsed(e) /\ m = <<x>> \o URL(e) \o <<>> /\ Range(m) = {x} \union Range(URL(e))
         \/ /\ TypeOf(e) \in {"http", "ws"}
            /\ \E url \in {URL(e), Changed(e)} :
                 /\ m = <<x>> \o url \o Address(e)
                 /\ Range(m) = {x} \union Range(url) \union Range(Address(e))
  <2>1. \A s, t \in Seq(Pieces) :
          /\ <<x>> \o s \o t \in Seq(Pieces)
          /\ Range(<<x>> \o s \o t) = {x} \union Range(s) \union Range(t)
    <3> TAKE s, t \in Seq(Pieces)
    <3>1. <<x>> \o s \in Seq(Pieces) /\ Range(<<x>> \o s) = {x} \union Range(s)
      BY <1>2, RangeOfConcat
    <3>2. /\ (<<x>> \o s) \o t \in Seq(Pieces)
          /\ Range((<<x>> \o s) \o t) = Range(<<x>> \o s) \union Range(t)
      BY <3>1, RangeOfConcat
    <3> QED
      BY <3>1, <3>2
  <2>6. \A s \in Seq(Pieces) :
          /\ <<x>> \o s \o <<>> \in Seq(Pieces)
          /\ Range(<<x>> \o s \o <<>>) = {x} \union Range(s)
    <3> TAKE s \in Seq(Pieces)
    <3>1. /\ <<x>> \o s \o <<>> \in Seq(Pieces)
          /\ Range(<<x>> \o s \o <<>>) = {x} \union Range(s) \union Range(<<>>)
      BY <1>2, <2>1, Zenon
    <3> QED
      BY <1>2, <3>1, Zenon
  <2>2. CASE m = <<x>>
    BY <1>2, <2>2
  <2>3. ASSUME TypeOf(e) # "unknown", NEW h \in {HostnameOf(e), Address(e)}, m = <<x>> \o h \o <<>>
        PROVE  m \in Seq(Pieces) /\ Range(m) = {x} \union Range(h)
    BY <1>3, <2>3, <2>6, Zenon
  <2>4. CASE ~Parsed(e) /\ m = <<x>> \o URL(e) \o <<>>
    BY <1>3, <2>4, <2>6, Zenon
  <2>5. ASSUME TypeOf(e) \in {"http", "ws"}, NEW url \in {URL(e), Changed(e)},
               m = <<x>> \o url \o Address(e)
        PROVE  /\ m \in Seq(Pieces)
               /\ Range(m) = {x} \union Range(url) \union Range(Address(e))
    BY <1>3, <2>1, <2>5
  <2> QED
    BY <1>1, <2>2, <2>3, <2>4, <2>5
<1>5. /\ a \in Seq(Pieces) /\ Range(a) \subseteq Range(m) \union R
      /\ b \in Seq(Pieces) /\ Range(b) \subseteq Range(a) \union R
      /\ c \in Seq(Pieces) /\ Range(c) \subseteq Range(b) \union R
  <2>1. a \in Seq(Pieces) /\ Range(a) \subseteq Range(m) \union R
    BY <1>3, <1>4, RedactedRange DEF HideURL
  <2> HIDE DEF a
  <2>2. b \in Seq(Pieces) /\ Range(b) \subseteq Range(a) \union R
    BY <1>3, <2>1, RedactedRange DEF HideHostname
  <2> HIDE DEF b
  <2>3. c \in Seq(Pieces) /\ Range(c) \subseteq Range(b) \union R
    BY <1>3, <2>2, RedactedRange DEF HidePort
  <2> QED
    BY <2>1, <2>2, <2>3 DEF a
<1> HIDE DEF a, b, c
<1>6. ASSUME "url" \in e.hide PROVE "path" \notin Range(c) \/ "changed" \in Range(c)
  <2>1. CASE \E t \in {<<>>, Address(e)} : m = <<x>> \o URL(e) \o t
    <3>1. PICK t \in {<<>>, Address(e)} : m = <<x>> \o URL(e) \o t
      BY <2>1
    <3>2. t \in Seq(Pieces) /\ Range(t) \subseteq {"host", "port"} /\ URL(e) # <<>>
      BY <1>2, <1>3, Addresses, URLs
    <3>3. a = Redacted(<<x>> \o URL(e) \o t, URL(e))
      BY <1>6, <3>1 DEF HideURL, Hides, a
    <3>4. Range(a) \subseteq {x} \union Range(t) \union {"redacted"}
      BY <1>2, <1>3, <3>2, <3>3, TextIsRedacted
    <3> QED
      BY <1>2, <1>5, <3>2, <3>4
  <2>2. CASE Range(m) = {x} \/ \E h \in {HostnameOf(e), Address(e)} : Range(m) = {x} \union Range(h)
    <3>1. "path" \notin Range(m)
      BY <1>2, <2>2, Hostnames, Addresses
    <3> QED
      BY <1>5, <3>1
  <2>3. CASE Range(m) = {x} \union Range(Changed(e)) \union Range(Address(e))
    <3>1. "changed" \in Range(m)
      BY <2>3, ChangedURLs
    <3>2. /\ "changed" \notin Range(URL(e)) /\ "changed" \notin Range(result.hostname)
          /\ "changed" \notin Range(result.port)
      <4>1. /\ "changed" \notin Range(URL(e)) /\ "changed" \notin Range(HostnameOf(e))
            /\ "changed" \notin Range(PortOf(e)) /\ "changed" \notin Range(<<>>)
        <5>1. Range(PortOf(e)) \subseteq {"port"}
          BY NoPiece, Hostnames, Addresses
        <5> QED
          BY <5>1, NoPiece, URLs, Hostnames
      <4> QED
        BY <4>1, Zenon DEF Addressed
    <3>3. "changed" \in Range(a)
      BY <1>3, <1>4, <3>1, <3>2, PieceStays DEF HideURL, a
    <3>4. "changed" \in Range(b)
      BY <1>3, <1>5, <3>2, <3>3, PieceStays DEF HideHostname, b
    <3>5. "changed" \in Range(c)
      BY <1>3, <1>5, <3>2, <3>4, PieceStays DEF HidePort, c
    <3> QED
      BY <3>5
  <2> QED
    BY <1>4, <2>1, <2>2, <2>3
<1>7. ASSUME "hostname" \in e.hide, e.parses PROVE "host" \notin Range(c)
  <2>1. result.hostname = HostnameOf(e) /\ b = Redacted(a, HostnameOf(e))
    BY <1>7 DEF Addressed, Parsed, HideHostname, Hides, b
  <2>2. CASE TypeOf(e) \notin {"dns", "icmp", "unknown"}
    <3>1. b = Redacted(a, <<"host">>)
      BY <2>1, <2>2, Hostnames
    <3>2. "host" \notin Range(b)
      BY <1>5, <3>1, PieceIsRedacted DEF Pieces
    <3> QED
      BY <1>5, <3>2
  <2>3. CASE Range(m) = {x}
    BY <1>2, <1>5, <2>3
  <2>4. CASE TypeOf(e) \in {"dns", "icmp"} /\ \E h \in {HostnameOf(e), Address(e)} : m = <<x>> \o h \o <<>>
    <3>1. HostnameOf(e) = Address(e) /\ Address(e) # <<>> /\ m = <<x>> \o Address(e) \o <<>>
      BY <2>4, Hostnames, Addresses
    <3>2. Range(Redacted(m, Address(e))) \subseteq {x} \union {} \union {"redacted"}
      BY <1>2, <1>3, <3>1, TextIsRedacted
    <3>3. a = m \/ a = Redacted(m, Address(e))
      <4>1. CASE TypeOf(e) = "dns"
        BY <4>1, URLs DEF HideURL, a
      <4>2. CASE TypeOf(e) = "icmp"
        <5>1. URL(e)[1] = "scheme" /\ URL(e) # <<>> /\ URL(e)[1] \notin Range(m)
          <6>1. URL(e)[1] = "scheme" /\ URL(e) # <<>>
            BY <4>2, URLs
          <6>2. Range(m) \subseteq {x, "host", "port"}
            <7>1. Range(m) = {x} \/ Range(m) = {x} \union Range(Address(e))
              <8>1. Parsed(e)
                BY <4>2 DEF Parsed
              <8> QED
                BY <1>4, <3>1, <4>2, <8>1
            <7> QED
              BY <7>1, Addresses
          <6> QED
            BY <1>2, <6>1, <6>2
        <5>2. Redacted(m, URL(e)) = m
          BY <1>3, <1>4, <5>1, NothingToRedact
        <5> QED
          BY <5>2 DEF HideURL, a
      <4> QED
        BY <2>4, <4>1, <4>2
    <3>4. "host" \notin Range(b)
      <4>1. CASE a = m
        BY <1>2, <2>1, <3>1, <3>2, <4>1
      <4>2. CASE a = Redacted(m, Address(e))
        BY <1>2, <1>5, <3>2, <4>2
      <4> QED
        BY <3>3, <4>1, <4>2
    <3> QED
      BY <1>5, <3>4
  <2>5. Parsed(e)
    BY <1>7 DEF Parsed
  <2> QED
    BY <1>4, <2>2, <2>3, <2>4, <2>5
<1>8. ASSUME "port" \in e.hide, e.parses, TypeOf(e) \notin {"dns", "icmp"} PROVE "port" \notin Range(c)
  <2>1. result.port = PortOf(e) /\ Parsed(e)
    BY <1>8 DEF Addressed, Parsed
  <2>2. CASE Range(m) = {x}
    BY <1>2, <1>5, <2>2
  <2>3. CASE TypeOf(e) # "unknown" /\ e.port
    <3>1. result.port = <<"port">> /\ result.port # <<>>
      BY <1>8, <2>1, <2>3, Hostnames, Addresses, OnePiece DEF Pieces
    <3>2. c = Redacted(b, <<"port">>)
      BY <1>8, <3>1 DEF HidePort, Hides, c
    <3> QED
      BY <1>5, <3>2, PieceIsRedacted DEF Pieces
  <2>4. CASE TypeOf(e) # "unknown" /\ ~e.port
    <3>1. "port" \notin Range(m)
      BY <1>2, <1>4, <2>4, Hostnames, Addresses, URLs, ChangedURLs
    <3> QED
      BY <1>5, <3>1
  <2>5. TypeOf(e) = "unknown" => Range(m) = {x}
    BY <1>4, <2>1
  <2> QED
    BY <2>2, <2>3, <2>4, <2>5
<1>9. CleanedUp(m) = c
  BY DEF CleanedUp, a, b, c
<1> QED
  BY <1>5, <1>6, <1>7, <1>8, <1>9 DEF Cleaned
-----------------------------------------------------------------------------
(* What a call may leave *)

LEMMA MessageType ==
  ASSUME NEW e \in Endpoints, NEW m \in Messages(e)
  PROVE  m \in Seq(Pieces)
<1>1. /\ HostnameOf(e) \in Seq(Pieces) /\ Address(e) \in Seq(Pieces)
      /\ URL(e) \in Seq(Pieces) /\ Changed(e) \in Seq(Pieces)
      /\ \A x \in Words : <<x>> \in Seq(Pieces)
  BY Hostnames, Addresses, URLs, ChangedURLs DEF Words, Pieces
<1>2. \A s, t \in Seq(Pieces) : s \o t \in Seq(Pieces)
  OBVIOUS
<1>3. <<>> \in Seq(Pieces)
  OBVIOUS
<1>4. \A x \in Words : \A s, t \in Seq(Pieces) : <<x>> \o s \o t \in Seq(Pieces)
  BY <1>1, <1>2, Zenon
<1>5. PICK x \in Words :
        \/ m = <<x>>
        \/ /\ TypeOf(e) # "unknown"
           /\ \E h \in {HostnameOf(e), Address(e)} : m = <<x>> \o h \o <<>>
        \/ ~Parsed(e) /\ m = <<x>> \o URL(e) \o <<>>
        \/ /\ TypeOf(e) \in {"http", "ws"}
           /\ \E url \in {URL(e), Changed(e)} : m = <<x>> \o url \o Address(e)
  BY Shapes
<1> QED
  BY <1>1, <1>3, <1>4, <1>5, Zenon

\* An error changes nothing else.
SameButErrors(r, q) ==
  /\ q.success = r.success /\ q.hostname = r.hostname /\ q.port = r.port /\ q.conditions = r.conditions
  /\ SameAnswers(r, q)

LEMMA ErrorAdded ==
  ASSUME NEW b, NEW r \in ResultType(b), NEW m \in Seq(Pieces)
  PROVE  LET q == AddError(r, m) IN
         /\ q \in ResultType(b) /\ SameButErrors(r, q)
         /\ q.errors # <<>> /\ Range(q.errors) \subseteq Range(r.errors) \union {m}
         /\ r.errors = <<>> => q.errors = <<m>>
<1>1. r.errors \in Seq(Seq(Pieces))
  BY DEF ResultType
<1>2. CASE m \in Range(r.errors)
  <2>1. r.errors # <<>>
    BY <1>2 DEF Range
  <2> QED
    BY <1>2, <2>1 DEF AddError, SameButErrors, SameAnswers
<1>3. CASE m \notin Range(r.errors)
  <2> DEFINE es == Append(r.errors, m)
             q == [r EXCEPT !.errors = es]
  <2>0. \A s : s = <<>> => Append(s, m) = <<m>>
    OBVIOUS
  <2>5. es \in Seq(Seq(Pieces)) /\ es # <<>>
    BY <1>1
  <2>6. r.errors = <<>> => es = <<m>>
    BY <2>0, Zenon
  <2>1. es \in Seq(Seq(Pieces)) /\ es # <<>> /\ (r.errors = <<>> => es = <<m>>)
    BY <2>5, <2>6, Zenon
  <2>2. Range(es) \subseteq Range(r.errors) \union {m}
    BY <1>1 DEF Range
  <2> HIDE DEF es
  <2>3. q \in ResultType(b) /\ q.errors = es /\ SameButErrors(r, q)
    BY <2>1 DEF ResultType, SameButErrors, SameAnswers
  <2>4. AddError(r, m) = q
    BY <1>3 DEF AddError, es
  <2> HIDE DEF q
  <2> QED
    BY <2>1, <2>2, <2>3, <2>4
<1> QED
  BY <1>2, <1>3

SameBefore(r, q) ==
  q.hostname = r.hostname /\ q.port = r.port /\ q.ip = r.ip /\ q.domain = r.domain

Succeeds(r, q) == q \in ResultType(world.body) /\ SameBefore(r, q) /\ q.errors = <<>>
Fails(r, q) ==
  /\ q \in ResultType(world.body) /\ SameBefore(r, q)
  /\ \E m \in Messages(endpoint) : q.errors = <<m>>

LEMMA Successes ==
  ASSUME NEW r, NEW q, Succeeds(r, q), NEW d \in Int, NEW s \in Int
  PROVE  /\ Succeeds(r, Took(q, d)) /\ Succeeds(r, Reached(q))
         /\ Succeeds(r, Answer(q)) /\ Answer(q).body = world.body
         /\ Succeeds(r, Exchanged(q)) /\ Succeeds(r, Certified(q)) /\ Certified(q).body = q.body
         /\ Succeeds(r, [q EXCEPT !.status = s])
         /\ Succeeds(r, [q EXCEPT !.rcode = Word("NOERROR")])
         /\ Succeeds(r, [q EXCEPT !.success = FALSE])
         /\ Succeeds(r, [q EXCEPT !.body = Cut])
<1>5. Succeeds(r, Took(q, d))
  BY DEF Succeeds, SameBefore, ResultType, Took
<1>6. Succeeds(r, Reached(q))
  BY DEF Succeeds, SameBefore, ResultType, Reached
<1>1. Succeeds(r, Certified(q)) /\ Certified(q).body = q.body
  <2>1. ASSUME NEW k \in Int
        PROVE  Succeeds(r, [q EXCEPT !.certificate = k]) /\ [q EXCEPT !.certificate = k].body = q.body
    BY DEF Succeeds, SameBefore, ResultType
  <2>2. 1 \in Int
    OBVIOUS
  <2> QED
    BY <2>1, <2>2, Zenon DEF Certified
<1>2. Succeeds(r, Answer(q)) /\ Answer(q).body = world.body /\ Succeeds(r, [q EXCEPT !.body = Cut])
  BY DEF Succeeds, SameBefore, ResultType, Answer, Bodies
<1>3. Succeeds(r, Exchanged(q))
  BY <1>2 DEF Exchanged
<1>4. /\ Succeeds(r, [q EXCEPT !.status = s])
      /\ Succeeds(r, [q EXCEPT !.rcode = Word("NOERROR")])
      /\ Succeeds(r, [q EXCEPT !.success = FALSE])
  BY DEF Succeeds, SameBefore, ResultType
<1> QED
  BY <1>1, <1>2, <1>3, <1>4, <1>5, <1>6

LEMMA Failures ==
  ASSUME endpoint \in Endpoints, NEW r, NEW q, Succeeds(r, q), NEW m \in Messages(endpoint)
  PROVE  /\ Fails(r, AddError(q, m))
         /\ Fails(r, [AddError(q, m) EXCEPT !.status = 1])
         /\ Fails(r, Certified(AddError(q, m)))
<1>1. m \in Seq(Pieces)
  BY MessageType
<1>2. Fails(r, AddError(q, m))
  BY <1>1, ErrorAdded DEF Succeeds, Fails, SameBefore, SameButErrors, SameAnswers
<1> DEFINE f == AddError(q, m)
<1> HIDE DEF f
<1>3. ASSUME NEW k \in Int, f \in ResultType(world.body), SameBefore(r, f)
      PROVE  /\ [f EXCEPT !.status = k] \in ResultType(world.body)
             /\ SameBefore(r, [f EXCEPT !.status = k])
             /\ [f EXCEPT !.status = k].errors = f.errors
             /\ [f EXCEPT !.certificate = k] \in ResultType(world.body)
             /\ SameBefore(r, [f EXCEPT !.certificate = k])
             /\ [f EXCEPT !.certificate = k].errors = f.errors
  BY <1>3 DEF SameBefore, ResultType
<1>4. 1 \in Int
  OBVIOUS
<1>5. Fails(r, f)
  BY <1>2 DEF f
<1>6. Fails(r, [f EXCEPT !.status = 1]) /\ Fails(r, [f EXCEPT !.certificate = 1])
  BY <1>3, <1>4, <1>5, Zenon DEF Fails
<1> QED
  BY <1>5, <1>6 DEF f, Certified

LEMMA TypesOfEndpoints ==
  ASSUME NEW e \in Endpoints
  PROVE  TypeOf(e) \in Schemes \union {"dns"}
  BY EndpointsAssumption DEF TypeOf

\* A call of an endpoint over HTTP without error has read the body if it is needed.
LEMMA CallOutcome ==
  ASSUME endpoint \in Endpoints, ~CallPanics,
         NEW r \in ResultType(world.body), r.errors = <<>>,
         NEW d \in Durations, NEW q \in Outcomes(r, d)
  PROVE  \/ Fails(r, q)
         \/ /\ Succeeds(r, q)
            /\ TypeOf(endpoint) = "http" /\ NeedsToReadBody(endpoint) => q.body = world.body
<1>1. d \in Int /\ Statuses \subseteq Int
  BY AnswersAssumption
<1>2. Succeeds(r, r)
  BY DEF Succeeds, SameBefore
<1>3. TypeOf(endpoint) \in {"dns", "starttls", "tls", "tcp", "udp", "sctp", "icmp", "ws", "ssh", "http"}
  BY TypesOfEndpoints DEF CallPanics, Schemes
<1>4. /\ <<"read">> \in Messages(endpoint) /\ <<"command">> \in Messages(endpoint)
      /\ TypeOf(endpoint) # "icmp" => <<"dial">> \o Address(endpoint) \in Messages(endpoint)
      /\ TypeOf(endpoint) \in {"http", "ws"} =>
           \A url \in {URL(endpoint), Changed(endpoint)} :
             <<"get">> \o url \o Address(endpoint) \in Messages(endpoint)
  BY <1>3 DEF Messages
<1>5. ASSUME TypeOf(endpoint) # "icmp", NEW p, Succeeds(r, p)
      PROVE  Fails(r, Refused(p)) /\ Fails(r, [Refused(p) EXCEPT !.status = 1])
  BY <1>4, <1>5, Failures DEF Refused
<1>6. Succeeds(r, Reached(r)) /\ Succeeds(r, Took(r, d)) /\ Succeeds(r, Took(Reached(r), d))
  BY <1>1, <1>2, Successes
<1>15. ASSUME TypeOf(endpoint) \in {"http", "ws"}, NEW p, Succeeds(r, p), NEW f \in Quoting(p)
       PROVE  Fails(r, f)
  <2>1. PICK url \in {URL(endpoint), Changed(endpoint)} :
          f = AddError(p, <<"get">> \o url \o Address(endpoint))
    BY <1>15 DEF Quoting
  <2>2. <<"get">> \o url \o Address(endpoint) \in Messages(endpoint)
    BY <1>4, <1>15
  <2> QED
    BY <1>15, <2>1, <2>2, Failures
<1>7. CASE TypeOf(endpoint) = "dns"
  <2>1. q \in {Refused(r), [Answer(Took(Reached(r), d)) EXCEPT !.rcode = Word("NOERROR")]}
    BY <1>7 DEF Outcomes
  <2>2. Succeeds(r, Answer(Took(Reached(r), d)))
    BY <1>1, <1>6, Successes
  <2>3. Succeeds(r, [Answer(Took(Reached(r), d)) EXCEPT !.rcode = Word("NOERROR")])
    BY <1>1, <2>2, Successes
  <2> QED
    BY <1>2, <1>5, <1>7, <2>1, <2>3
<1>8. CASE TypeOf(endpoint) = "starttls"
  <2>1. q \in {Refused(r), Certified(Took(Reached(r), d))}
    BY <1>8 DEF Outcomes
  <2>2. Succeeds(r, Certified(Took(Reached(r), d)))
    BY <1>1, <1>6, Successes
  <2> QED
    BY <1>2, <1>5, <1>8, <2>1, <2>2
<1>9. CASE TypeOf(endpoint) = "tls"
  <2>1. q \in {Refused(r), Certified(Took(Exchanged(Reached(r)), d)), Refused(Reached(r))}
    BY <1>9 DEF Outcomes
  <2>2. Succeeds(r, Took(Exchanged(Reached(r)), d))
    BY <1>1, <1>6, Successes
  <2>3. Succeeds(r, Certified(Took(Exchanged(Reached(r)), d)))
    BY <1>1, <2>2, Successes
  <2> QED
    BY <1>2, <1>5, <1>6, <1>9, <2>1, <2>3
<1>10. CASE TypeOf(endpoint) \in {"tcp", "udp"}
  <2>1. q \in {Took(r, d), Took(Exchanged(Reached(r)), d)}
    BY <1>10 DEF Outcomes
  <2>2. Succeeds(r, Took(Exchanged(Reached(r)), d))
    BY <1>1, <1>6, Successes
  <2> QED
    BY <1>6, <1>10, <2>1, <2>2
<1>11. CASE TypeOf(endpoint) \in {"sctp", "icmp"}
  <2>1. q \in {r, Took(r, d), Took(Reached(r), d)}
    BY <1>11 DEF Outcomes
  <2> QED
    BY <1>2, <1>6, <1>11, <2>1
<1>12. CASE TypeOf(endpoint) = "ws"
  <2>1. q \in {Refused(r), Took(Answer(Reached(r)), d)} \/ q \in Quoting(r)
    BY <1>12 DEF Outcomes
  <2>2. Succeeds(r, Took(Answer(Reached(r)), d))
    BY <1>1, <1>6, Successes
  <2> QED
    BY <1>2, <1>5, <1>12, <1>15, <2>1, <2>2
<1>13. CASE TypeOf(endpoint) = "ssh"
  <2>1. q \in SSH(r, d)
    BY <1>13 DEF Outcomes
  <2>2. \/ q \in {[Refused(r) EXCEPT !.status = 1], Took(Reached(r), d), Refused(r)}
        \/ q = AddError([Reached(r) EXCEPT !.success = FALSE], <<"command">>)
        \/ \E s \in Statuses : q = [Took(Reached(r), d) EXCEPT !.status = s]
    BY <2>1 DEF SSH
  <2>3. Succeeds(r, [Reached(r) EXCEPT !.success = FALSE])
    BY <1>1, <1>6, Successes
  <2>4. Fails(r, AddError([Reached(r) EXCEPT !.success = FALSE], <<"command">>))
    BY <1>4, <2>3, Failures
  <2>5. \A s \in Statuses : Succeeds(r, [Took(Reached(r), d) EXCEPT !.status = s])
    BY <1>1, <1>6, Successes
  <2> QED
    BY <1>2, <1>5, <1>6, <1>13, <2>2, <2>4, <2>5
<1>14. CASE TypeOf(endpoint) = "http"
  <2> DEFINE Answered == {[Took(Reached(r), d) EXCEPT !.status = s] : s \in Statuses}
             Read == IF NeedsToReadBody(endpoint)
                     THEN {Answer(a) : a \in Answered}
                            \cup {AddError([a EXCEPT !.body = Cut], <<"read">>) : a \in Answered}
                     ELSE Answered
  <2>1. \/ q \in Quoting(Took(r, d))
        \/ q \in Read
        \/ q \in {Certified(a) : a \in Read}
    BY <1>14 DEF Outcomes, HTTP
  <2>2. \A a \in Answered : Succeeds(r, a)
    <3> TAKE a \in Answered
    <3>1. PICK s \in Statuses : a = [Took(Reached(r), d) EXCEPT !.status = s]
      OBVIOUS
    <3> QED
      BY <1>1, <1>6, <3>1, Successes
  <2> HIDE DEF Answered
  <2>3. ASSUME NEW a \in Read
        PROVE  \/ /\ Succeeds(r, a) /\ Succeeds(r, Certified(a)) /\ Certified(a).body = a.body
                  /\ NeedsToReadBody(endpoint) => a.body = world.body
               \/ Fails(r, a) /\ Fails(r, Certified(a))
    <3>1. CASE ~NeedsToReadBody(endpoint)
      <4>1. Succeeds(r, a)
        BY <2>2, <2>3, <3>1
      <4> QED
        BY <1>1, <3>1, <4>1, Successes
    <3>2. ASSUME NeedsToReadBody(endpoint), NEW p \in Answered, a = Answer(p)
          PROVE  Succeeds(r, a) /\ Succeeds(r, Certified(a)) /\ Certified(a).body = a.body /\ a.body = world.body
      <4>1. Succeeds(r, a) /\ a.body = world.body
        BY <1>1, <2>2, <3>2, Successes
      <4> QED
        BY <1>1, <4>1, Successes
    <3>3. ASSUME NEW p \in Answered, a = AddError([p EXCEPT !.body = Cut], <<"read">>)
          PROVE  Fails(r, a) /\ Fails(r, Certified(a))
      <4>1. Succeeds(r, [p EXCEPT !.body = Cut])
        BY <1>1, <2>2, Successes
      <4> QED
        BY <1>4, <3>3, <4>1, Failures
    <3> QED
      BY <2>3, <3>1, <3>2, <3>3
  <2> HIDE DEF Read
  <2> QED
    BY <1>6, <1>14, <1>15, <2>1, <2>3
<1> QED
  BY <1>3, <1>7, <1>8, <1>9, <1>10, <1>11, <1>12, <1>13, <1>14
-----------------------------------------------------------------------------
(* The inductive invariant *)

Steps == {"parse", "ip", "domain", "skip", "call", "judge", "crashed", "done"}

Typed ==
  /\ endpoint \in Endpoints /\ Accepted(endpoint)
  /\ world.body \in RepliesOf(endpoint) /\ world.domain \in Expirations
  /\ step \in Steps
  /\ result \in ResultType(world.body)

\* Until they are redacted, errors are of the forms there are, and host name
\* and port those of the URL.  Nothing is called once something went wrong.
Explained ==
  step # "done" =>
    /\ Range(result.errors) \subseteq Messages(endpoint)
    /\ step = "parse" => result = NoResult
    /\ step # "parse" => Addressed /\ (~Parsed(endpoint) => result.errors # <<>>)
    /\ step = "call" => result.errors = <<>>
    /\ step = "skip" => result.errors # <<>>

\* What conditions ask for was fetched when they are judged.
Fetched ==
  result.errors = <<>> =>
    /\ step \notin {"parse", "ip"} /\ NeedsToRetrieveIP(endpoint) => result.ip = Word("ip")
    /\ (step \notin {"parse", "ip", "domain"} /\ TypeOf(endpoint) # "unknown"
          /\ NeedsToRetrieveDomainExpiration(endpoint)) => result.domain = world.domain
    /\ step \in {"judge", "done"} =>
         /\ TypeOf(endpoint) # "unknown"
         /\ TypeOf(endpoint) = "http" /\ NeedsToReadBody(endpoint) => result.body = world.body

\* The conditions that are not left were satisfied, by what the result still says.
Judged ==
  /\ left \in Seq(Range(endpoint.conditions)) /\ Len(left) <= Len(endpoint.conditions)
  /\ \A i \in 1..Len(left) :
       left[i] = endpoint.conditions[(Len(endpoint.conditions) - Len(left)) + i]
  /\ step \in {"parse", "ip", "domain", "skip", "call"} => left = endpoint.conditions
  /\ step = "done" => left = <<>>
  /\ step \in {"judge", "done"} /\ result.success =>
       \A i \in 1..(Len(endpoint.conditions) - Len(left)) :
         Satisfied(endpoint.conditions[i], result) /\ Sound(endpoint.conditions[i], result)

IInv == Typed /\ Explained /\ Fetched /\ Judged /\ HiddenPartsAreRedacted

LEMMA WorldType ==
  ASSUME Typed
  PROVE  IsBody(world.body)
  BY AnswersAssumption DEF Typed, IsBody

LEMMA ConditionTypes ==
  ASSUME NEW e \in Endpoints, Accepted(e)
  PROVE  /\ Len(e.conditions) \in Nat /\ DOMAIN e.conditions = 1..Len(e.conditions)
         /\ e.conditions \in Seq(Range(e.conditions))
         /\ \A c \in Range(e.conditions) : c.op \in Operators /\ Parameter(c.left) /\ Parameter(c.right)
         /\ \A i \in 1..Len(e.conditions) : e.conditions[i] \in Range(e.conditions)
<1>1. e.conditions \in Seq(Range(e.conditions))
  BY EndpointsAssumption
<1> DEFINE cs == e.conditions
           S == Range(cs)
<1>2. Len(cs) \in Nat /\ DOMAIN cs = 1..Len(cs)
  <2> HIDE DEF S, cs
  <2>1. cs \in Seq(S)
    BY <1>1 DEF S, cs
  <2> QED
    BY <2>1
<1>3. \A c \in S : c.op \in Operators
  BY DEF Accepted, Range
<1>4. \A i \in 1..Len(cs) : cs[i] \in S
  BY <1>2 DEF Range
<1> QED
  BY <1>1, <1>2, <1>3, <1>4, EndpointsAssumption

LEMMA InitIInv ==
  ASSUME Init
  PROVE  IInv
<1>1. endpoint \in Endpoints /\ Accepted(endpoint)
  BY DEF Init
<1>2. world.body \in RepliesOf(endpoint) /\ world.domain \in Expirations
  BY DEF Init
<1>3. NoResult \in ResultType(world.body) /\ NoResult.errors = <<>> /\ Range(NoResult.errors) = {}
  <2>1. 0 \in Int /\ <<>> \in Seq(Pieces) /\ <<>> \in Seq(Seq(Pieces)) /\ <<>> \in Seq(BOOLEAN)
        /\ Range(<<>>) = {}
    BY DEF Range
  <2>2. NoResult \in ResultType(world.body)
    BY <2>1 DEF NoResult, ResultType, Bodies
  <2>3. NoResult.errors = <<>>
    BY DEF NoResult
  <2> QED
    BY <2>1, <2>2, <2>3
<1>4. step = "parse" /\ result = NoResult /\ left = endpoint.conditions
  BY DEF Init
<1>5. Typed
  BY <1>1, <1>2, <1>3, <1>4 DEF Typed, Steps
<1>6. Explained
  BY <1>3, <1>4 DEF Explained
<1>7. Fetched
  BY <1>4 DEF Fetched
<1>8. Judged
  <2>1. Len(left) \in Nat /\ left \in Seq(Range(endpoint.conditions))
    BY <1>1, <1>4, ConditionTypes
  <2>2. (Len(left) - Len(left)) = 0 /\ \A i \in 1..Len(left) : (Len(left) - Len(left)) + i = i
    BY <2>1
  <2> QED
    BY <1>4, <2>1, <2>2 DEF Judged
<1>9. HiddenPartsAreRedacted
  BY <1>4 DEF HiddenPartsAreRedacted
<1> QED
  BY <1>5, <1>6, <1>7, <1>8, <1>9 DEF IInv

\* The steps before the conditions leave them alone.
LEMMA JudgedLater ==
  ASSUME Judged, UNCHANGED <<endpoint, left>>, step' # "done",
         step' \in {"parse", "ip", "domain", "skip", "call"} => left = endpoint.conditions,
         step' = "judge" => left = endpoint.conditions,
         endpoint \in Endpoints, Accepted(endpoint)
  PROVE  Judged'
<1>1. \A i \in 1..(Len(endpoint.conditions) - Len(endpoint.conditions)) : FALSE
  BY ConditionTypes
<1>2. \A i \in 1..(Len(endpoint'.conditions) - Len(left')) : step' = "judge" => FALSE
  <2>1. endpoint' = endpoint /\ left' = left
    OBVIOUS
  <2> QED
    BY <1>1, <2>1
<1> QED
  BY <1>2 DEF Judged

LEMMA ParseIInv ==
  ASSUME IInv, Parse
  PROVE  IInv'
<1>1. /\ endpoint \in Endpoints /\ Accepted(endpoint)
      /\ step = "parse" /\ step' = "ip" /\ UNCHANGED <<endpoint, world, left>>
      /\ result = NoResult /\ result \in ResultType(world.body)
      /\ result.errors = <<>> /\ Range(result.errors) \subseteq Messages(endpoint)
  <2>1. NoResult.errors = <<>>
    BY DEF NoResult
  <2> QED
    BY <2>1 DEF IInv, Typed, Explained, Parse, Continue
<1>2. CASE Parsed(endpoint)
  <2>1. result' = [result EXCEPT !.hostname = HostnameOf(endpoint), !.port = PortOf(endpoint)]
    BY <1>2 DEF Parse, Parsed
  <2>2. /\ result' \in ResultType(world.body) /\ result'.errors = result.errors
        /\ result'.hostname = HostnameOf(endpoint) /\ result'.port = PortOf(endpoint)
    BY <1>1, <2>1, Hostnames DEF ResultType
  <2> QED
    <3>1. Typed'
      BY <1>1, <2>2 DEF IInv, Typed, Steps
    <3>2. Explained'
      <4>1. endpoint' = endpoint
        BY <1>1
      <4>2. Parsed(endpoint') /\ HostnameOf(endpoint') = HostnameOf(endpoint)
            /\ PortOf(endpoint') = PortOf(endpoint) /\ Messages(endpoint') = Messages(endpoint)
        BY <1>2, <4>1
      <4>3. Addressed'
        BY <2>2, <4>1, <4>2 DEF Addressed
      <4> QED
        BY <1>1, <1>2, <2>2, <4>1, <4>2, <4>3 DEF Explained
    <3>3. Fetched'
      BY <1>1 DEF Fetched
    <3>4. Judged'
      BY <1>1, JudgedLater DEF IInv, Judged
    <3>5. HiddenPartsAreRedacted'
      BY <1>1 DEF HiddenPartsAreRedacted
    <3> QED
      BY <3>1, <3>2, <3>3, <3>4, <3>5 DEF IInv
<1>3. CASE ~Parsed(endpoint)
  <2> DEFINE m == <<"parse">> \o URL(endpoint)
  <2>1. result' = AddError(result, m)
    BY <1>3 DEF Parse, Parsed
  <2>2. m \in Messages(endpoint) /\ m \in Seq(Pieces)
    <3>1. m \in Messages(endpoint)
      BY <1>3 DEF Messages
    <3> QED
      BY <1>1, <3>1, MessageType
  <2> HIDE DEF m
  <2>3. /\ result' \in ResultType(world.body) /\ result'.errors # <<>>
        /\ Range(result'.errors) \subseteq Messages(endpoint)
        /\ result'.hostname = <<>> /\ result'.port = <<>>
    <3>1. result.hostname = <<>> /\ result.port = <<>>
      BY <1>1 DEF NoResult
    <3> QED
      BY <1>1, <2>1, <2>2, <3>1, ErrorAdded DEF SameButErrors
  <2> QED
    <3>1. Typed'
      BY <1>1, <2>3 DEF IInv, Typed, Steps
    <3>2. Explained'
      <4>1. endpoint' = endpoint
        BY <1>1
      <4>2. ~Parsed(endpoint') /\ Messages(endpoint') = Messages(endpoint)
        BY <1>3, <4>1
      <4>3. Addressed'
        BY <2>3, <4>2 DEF Addressed
      <4> QED
        BY <1>1, <2>3, <4>2, <4>3 DEF Explained
    <3>3. Fetched'
      BY <1>1 DEF Fetched
    <3>4. Judged'
      BY <1>1, JudgedLater DEF IInv, Judged
    <3>5. HiddenPartsAreRedacted'
      BY <1>1 DEF HiddenPartsAreRedacted
    <3> QED
      BY <3>1, <3>2, <3>3, <3>4, <3>5 DEF IInv
<1> QED
  BY <1>2, <1>3

\* The steps between parsing and redacting keep host name and port.
LEMMA ExplainedLater ==
  ASSUME Typed, Explained, UNCHANGED <<endpoint, world>>,
         step \notin {"parse", "done"}, step' \in Steps \ {"parse", "done"},
         result' \in ResultType(world.body),
         result'.hostname = result.hostname, result'.port = result.port,
         Range(result'.errors) \subseteq Messages(endpoint),
         result.errors # <<>> => result'.errors # <<>>,
         step' = "call" => result'.errors = <<>>,
         step' = "skip" => result'.errors # <<>>
  PROVE  Typed' /\ Explained' /\ HiddenPartsAreRedacted'
<1>1. Typed'
  BY DEF Typed
<1>2. Addressed'
  BY DEF Explained, Addressed
<1>3. Explained'
  BY <1>2 DEF Explained
<1>4. HiddenPartsAreRedacted'
  BY DEF HiddenPartsAreRedacted
<1> QED
  BY <1>1, <1>3, <1>4

LEMMA GetIPIInv ==
  ASSUME IInv, GetIP
  PROVE  IInv'
<1>1. /\ endpoint \in Endpoints /\ Accepted(endpoint)
      /\ step = "ip" /\ step' = "domain" /\ UNCHANGED <<endpoint, world, left>>
      /\ result \in ResultType(world.body)
      /\ Range(result.errors) \subseteq Messages(endpoint) /\ Addressed
  BY DEF IInv, Typed, Explained, GetIP, Continue
<1>2. /\ result' \in ResultType(world.body)
      /\ result'.hostname = result.hostname /\ result'.port = result.port
      /\ Range(result'.errors) \subseteq Messages(endpoint)
      /\ result.errors # <<>> => result'.errors # <<>>
      /\ result'.errors = <<>> /\ NeedsToRetrieveIP(endpoint) => result'.ip = Word("ip")
  <2>1. CASE ~NeedsToRetrieveIP(endpoint)
    BY <1>1, <2>1 DEF GetIP
  <2>2. CASE NeedsToRetrieveIP(endpoint) /\ result' = [result EXCEPT !.ip = Word("ip")]
    BY <1>1, <2>2 DEF ResultType
  <2>3. CASE NeedsToRetrieveIP(endpoint) /\ result' = AddError(result, <<"lookup">> \o result.hostname)
    <3> DEFINE m == <<"lookup">> \o result.hostname
    <3>1. m \in Messages(endpoint)
      <4>1. result.hostname \in {<<>>, HostnameOf(endpoint)}
        BY <1>1 DEF Addressed
      <4> QED
        BY <4>1 DEF Messages
    <3>2. m \in Seq(Pieces)
      BY <1>1, <3>1, MessageType
    <3> HIDE DEF m
    <3>3. result' = AddError(result, m)
      BY <2>3 DEF m
    <3> QED
      BY <1>1, <3>1, <3>2, <3>3, ErrorAdded DEF SameButErrors
  <2> QED
    BY <2>1, <2>2, <2>3 DEF GetIP
<1>3. Typed' /\ Explained' /\ HiddenPartsAreRedacted'
  BY <1>1, <1>2, ExplainedLater DEF IInv, Steps
<1>4. Fetched'
  BY <1>1, <1>2 DEF Fetched
<1>5. Judged'
  BY <1>1, JudgedLater DEF IInv, Judged
<1> QED
  BY <1>3, <1>4, <1>5 DEF IInv

LEMMA GetDomainExpirationIInv ==
  ASSUME IInv, GetDomainExpiration
  PROVE  IInv'
<1>1. /\ endpoint \in Endpoints /\ Accepted(endpoint) /\ world.domain \in Expirations
      /\ step = "domain" /\ UNCHANGED <<endpoint, world, left>>
      /\ step' = IF result'.errors = <<>> THEN "call" ELSE "skip"
      /\ result \in ResultType(world.body)
      /\ Range(result.errors) \subseteq Messages(endpoint) /\ Addressed
      /\ ~Parsed(endpoint) => result.errors # <<>>
      /\ result.errors = <<>> /\ NeedsToRetrieveIP(endpoint) => result.ip = Word("ip")
  BY DEF IInv, Typed, Explained, Fetched, GetDomainExpiration, Continue
<1>2. /\ result' \in ResultType(world.body)
      /\ result'.hostname = result.hostname /\ result'.port = result.port /\ result'.ip = result.ip
      /\ Range(result'.errors) \subseteq Messages(endpoint)
      /\ result.errors # <<>> => result'.errors # <<>>
      /\ (result'.errors = <<>> /\ TypeOf(endpoint) # "unknown"
            /\ NeedsToRetrieveDomainExpiration(endpoint)) => result'.domain = world.domain
  <2>1. CASE NeedsToRetrieveDomainExpiration(endpoint) /\ result.hostname = <<>>
    <3>1. result' = result
      BY <2>1 DEF GetDomainExpiration
    <3>2. TypeOf(endpoint) # "unknown" => result.errors # <<>>
      BY <1>1, <2>1, Hostnames DEF Addressed
    <3> QED
      BY <1>1, <3>1, <3>2
  <2>2. CASE ~NeedsToRetrieveDomainExpiration(endpoint)
    BY <1>1, <2>2 DEF GetDomainExpiration
  <2>3. CASE result' = [result EXCEPT !.domain = world.domain]
    <3>1. world.domain \in Int
      BY <1>1, AnswersAssumption
    <3> QED
      BY <1>1, <2>3, <3>1 DEF ResultType
  <2>4. CASE result' = AddError(result, <<"whois">>)
    <3>1. <<"whois">> \in Messages(endpoint) /\ <<"whois">> \in Seq(Pieces)
      BY DEF Messages, Pieces
    <3> QED
      BY <1>1, <2>4, <3>1, ErrorAdded DEF SameButErrors, SameAnswers
  <2> QED
    BY <2>1, <2>2, <2>3, <2>4 DEF GetDomainExpiration
<1>3. Typed' /\ Explained' /\ HiddenPartsAreRedacted'
  BY <1>1, <1>2, ExplainedLater DEF IInv, Steps
<1>4. Fetched'
  BY <1>1, <1>2 DEF Fetched
<1>5. Judged'
  BY <1>1, JudgedLater DEF IInv, Judged
<1> QED
  BY <1>3, <1>4, <1>5 DEF IInv

LEMMA SkipIInv ==
  ASSUME IInv, Skip
  PROVE  IInv'
<1>1. /\ endpoint \in Endpoints /\ Accepted(endpoint)
      /\ step = "skip" /\ step' = "judge" /\ UNCHANGED <<endpoint, world, left>>
      /\ result' = [result EXCEPT !.success = FALSE]
      /\ result \in ResultType(world.body)
      /\ Range(result.errors) \subseteq Messages(endpoint) /\ result.errors # <<>>
  BY DEF IInv, Typed, Explained, Skip, Continue
<1>2. /\ result' \in ResultType(world.body) /\ result'.errors = result.errors
      /\ result'.hostname = result.hostname /\ result'.port = result.port
  BY <1>1 DEF ResultType
<1>3. Typed' /\ Explained' /\ HiddenPartsAreRedacted'
  BY <1>1, <1>2, ExplainedLater DEF IInv, Steps
<1>4. Fetched'
  BY <1>1, <1>2 DEF Fetched
<1>5. Judged'
  BY <1>1, JudgedLater DEF IInv, Judged
<1> QED
  BY <1>3, <1>4, <1>5 DEF IInv

LEMMA CallIInv ==
  ASSUME IInv, Call
  PROVE  IInv'
<1>1. /\ endpoint \in Endpoints /\ Accepted(endpoint) /\ ~CallPanics
      /\ step = "call" /\ step' = "judge" /\ UNCHANGED <<endpoint, world, left>>
      /\ result \in ResultType(world.body) /\ result.errors = <<>>
      /\ TypeOf(endpoint) # "unknown"
      /\ NeedsToRetrieveIP(endpoint) => result.ip = Word("ip")
      /\ NeedsToRetrieveDomainExpiration(endpoint) => result.domain = world.domain
  BY DEF IInv, Typed, Explained, Fetched, Call, Continue, CallPanics
<1>2. PICK d \in Durations : result' \in Outcomes(result, d)
  BY DEF Call
<1>3. \/ Fails(result, result')
      \/ /\ Succeeds(result, result')
         /\ TypeOf(endpoint) = "http" /\ NeedsToReadBody(endpoint) => result'.body = world.body
  BY <1>1, <1>2, CallOutcome
<1>4. /\ result' \in ResultType(world.body) /\ SameBefore(result, result')
      /\ Range(result'.errors) \subseteq Messages(endpoint)
  <2>1. Range(<<>>) = {} /\ \A m : Range(<<m>>) = {m}
    BY DEF Range
  <2> QED
    BY <1>3, <2>1 DEF Fails, Succeeds
<1>5. (result'.errors = <<>> /\ TypeOf(endpoint) = "http" /\ NeedsToReadBody(endpoint))
         => result'.body = world.body
  <2>1. \A m : <<m>> # <<>>
    OBVIOUS
  <2>2. Fails(result, result') => result'.errors # <<>>
    BY <2>1 DEF Fails
  <2> QED
    BY <1>3, <2>2
<1>6. Typed' /\ Explained' /\ HiddenPartsAreRedacted'
  BY <1>1, <1>4, ExplainedLater DEF IInv, Steps, SameBefore
<1>7. Fetched'
  BY <1>1, <1>4, <1>5 DEF Fetched, SameBefore
<1>8. Judged'
  BY <1>1, JudgedLater DEF IInv, Judged
<1> QED
  BY <1>6, <1>7, <1>8 DEF IInv

LEMMA CrashIInv ==
  ASSUME IInv, Crash
  PROVE  IInv'
<1>1. /\ endpoint \in Endpoints /\ Accepted(endpoint)
      /\ step = "call" /\ step' = "crashed" /\ UNCHANGED <<endpoint, world, left, result>>
      /\ result \in ResultType(world.body) /\ result.errors = <<>>
      /\ Range(result.errors) \subseteq Messages(endpoint)
  BY DEF IInv, Typed, Explained, Crash, Continue
<1>2. Typed' /\ Explained' /\ HiddenPartsAreRedacted'
  BY <1>1, ExplainedLater DEF IInv, Steps
<1>3. Fetched'
  BY <1>1 DEF IInv, Fetched
<1>4. Judged'
  BY <1>1, JudgedLater DEF IInv, Judged
<1> QED
  BY <1>2, <1>3, <1>4 DEF IInv

LEMMA JudgeIInv ==
  ASSUME IInv, Judge
  PROVE  IInv'
<1> DEFINE c == Head(left)
           complained == IF LeadsNowhere(c.left, result) \/ LeadsNowhere(c.right, result)
                         THEN AddError(result, <<"walk">>) ELSE result
           cs == endpoint.conditions
           N == Len(cs)
<1>1. /\ endpoint \in Endpoints /\ Accepted(endpoint)
      /\ step = "judge" /\ left # <<>> /\ UNCHANGED <<endpoint, world>>
      /\ result \in ResultType(world.body)
      /\ Range(result.errors) \subseteq Messages(endpoint)
  BY DEF IInv, Typed, Explained, Judge, Continue
<1>2. CASE Panics(c.left, result) \/ Panics(c.right, result)
  <2>1. step' = "crashed" /\ UNCHANGED <<left, result>>
    BY <1>2 DEF Judge, Continue
  <2>2. Typed' /\ Explained' /\ HiddenPartsAreRedacted'
    BY <1>1, <2>1, ExplainedLater DEF IInv, Steps
  <2>3. Fetched'
    BY <1>1, <2>1 DEF IInv, Fetched
  <2>4. Judged'
    BY <1>1, <2>1, JudgedLater DEF IInv, Judged
  <2> QED
    BY <2>2, <2>3, <2>4 DEF IInv
<1>3. CASE ~(Panics(c.left, result) \/ Panics(c.right, result))
  <2> DEFINE success == Satisfied(c, result)
  <2>1. /\ step' = "judge" /\ left' = Tail(left)
        /\ result' = [complained EXCEPT !.conditions = Append(@, success), !.success = @ /\ success]
    BY <1>1, <1>3 DEF Judge
  <2>2. N \in Nat /\ left \in Seq(Range(cs)) /\ Len(left) \in 1..N /\ c = left[1] /\ c \in Range(cs)
    <3>1. left \in Seq(Range(cs)) /\ Len(left) <= N /\ N \in Nat
      BY <1>1, ConditionTypes DEF IInv, Judged
    <3> DEFINE S == Range(cs)
    <3> HIDE DEF S, N
    <3>2. Len(left) \in 1..N /\ Head(left) = left[1] /\ Head(left) \in S
      BY <1>1, <3>1 DEF S
    <3> QED
      BY <3>1, <3>2 DEF S
  <2>3. success \in BOOLEAN
    BY <1>1, <2>2, ConditionTypes, SatisfiedType
  <2>4. /\ complained \in ResultType(world.body) /\ SameButErrors(result, complained)
        /\ Range(complained.errors) \subseteq Messages(endpoint)
        /\ result.errors # <<>> => complained.errors # <<>>
    <3> DEFINE m == <<"walk">>
               lost == AddError(result, m)
    <3>1. m \in Messages(endpoint) /\ m \in Seq(Pieces)
      BY DEF Messages, Pieces
    <3>2. SameButErrors(result, result)
      BY DEF SameButErrors, SameAnswers
    <3>3. complained = lost \/ complained = result
      OBVIOUS
    <3> HIDE DEF m, lost, complained
    <3>4. /\ lost \in ResultType(world.body) /\ SameButErrors(result, lost)
          /\ Range(lost.errors) \subseteq Range(result.errors) \union {m}
          /\ lost.errors # <<>>
      BY <1>1, <3>1, ErrorAdded DEF lost
    <3>5. Range(lost.errors) \subseteq Messages(endpoint)
      BY <1>1, <3>1, <3>4
    <3> QED
      BY <1>1, <3>2, <3>3, <3>4, <3>5
  <2>10. LeadsNowhere(c.left, result) \/ LeadsNowhere(c.right, result) => complained.errors # <<>>
    <3> DEFINE m == <<"walk">>
    <3>1. m \in Seq(Pieces)
      BY DEF Pieces
    <3> HIDE DEF m
    <3>2. AddError(result, m).errors # <<>>
      BY <1>1, <3>1, ErrorAdded
    <3> QED
      BY <3>2 DEF m
  <2> HIDE DEF complained, success
  <2>5. /\ result' \in ResultType(world.body)
        /\ result'.errors = complained.errors
        /\ result'.success = (complained.success /\ success)
        /\ result'.hostname = complained.hostname /\ result'.port = complained.port
        /\ SameAnswers(complained, result')
    <3>1. complained.conditions \in Seq(BOOLEAN) /\ complained.success \in BOOLEAN
      BY <2>4 DEF ResultType
    <3>2. PICK list \in Seq(BOOLEAN) : list = Append(complained.conditions, success)
      <4>1. \A S : \A s \in Seq(S), x \in S : Append(s, x) \in Seq(S)
        OBVIOUS
      <4>2. Append(complained.conditions, success) \in Seq(BOOLEAN)
        BY <2>3, <3>1, <4>1, Zenon
      <4> QED
        BY <4>2, Zenon
    <3>3. PICK ok \in BOOLEAN : ok = (complained.success /\ success)
      OBVIOUS
    <3>4. result' = [complained EXCEPT !.conditions = list, !.success = ok]
      BY <2>1, <3>2, <3>3
    <3>5. /\ result' \in ResultType(world.body)
          /\ result'.errors = complained.errors
          /\ result'.success = ok
          /\ result'.hostname = complained.hostname /\ result'.port = complained.port
      BY <2>4, <3>4 DEF ResultType
    <3>6. SameAnswers(complained, result')
      BY <2>4, <3>4 DEF ResultType, SameAnswers
    <3> QED
      BY <3>3, <3>5, <3>6
  <2>6. /\ SameAnswers(result, result')
        /\ result'.hostname = result.hostname /\ result'.port = result.port
        /\ complained.success = result.success
    BY <2>4, <2>5 DEF SameButErrors, SameAnswers
  <2>7. Typed' /\ Explained' /\ HiddenPartsAreRedacted'
    BY <1>1, <2>1, <2>4, <2>5, <2>6, ExplainedLater DEF IInv, Steps
  <2>8. Fetched'
    <3>1. result'.errors = <<>> => result.errors = <<>>
      BY <2>4, <2>5
    <3>2. result'.ip = result.ip /\ result'.domain = result.domain /\ result'.body = result.body
      BY <2>6 DEF SameAnswers
    <3> QED
      BY <1>1, <2>1, <3>1, <3>2 DEF IInv, Fetched
  <2>9. Judged'
    <3> DEFINE M == Len(left)
    <3>1. /\ Tail(left) \in Seq(Range(cs)) /\ Len(Tail(left)) = M - 1
          /\ \A i \in 1..(M - 1) : Tail(left)[i] = left[i + 1] /\ i + 1 \in 1..M
          /\ M \in Nat
      <4> DEFINE S == Range(cs)
      <4> HIDE DEF S, N
      <4>1. left \in Seq(S)
        BY <2>2 DEF S
      <4>2. /\ Tail(left) \in Seq(S) /\ Len(Tail(left)) = M - 1
            /\ \A i \in 1..(M - 1) : Tail(left)[i] = left[i + 1] /\ i + 1 \in 1..M
            /\ M \in Nat
        BY <1>1, <4>1
      <4> QED
        BY <4>2 DEF S
    <3>2. /\ \A i \in 1..M : left[i] = cs[(N - M) + i]
          /\ result.success =>
               \A i \in 1..(N - M) : Satisfied(cs[i], result) /\ Sound(cs[i], result)
      BY <1>1 DEF IInv, Judged
    <3> HIDE DEF M, N
    <3>3. \A i \in 1..(M - 1) : Tail(left)[i] = cs[(N - (M - 1)) + i]
      <4>1. \A i \in 1..(M - 1) : (N - (M - 1)) + i = (N - M) + (i + 1)
        BY <2>2, <3>1
      <4> QED
        BY <3>1, <3>2, <4>1
    <3>4. ASSUME result'.success, NEW i \in 1..(N - (M - 1))
          PROVE  Satisfied(cs[i], result') /\ Sound(cs[i], result')
      <4>1. result.success /\ Satisfied(c, result)
        BY <2>3, <2>5, <2>6, <3>4 DEF success
      <4>2. i \in 1..(N - M) \/ i = (N - M) + 1
        BY <2>2, <3>1, <3>4
      <4>3. cs[(N - M) + 1] = c
        BY <2>2, <3>2 DEF M
      <4>4. Satisfied(cs[i], result)
        BY <3>2, <4>1, <4>2, <4>3
      <4>5. ASSUME i = (N - M) + 1 PROVE Sound(cs[i], result')
        <5>1. result'.errors = <<>> => ~(LeadsNowhere(c.left, result) \/ LeadsNowhere(c.right, result))
          BY <2>5, <2>10
        <5>2. Sound(c, result')
          BY <1>3, <2>6, <5>1 DEF Sound, Panics, LeadsNowhere, SameAnswers
        <5> QED
          BY <4>3, <4>5, <5>2
      <4>6. ASSUME i \in 1..(N - M) PROVE Sound(cs[i], result')
        <5>1. Sound(cs[i], result) /\ result'.body = result.body
          BY <2>6, <3>2, <4>1, <4>6 DEF SameAnswers
        <5>2. result'.errors = <<>> => result.errors = <<>>
          BY <2>4, <2>5
        <5> QED
          BY <5>1, <5>2, SameSound
      <4>7. Satisfied(cs[i], result')
        BY <2>6, <4>4, SameJudgement
      <4> QED
        BY <4>2, <4>5, <4>6, <4>7
    <3>5. endpoint'.conditions = cs /\ Len(left') = M - 1 /\ M - 1 <= N
      BY <1>1, <2>1, <2>2, <3>1 DEF M
    <3> HIDE DEF cs
    <3> QED
      BY <1>1, <2>1, <3>1, <3>3, <3>4, <3>5 DEF Judged, N, cs
  <2> QED
    BY <2>7, <2>8, <2>9 DEF IInv
<1> QED
  BY <1>2, <1>3

LEMMA RedactIInv ==
  ASSUME IInv, Redact
  PROVE  IInv'
<1>1. /\ endpoint \in Endpoints /\ Accepted(endpoint)
      /\ step = "judge" /\ left = <<>> /\ step' = "done" /\ UNCHANGED <<endpoint, world, left>>
      /\ result \in ResultType(world.body)
      /\ Range(result.errors) \subseteq Messages(endpoint) /\ Addressed
  BY DEF IInv, Typed, Explained, Redact, Continue
<1> DEFINE es == result.errors
           fs == [i \in DOMAIN es |-> CleanedUp(es[i])]
           hostname == IF Hides("hostname") THEN <<>> ELSE result.hostname
           port == IF Hides("port") THEN <<>> ELSE result.port
           conditions == IF Hides("conditions") THEN <<>> ELSE result.conditions
<1>2. result' = [result EXCEPT !.errors = fs, !.hostname = hostname, !.port = port,
                               !.conditions = conditions]
  BY DEF Redact
<1>3. /\ es \in Seq(Seq(Pieces)) /\ result.hostname \in Seq(Pieces) /\ result.port \in Seq(Pieces)
      /\ result.conditions \in Seq(BOOLEAN)
  BY <1>1 DEF ResultType
<1>4. \A i \in DOMAIN es : Cleaned(CleanedUp(es[i]))
  <2>1. \A i \in DOMAIN es : es[i] \in Messages(endpoint)
    BY <1>1 DEF Range
  <2> QED
    BY <1>1, <2>1, ErrorsAreCleanedUp
<1>5. /\ fs \in Seq(Seq(Pieces)) /\ (fs = <<>> <=> es = <<>>)
      /\ \A error \in Range(fs) : Cleaned(error)
  <2>1. \A error \in Range(fs) : Cleaned(error)
    BY <1>4 DEF Range
  <2>2. \A i \in DOMAIN es : CleanedUp(es[i]) \in Seq(Pieces)
    BY <1>4 DEF Cleaned
  <2>3. PICK n \in Nat : DOMAIN es = 1..n /\ n = Len(es)
    BY <1>3
  <2>4. fs \in [1..n -> Seq(Pieces)]
    BY <2>2, <2>3
  <2> HIDE DEF fs, es
  <2>5. fs \in Seq(Seq(Pieces)) /\ Len(fs) = n
    BY <2>3, <2>4, SeqDef
  <2> QED
    BY <1>3, <2>1, <2>3, <2>5
<1>6. hostname \in Seq(Pieces) /\ port \in Seq(Pieces) /\ conditions \in Seq(BOOLEAN)
  <2>1. <<>> \in Seq(Pieces) /\ <<>> \in Seq(BOOLEAN)
    OBVIOUS
  <2> QED
    BY <1>3, <2>1
<1> HIDE DEF fs, hostname, port, conditions
<1>7. /\ result' \in ResultType(world.body)
      /\ result'.errors = fs /\ result'.hostname = hostname /\ result'.port = port
      /\ result'.success = result.success
  BY <1>1, <1>2, <1>5, <1>6 DEF ResultType
<1>8. SameAnswers(result, result')
  BY <1>1, <1>2 DEF ResultType, SameAnswers
<1>9. Typed'
  BY <1>1, <1>7 DEF IInv, Typed, Steps
<1>10. Explained'
  BY <1>1 DEF Explained
<1>11. Fetched'
  <2>1. result'.ip = result.ip /\ result'.domain = result.domain /\ result'.body = result.body
    BY <1>8 DEF SameAnswers
  <2> QED
    BY <1>1, <1>5, <1>7, <2>1 DEF IInv, Fetched
<1>12. Judged'
  <2>1. \A c : Satisfied(c, result) = Satisfied(c, result')
    BY <1>8, SameJudgement
  <2>2. \A c : Sound(c, result) => Sound(c, result')
    BY <1>5, <1>7, <1>8, SameSound DEF SameAnswers
  <2> QED
    BY <1>1, <1>7, <2>1, <2>2 DEF IInv, Judged
<1>13. HiddenPartsAreRedacted'
  <2>1. \A error \in Range(fs) : Cleaned(error)
    BY <1>5
  <2>2. /\ "hostname" \in endpoint.hide => hostname = <<>>
        /\ "port" \in endpoint.hide => port = <<>>
    BY DEF Hides, hostname, port
  <2> QED
    BY <1>1, <1>7, <2>1, <2>2 DEF HiddenPartsAreRedacted, Cleaned
<1> QED
  BY <1>9, <1>10, <1>11, <1>12, <1>13 DEF IInv


LEMMA StutterIInv ==
  ASSUME IInv, UNCHANGED vars
  PROVE  IInv'
<1>1. UNCHANGED <<endpoint, world, step, result, left>>
  BY DEF vars
<1>2. Typed'
  BY <1>1 DEF IInv, Typed
<1>3. Explained'
  BY <1>1 DEF IInv, Explained, Addressed
<1>4. Fetched'
  BY <1>1 DEF IInv, Fetched
<1>5. Judged'
  BY <1>1 DEF IInv, Judged
<1>6. HiddenPartsAreRedacted'
  BY <1>1 DEF IInv, HiddenPartsAreRedacted
<1> QED
  BY <1>2, <1>3, <1>4, <1>5, <1>6 DEF IInv

LEMMA IInvIsInductive ==
  ASSUME IInv, [Next]_vars
  PROVE  IInv'
<1>1. CASE Parse
  BY <1>1, ParseIInv
<1>2. CASE GetIP
  BY <1>2, GetIPIInv
<1>3. CASE GetDomainExpiration
  BY <1>3, GetDomainExpirationIInv
<1>4. CASE Skip
  BY <1>4, SkipIInv
<1>5. CASE Call
  BY <1>5, CallIInv
<1>6. CASE Crash
  BY <1>6, CrashIInv
<1>7. CASE Judge
  BY <1>7, JudgeIInv
<1>8. CASE Redact
  BY <1>8, RedactIInv
<1>9. CASE UNCHANGED vars
  BY <1>9, StutterIInv
<1> QED
  BY <1>1, <1>2, <1>3, <1>4, <1>5, <1>6, <1>7, <1>8, <1>9 DEF Next

LEMMA Invariance == Spec => []IInv
<1>1. Init => IInv
  BY InitIInv
<1>2. IInv /\ [Next]_vars => IInv'
  BY IInvIsInductive
<1> QED
  BY <1>1, <1>2, PTL DEF Spec

\* What a path finds in a body is what is at its end, or what the walk stopped
\* at, and only the documented indices panic (jsonpath.Eval), for every body
\* and every path.
THEOREM PathsLeadSomewhere == Spec => []PathsAreFollowed
<1>1. IInv => PathsAreFollowed
  <2> SUFFICES ASSUME IInv, step = "done", result.body.type = "json", NEW path \in Paths
               PROVE  Follows(path, result.body.value)
    BY DEF PathsAreFollowed, Follows
  <2>1. result.body \in Bodies(world.body) /\ IsBody(world.body)
    BY WorldType DEF IInv, Typed, ResultType
  <2>2. result.body.value \in Jsons
    BY <2>1, BodyTypes DEF IsBody, Jsons
  <2> QED
    BY <2>2, EveryPathIsFollowed
<1> QED
  BY <1>1, Invariance, PTL

\* What was fetched for a parameter is what the endpoint really answers.
LEMMA NothingElseWasAsked ==
  ASSUME IInv, step = "done", result.errors = <<>>,
         NEW c \in Range(endpoint.conditions),
         NEW p \in {c.left, c.right}, Parameter(p), ~NotFetched(p)
  PROVE  /\ Truth \in ResultType(world.body) /\ Truth.errors = result.errors
         /\ Resolved(p, result) = Resolved(p, Truth)
         /\ p.name = "path" => Truth.body = result.body
<1>1. result \in ResultType(world.body) /\ world.domain \in Int
  BY AnswersAssumption DEF IInv, Typed
<1> DEFINE t == Truth
           read == IF TypeOf(endpoint) = "http" THEN world.body ELSE result.body
<1>2. /\ t.status = result.status /\ t.duration = result.duration /\ t.rcode = result.rcode
      /\ t.connected = result.connected /\ t.certificate = result.certificate
      /\ t.ip = Word("ip") /\ t.domain = world.domain
      /\ t.body = read /\ t.errors = result.errors
  BY <1>1 DEF Truth, ResultType
<1>3. p.name = "IP" => result.ip = Word("ip")
  BY DEF IInv, Fetched, NeedsToRetrieveIP, HasIPPlaceholder, Mentions, NotFetched
<1>4. p.name = "DOMAIN_EXPIRATION" => result.domain = world.domain
  BY DEF IInv, Fetched, NeedsToRetrieveDomainExpiration, HasDomainExpirationPlaceholder, Mentions, NotFetched
<1>5. p.name \in {"BODY", "path"} => result.body = read
  <2>1. p.name = "path" => p.capitals
    BY DEF Parameter
  <2> QED
    BY <2>1 DEF IInv, Fetched, NeedsToReadBody, HasBodyPlaceholder, Mentions, NotFetched
<1>6. t \in ResultType(world.body)
  <2>1. read \in Bodies(world.body)
    BY <1>1 DEF ResultType, Bodies
  <2>2. t = [result EXCEPT !.ip = Word("ip"), !.domain = world.domain, !.body = read]
    BY <1>1 DEF Truth, ResultType
  <2> HIDE DEF t, read
  <2> QED
    BY <1>1, <2>1, <2>2 DEF ResultType
<1> HIDE DEF t, read
<1>7. Resolved(p, result) = Resolved(p, t)
  <2>1. CASE p.name = "path"
    BY <1>2, <1>5, <2>1 DEF Resolved
  <2>2. CASE p.name # "path"
    <3>1. Said(p, result) = Said(p, t)
      BY <1>2, <1>3, <1>4, <1>5, <2>2 DEF Parameter, Said
    <3> QED
      BY <2>2, <3>1 DEF Resolved
  <2> QED
    BY <2>1, <2>2
<1>8. p.name = "path" => t.body = result.body
  BY <1>2, <1>5
<1> QED
  BY <1>2, <1>6, <1>7, <1>8 DEF t

\* A check without errors that ends in success means every condition, of what
\* the endpoint really answered, unless one of the listed guesses was made
\* (EvaluateHealth, Condition.evaluate, isEqual, sanitizeAndResolveNumerical,
\* jsonpath.Eval): for all endpoints, conditions, bodies and numbers.
THEOREM HealthIsNoGuess == Spec => []HealthyMeansConditionsHold
<1>1. IInv => HealthyMeansConditionsHold
  <2> SUFFICES ASSUME IInv, step = "done", result.success, result.errors = <<>>,
                      NEW i \in DOMAIN endpoint.conditions,
                      ~Guessed(endpoint.conditions[i], Truth)
               PROVE  Holds(endpoint.conditions[i], Truth)
    BY DEF HealthyMeansConditionsHold
  <2> DEFINE c == endpoint.conditions[i]
             N == Len(endpoint.conditions)
             t == Truth
             a == Meant(c.left, t)
             b == Meant(c.right, t)
             x == Compared(c.left, t)
             y == Compared(c.right, t)
  <2>1. endpoint \in Endpoints /\ Accepted(endpoint)
    BY DEF IInv, Typed
  <2>2. /\ N \in Nat /\ i \in 1..N /\ c \in Range(endpoint.conditions) /\ c.op \in Operators
        /\ Parameter(c.left) /\ Parameter(c.right)
    BY <2>1, ConditionTypes
  <2>3. Satisfied(c, result) /\ Sound(c, result)
    <3>1. left = <<>> /\ Len(left) = 0
      BY DEF IInv, Judged
    <3>2. \A k \in 1..(N - 0) :
            Satisfied(endpoint.conditions[k], result) /\ Sound(endpoint.conditions[k], result)
      BY <3>1 DEF IInv, Judged
    <3> QED
      BY <2>2, <3>2
  <2>4. \A p \in {c.left, c.right} : ~NotFetched(p) /\ ~IntoNothing(p, t.body) /\ ~EndsEarly(p, t.body)
    BY DEF Guessed
  <2>5. /\ ~(IsFunction(a) /\ IsFunction(b)) /\ ~Unordered(c.op, a, b)
        /\ c.op = "!=" => ~TwoWritings(x, y)
        /\ Is("pattern", x) => y = b
        /\ Is("pattern", y) => x = a
    BY DEF Guessed, OtherwiseWritten
  <2> HIDE DEF c, t
  <2>6. ASSUME NEW p \in {c.left, c.right}
        PROVE  /\ Resolved(p, result) = Compared(p, t)
               /\ Writes(Compared(p, t), Meant(p, t))
               /\ IsText(Compared(p, t)) /\ IsText(Meant(p, t)) /\ Meant(p, t) # Nothing
    <3>1. /\ t \in ResultType(world.body) /\ Resolved(p, result) = Resolved(p, t)
          /\ p.name = "path" => t.body = result.body
      BY <2>2, <2>4, <2>6, NothingElseWasAsked DEF t
    <3>2. ~LeadsNowhere(p, t) /\ ~Panics(p, t)
      BY <2>3, <2>6, <3>1 DEF Sound, LeadsNowhere, Panics
    <3>3. Parameter(p) /\ IsBody(world.body)
      BY <2>2, <2>6, WorldType DEF IInv
    <3> QED
      BY <2>4, <2>6, <3>1, <3>2, <3>3, ComparedIsMeant
  <2>7. (CASE c.op = "==" -> IsEqual(x, y)
           [] c.op = "!=" -> ~IsEqual(x, y)
           [] c.op = "<=" -> Number(x) <= Number(y)
           [] c.op = ">=" -> Number(x) >= Number(y)
           [] c.op = ">" -> Number(x) > Number(y)
           [] c.op = "<" -> Number(x) < Number(y))
    <3>1. Resolved(c.left, result) = x /\ Resolved(c.right, result) = y
      BY <2>6
    <3> HIDE DEF x, y
    <3> QED
      BY <2>3, <3>1 DEF Satisfied
  <2>8. /\ Writes(x, a) /\ Writes(y, b) /\ IsText(a) /\ IsText(b) /\ IsText(x) /\ IsText(y)
        /\ Nothing \notin {a, b}
    BY <2>6
  <2> HIDE DEF a, b, x, y
  <2>9. Means(c.op, a, b)
    BY <2>2, <2>5, <2>7, <2>8, JudgementMeans
  <2> QED
    BY <2>9 DEF Holds, a, b, c, t
<1> QED
  BY <1>1, Invariance, PTL

\* What a user asked to hide is in no error that is stored (EvaluateHealth),
\* but for the path of a URL that is not the one of the configuration: one that
\* was followed to, encoded anew, or lost its password.  For every endpoint,
\* error and combination of what is hidden.
THEOREM HiddenIsHidden == Spec => []HiddenPartsAreRedacted
<1>1. IInv => HiddenPartsAreRedacted
  BY DEF IInv
<1> QED
  BY <1>1, Invariance, PTL
-----------------------------------------------------------------------------
(* Maintenance windows: division, a valid file, and the day that counts. *)

LEMMA Division ==
  ASSUME NEW n \in Int, NEW d \in Nat \ {0}
  PROVE  /\ n \div d \in Int /\ n % d \in 0..(d - 1)
         /\ n = (n \div d) * d + (n % d)
  BY SMT

LEMMA Monotone ==
  ASSUME NEW a \in Int, NEW b \in Int, NEW d \in Nat, a <= b
  PROVE  a * d <= b * d
  BY SMT

LEMMA Quotient ==
  ASSUME NEW q \in Int, NEW d \in Nat \ {0}, NEW r \in 0..(d - 1)
  PROVE  (q * d + r) \div d = q
  BY SMT

LEMMA DayIsPositive == Day \in Nat \ {0}
  BY CalendarAssumption, SMT DEF Day

\* The start the code uses, in hours and minutes.
Hour(file) == IF Validated(file) THEN file.start[1] ELSE 0
Minute(file) == IF Validated(file) THEN file.start[2] ELSE 0

\* What a file says that may be in use, in numbers.
LEMMA FileInUse ==
  ASSUME NEW file \in Files, Validated(file) => Valid(file)
  PROVE  /\ Hour(file) \in 0..(HoursADay - 1)
         /\ Minute(file) \in 0..(MinutesAnHour - 1)
         /\ file.duration \in Int
         /\ Validated(file) => file.duration <= Day
         /\ DurationToStart(file) = Hour(file) * MinutesAnHour + Minute(file)
<1>1. file.duration \in Int /\ file.start[1] \in Int /\ file.start[2] \in Int
  BY DayIsPositive, CalendarAssumption, SMT DEF Files
<1>2. CASE Validated(file)
  <2>1. /\ file.start[1] \in 0..(HoursADay - 1) /\ file.start[2] \in 0..(MinutesAnHour - 1)
        /\ file.duration \in 1..Day
    BY <1>2 DEF Valid
  <2>2. file.duration <= Day
    BY <2>1, DayIsPositive, SMT
  <2> QED
    BY <1>1, <1>2, <2>1, <2>2, Zenon DEF Hour, Minute, DurationToStart
<1>3. CASE ~Validated(file)
  <2>1. Hour(file) = 0 /\ Minute(file) = 0 /\ DurationToStart(file) = 0
    BY <1>3 DEF Hour, Minute, DurationToStart
  <2> QED
    BY <1>1, <1>3, <2>1, CalendarAssumption, SMT
<1> QED
  BY <1>2, <1>3

\* How long a window lasts, at most to its next start.
Lasts(file) == IF file.duration > Day THEN Day ELSE file.duration

\* The reference opens and closes a window by the same numbers.
LEMMA Boundaries ==
  ASSUME NEW file \in Files, Validated(file) => Valid(file), NEW day \in Int
  PROVE  /\ Opens(file, day) = day * Day + DurationToStart(file)
         /\ Closes(file, day) = day * Day + DurationToStart(file) + Lasts(file)
  BY DEF Opens, Closes, Lasts, DurationToStart

\* A window that contains now is that of the day the code looks at, or now lies
\* in the hour the window starts in, less than an hour before its next start.
LEMMA ThatDayOrLost ==
  ASSUME NEW file \in Files, Validated(file) => Valid(file),
         NEW now \in Nat,
         NEW day \in Int, day <= now \div Day,
         day * Day + DurationToStart(file) < now,
         now < day * Day + DurationToStart(file) + Lasts(file)
  PROVE  \/ day = DayOfWindow(file, now)
         \/ /\ Lasts(file) > (HoursADay - 1) * MinutesAnHour
            /\ (now % Day) \div MinutesAnHour = Hour(file)
            /\ now % Day < DurationToStart(file)
<1> DEFINE h == Hour(file)
           m == Minute(file)
           M == MinutesAnHour
           q == now \div Day
           r == now % Day
           c == r \div M
           e == r % M
           n == Lasts(file)
<1>1. /\ h \in 0..(HoursADay - 1) /\ m \in 0..(M - 1)
      /\ DurationToStart(file) = h * M + m
  BY FileInUse
<1>2. M \in Nat \ {0} /\ HoursADay \in Nat \ {0} /\ Day \in Nat \ {0}
  BY CalendarAssumption, DayIsPositive
<1>3. q \in Int /\ r \in 0..(Day - 1) /\ now = q * Day + r
  BY <1>2, Division
<1>4. c \in Int /\ e \in 0..(M - 1) /\ r = c * M + e
  <2> HIDE DEF q, r, M
  <2>1. r \in Int /\ M \in Nat \ {0}
    BY <1>2, <1>3
  <2> QED
    BY <2>1, Division
<1>5. DurationToStart(file) \div M = h
  <2>1. h \in Int
    BY <1>1, <1>2
  <2>2. (h * M + m) \div M = h
    BY <1>1, <1>2, <2>1, Quotient
  <2> QED
    BY <1>1, <2>2
<1>6. (HoursADay - 1) * M = Day - M
  BY <1>2, SMT DEF Day
<1>7. h * M <= Day - M
  <2>1. h * M <= (HoursADay - 1) * M
    BY <1>1, <1>2, Monotone
  <2> QED
    BY <2>1, <1>6
<1>n. n \in Int /\ n <= Day
  BY <1>2, FileInUse, SMT DEF Lasts
<1> HIDE DEF q, r, c, e, h, m, n
<1>8. DayOfWindow(file, now) = IF c < h THEN q - 1 ELSE q
  BY <1>5 DEF DayOfWindow, q, r, c
<1>w. day * Day + (h * M + m) < now /\ now < day * Day + (h * M + m) + n
  BY <1>1 DEF n
<1>9. CASE c < h
  <2>1. c * M + M <= h * M
    <3>1. (c + 1) * M <= h * M
      BY <1>1, <1>2, <1>4, <1>9, Monotone
    <3> QED
      BY <3>1, <1>2, <1>4, SMT
  <2>2. day # q
    <3> SUFFICES ASSUME day = q PROVE FALSE
      OBVIOUS
    <3>1. q * Day + (h * M + m) < q * Day + r
      BY <1>w, <1>3
    <3> DEFINE x == q * Day
               y == h * M
               z == c * M
    <3>2. x \in Int /\ y \in Int /\ z \in Int
      BY <1>1, <1>2, <1>3, <1>4, SMT
    <3>3. /\ x + (y + m) < x + r /\ r = z + e /\ z + M <= y
      BY <3>1, <1>4, <2>1
    <3> HIDE DEF x, y, z
    <3> QED
      BY <3>2, <3>3, <1>1, <1>2, <1>3, <1>4, SMT
  <2>3. day >= q - 1
    <3> SUFFICES ASSUME day <= q - 2 PROVE FALSE
      BY <1>3
    <3>1. day * Day <= (q - 2) * Day
      BY <1>2, <1>3, Monotone
    <3>2. (q - 2) * Day = q * Day - 2 * Day
      BY <1>2, <1>3, SMT
    <3> DEFINE x == q * Day
               y == h * M
               w == day * Day
    <3>3. x \in Int /\ y \in Int /\ w \in Int
      BY <1>1, <1>2, <1>3, SMT
    <3>4. /\ w <= x - 2 * Day /\ y <= Day - M /\ now = x + r
          /\ now < w + (y + m) + n
      BY <3>1, <3>2, <1>w, <1>3, <1>7
    <3> HIDE DEF x, y, w
    <3> QED
      BY <3>3, <3>4, <1>1, <1>2, <1>3, <1>n, SMT
  <2> QED
    BY <2>2, <2>3, <1>3, <1>8, <1>9 DEF q
<1>10. CASE ~(c < h)
  <2> SUFFICES ASSUME day <= q - 1
               PROVE  n > (HoursADay - 1) * M /\ c = h /\ r < h * M + m
    BY <1>1, <1>3, <1>8, <1>10 DEF q, r, c, h, m, n
  <2>1. day * Day <= (q - 1) * Day
    BY <1>2, <1>3, Monotone
  <2>2. (q - 1) * Day = q * Day - Day
    BY <1>2, <1>3, SMT
  <2> DEFINE x == q * Day
             y == h * M
             z == c * M
             w == day * Day
  <2>3. x \in Int /\ y \in Int /\ z \in Int /\ w \in Int
    BY <1>1, <1>2, <1>3, <1>4, SMT
  <2>4. /\ w <= x - Day /\ now = x + r /\ r = z + e
        /\ now < w + (y + m) + n /\ (HoursADay - 1) * M = Day - M
    BY <2>1, <2>2, <1>w, <1>3, <1>4, <1>6
  <2>5. c > h => y + M <= z
    <3> SUFFICES ASSUME c > h PROVE h * M + M <= c * M
      OBVIOUS
    <3>1. (h + 1) * M <= c * M
      BY <1>1, <1>2, <1>4, Monotone
    <3> QED
      BY <3>1, <1>1, <1>2, SMT
  <2>6. c = h => z = y
    OBVIOUS
  <2> DEFINE top == (HoursADay - 1) * M
  <2>8. z + e < y + m
    <3> HIDE DEF x, y, z, w, top
    <3> QED
      BY <2>3, <2>4, <1>1, <1>2, <1>3, <1>4, <1>n, SMT
  <2>7. c = h
    <3> SUFFICES ASSUME c > h PROVE FALSE
      BY <1>1, <1>2, <1>4, <1>10
    <3>1. y + M <= z
      BY <2>5
    <3> HIDE DEF x, y, z, w, top
    <3> QED
      BY <3>1, <2>3, <2>8, <1>1, <1>2, <1>4, SMT
  <2>9. z = y /\ top = Day - M
    BY <2>6, <2>7, <2>4
  <2>10. n > top /\ r < y + m
    <3> HIDE DEF x, y, z, w, top
    <3> QED
      BY <2>3, <2>4, <2>8, <2>9, <1>1, <1>2, <1>3, <1>4, <1>n, SMT
  <2> QED
    BY <2>7, <2>10
<1> QED
  BY <1>9, <1>10

\* A window the code looks at ends, for now, where it may last to at most: the
\* clock is before the next start.
LEMMA UnderIsIn ==
  ASSUME NEW file \in Files, Validated(file) => Valid(file), NEW now \in Nat,
         IsUnderMaintenance(file, now)
  PROVE  InWindow(file, now)
<1> DEFINE day == DayOfWindow(file, now)
<1>0. Day \in Nat \ {0}
  BY DayIsPositive
<1>1. now \div Day \in Int /\ now \div Day >= 0 /\ now % Day \in 0..(Day - 1)
      /\ now = (now \div Day) * Day + (now % Day)
  <2>1. now \div Day \in Int /\ now % Day \in 0..(Day - 1)
        /\ now = (now \div Day) * Day + (now % Day)
    BY <1>0, Division
  <2>2. now \div Day >= 0
    BY <1>0, SMT
  <2> QED
    BY <2>1, <2>2
<1>2. day \in (-1)..(now \div Day)
  BY <1>1, SMT DEF DayOfWindow
<1>3. /\ file.every = {} \/ (day % Week) \in file.every
      /\ day * Day + DurationToStart(file) < now
      /\ now < day * Day + DurationToStart(file) + file.duration
  BY DEF IsUnderMaintenance
<1>4. now < day * Day + DurationToStart(file) + Lasts(file)
  <2>1. CASE ~(file.duration > Day)
    BY <1>3, <2>1 DEF Lasts
  <2>2. CASE file.duration > Day
    <3>1. ~Validated(file)
      BY <1>0, <2>2, FileInUse, SMT
    <3>2. DurationToStart(file) = 0 /\ Lasts(file) = Day
      BY <2>2, <3>1 DEF DurationToStart, Lasts
    <3>3. day = now \div Day
      <4>1. (now % Day) \div MinutesAnHour >= 0 /\ 0 \div MinutesAnHour = 0
        BY <1>1, CalendarAssumption, SMT
      <4>2. ~((now % Day) \div MinutesAnHour < 0 \div MinutesAnHour)
        <5> DEFINE u == (now % Day) \div MinutesAnHour
        <5>1. u \in Int
          BY <1>1, CalendarAssumption, SMT
        <5> HIDE DEF u
        <5> QED
          BY <4>1, <5>1 DEF u
      <4> QED
        BY <3>2, <4>2 DEF DayOfWindow
    <3> DEFINE x == (now \div Day) * Day
    <3>4. x \in Int /\ now = x + (now % Day)
      BY <1>0, <1>1, SMT
    <3>5. now < x + 0 + Day
      <4> HIDE DEF x
      <4> QED
        BY <1>0, <1>1, <3>4, SMT
    <3> QED
      BY <3>2, <3>3, <3>5
  <2> QED
    BY <2>1, <2>2
<1>5. day \in Int
  BY <1>1, <1>2
<1>6. Opens(file, day) < now /\ now < Closes(file, day)
  BY <1>3, <1>4, <1>5, Boundaries
<1> QED
  BY <1>2, <1>3, <1>6 DEF InWindow

\* An endpoint is under maintenance exactly within the windows of the scheduled
\* days, for every window that may be in use, but for what a window of almost a
\* day loses of its last hour; a window that is not validated starts at midnight
\* (IsUnderMaintenance, and the ValidateAndSetDefaults of the endpoints).
THEOREM MaintenanceIsExact == Configured => UnderMaintenanceMatches
<1> SUFFICES ASSUME Configured, NEW now \in Day..((Week + 1) * Day)
             PROVE  /\ IsUnderMaintenance(config, now) => InWindow(config, now)
                    /\ InWindow(config, now) =>
                         \/ IsUnderMaintenance(config, now)
                         \/ Validated(config) /\ Lost(config, now)
  BY DEF UnderMaintenanceMatches
<1> DEFINE file == config
<1>0. file \in Files /\ (Validated(file) => Valid(file))
  BY DEF Configured
<1> HIDE DEF file
<1>1. now \in Nat /\ now \div Day \in Int
  BY DayIsPositive, CalendarAssumption, SMT
<1>2. IsUnderMaintenance(file, now) => InWindow(file, now)
  BY <1>0, <1>1, UnderIsIn
<1>3. ASSUME InWindow(file, now), ~IsUnderMaintenance(file, now)
      PROVE  Validated(file) /\ Lost(file, now)
  <2>1. PICK day \in (-1)..(now \div Day) :
          /\ file.every = {} \/ (day % Week) \in file.every
          /\ Opens(file, day) < now /\ now < Closes(file, day)
    BY <1>3 DEF InWindow
  <2>2. day \in Int /\ day <= now \div Day
    BY <1>1, SMT
  <2>3. /\ day * Day + DurationToStart(file) < now
        /\ now < day * Day + DurationToStart(file) + Lasts(file)
    BY <1>0, <2>1, <2>2, Boundaries
  <2>4. day # DayOfWindow(file, now)
    <3> SUFFICES ASSUME day = DayOfWindow(file, now) PROVE FALSE
      OBVIOUS
    <3>1. Lasts(file) <= file.duration
      BY <1>0, DayIsPositive, FileInUse, SMT DEF Lasts
    <3> DEFINE x == day * Day
               y == DurationToStart(file)
               n == Lasts(file)
    <3>2. x \in Int /\ y \in Int /\ n \in Int /\ file.duration \in Int
      <4>1. y \in Int
        BY <1>0, FileInUse, CalendarAssumption, SMT
      <4>2. n \in Int /\ file.duration \in Int
        BY <1>0, DayIsPositive, FileInUse, SMT DEF Lasts
      <4> QED
        BY <2>2, <4>1, <4>2, DayIsPositive, SMT
    <3>3. x + y < now /\ now < x + y + n /\ n <= file.duration
      BY <2>3, <3>1
    <3>4. now < x + y + file.duration
      <4> HIDE DEF x, y, n
      <4> QED
        BY <3>2, <3>3, <1>1, SMT
    <3> QED
      BY <1>3, <2>1, <3>3, <3>4 DEF IsUnderMaintenance
  <2>5. /\ Lasts(file) > (HoursADay - 1) * MinutesAnHour
        /\ (now % Day) \div MinutesAnHour = Hour(file)
        /\ now % Day < DurationToStart(file)
    BY <1>0, <1>1, <2>2, <2>3, <2>4, ThatDayOrLost
  <2>6. now % Day \in Nat
    BY <1>1, DayIsPositive, Division, SMT
  <2>7. Validated(file)
    BY <2>5, <2>6, SMT DEF DurationToStart
  <2>8. file.duration > (HoursADay - 1) * MinutesAnHour
    <3>1. Lasts(file) = file.duration
      BY <1>0, <2>7, FileInUse, DayIsPositive, SMT DEF Lasts
    <3> QED
      BY <2>5, <3>1
  <2>9. (now % Day) \div MinutesAnHour = file.start[1]
    BY <2>5, <2>7 DEF Hour
  <2>10. Opens(file, 0) = DurationToStart(file)
    <3>1. /\ Opens(file, 0) = 0 * Day + DurationToStart(file)
          /\ DurationToStart(file) \in Int
      BY <1>0, Boundaries, FileInUse, CalendarAssumption, SMT
    <3> QED
      BY <3>1, DayIsPositive, SMT
  <2> QED
    BY <2>5, <2>7, <2>8, <2>9, <2>10 DEF Lost
<1> QED
  BY <1>2, <1>3 DEF file
=============================================================================
