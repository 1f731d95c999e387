------------------------------ MODULE JsonPath ------------------------------
(***************************************************************************)
(* jsonpath.Eval: what a path finds in a response body.                      *)
(*                                                                           *)
(* A body is a JSON value.  A path is a sequence of keys, the text between   *)
(* the dots: a key has a name and indices, as in name[0][1], and the name is *)
(* empty in [0].  The text of a value that was found, and its length, are    *)
(* data of the value.                                                        *)
(***************************************************************************)
EXTENDS Integers, Sequences, FiniteSetsExt

CONSTANTS
  Values,  \* the JSON values of response bodies, and all that is in them
  Paths    \* the paths conditions ask for

ASSUME ValuesAssumption ==
  \A v \in Values :
    \/ v.type \in {"nil", "scalar", "string"}
    \/ v.type = "array" /\ v.items \in Seq(Values)
    \/ v.type = "object" /\ \A name \in DOMAIN v.fields : v.fields[name] \in Values

\* A key has a name; only the first one may be an index alone.
ASSUME PathsAssumption ==
  \A path \in Paths :
    /\ path \in Seq([name : STRING, indices : Seq(Int)])
    /\ \A n \in DOMAIN path : path[n].name = "" => n = 1 /\ path[n].indices # <<>>

Nil == [type |-> "nil"]                      \* nothing, or null
Scalar(x) == [type |-> "scalar", data |-> x] \* a number or a boolean
Text(x) == [type |-> "string", data |-> x]
Array(items) == [type |-> "array", items |-> items]
Object(fields) == [type |-> "object", fields |-> fields]

\* A type assertion or an index that the runtime refuses.
Panic == [type |-> "panic"]

\* An index leads out of the array: the ones after it are not looked at.
Missing == [type |-> "missing"]

Key(name, indices) == [name |-> name, indices |-> indices]

Found(v) == [outcome |-> "found", value |-> v]
NotFound == [outcome |-> "error"]
Stopped == [outcome |-> "panic"]
-----------------------------------------------------------------------------
ItemsOf(v) == IF v.type = "array" THEN v.items ELSE <<>>

\* Mutant: the length of the array itself is taken for an index of it.
ElementUpToLength(v, i) ==
  IF v.type \in {"panic", "missing"} THEN v
  ELSE IF i <= 0 THEN Panic
  ELSE IF i <= Len(ItemsOf(v)) THEN ItemsOf(v)[i]
  ELSE Missing

\* array[arrayIndex], for an array that is empty when v is none.
Element(v, i) ==
  IF v.type \in {"panic", "missing"} THEN v
  ELSE IF i < 0 THEN Panic
  ELSE IF i < Len(ItemsOf(v)) THEN ItemsOf(v)[i + 1]
  ELSE Missing

\* The values behind the first indices, one after the other.
Elements(v, indices) ==
  LET x[n \in 0..Len(indices)] == IF n = 0 THEN v ELSE Element(x[n - 1], indices[n])
  IN x

Field(v, name) == IF name \in DOMAIN v.fields THEN v.fields[name] ELSE Nil

\* extractValue.  A key with a name and an index asserts that the value is an
\* object; any other key of a value without fields is that value itself.
ExtractValue(key, v) ==
  IF key.indices # <<>>
  THEN IF key.name = "" THEN Elements(v, key.indices)[Len(key.indices)]
       ELSE IF v.type = "nil" THEN Nil
       ELSE IF v.type # "object" THEN Panic
       ELSE IF Field(v, key.name).type = "nil" THEN Nil
       ELSE Elements(Field(v, key.name), key.indices)[Len(key.indices)]
  ELSE IF v.type = "object" THEN Field(v, key.name)
  ELSE v

\* The values on the way, one for each key.
Visited(path, v) ==
  LET x[n \in 0..Len(path)] == IF n = 0 THEN v ELSE ExtractValue(path[n], x[n - 1])
  IN x

\* Only objects are walked through.
EndOfWalk(path, x) == Min({n \in DOMAIN path : n = Len(path) \/ x[n].type # "object"})

\* An array or a scalar is the answer whatever remains of the path.
EndingAt(x, atTheLastKey) ==
  CASE x.type = "panic" -> Stopped
    [] x.type \in {"nil", "missing"} -> NotFound
    [] x.type = "string" -> IF atTheLastKey THEN Found(x) ELSE NotFound
    [] OTHER -> Found(x)

Walk(path, v) ==
  LET x == Visited(path, v)
      end == EndOfWalk(path, x)
  IN EndingAt(x[end], end = Len(path))

\* Eval of a path in a body that is JSON: the empty path finds the body.
Eval(path, body) ==
  IF path = <<>> THEN Found(body) ELSE Walk(path, body)
-----------------------------------------------------------------------------
(* The reference: what a path means. *)

Item(v, i) ==
  IF v.type = "array" /\ i \in 0..(Len(v.items) - 1) THEN v.items[i + 1] ELSE Nil

Items(v, indices) ==
  LET x[n \in 0..Len(indices)] == IF n = 0 THEN v ELSE Item(x[n - 1], indices[n])
  IN x

\* What a key names in a value.
Named(key, v) ==
  LET field == IF key.name = "" THEN v
               ELSE IF v.type = "object" THEN Field(v, key.name) ELSE Nil
  IN Items(field, key.indices)[Len(key.indices)]

\* The values the first keys of a path name, one after the other.
At(path, v) ==
  LET x[n \in 0..Len(path)] == IF n = 0 THEN v ELSE Named(path[n], x[n - 1])
  IN x
=============================================================================
