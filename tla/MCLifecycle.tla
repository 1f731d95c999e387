------------------------------ MODULE MCLifecycle ------------------------------
(***************************************************************************)
(* Instances of Lifecycle: an endpoint a, and an external endpoint x with a  *)
(* heartbeat.  The configurations monitor a, or keep it disabled with or     *)
(* without x beside it.                                                      *)
(***************************************************************************)
EXTENDS Lifecycle

CONSTANTS a, x

OnlyA == [keys |-> {a}, monitored |-> {a}]

DisabledAWithX == [keys |-> {a, x}, monitored |-> {x}]

DisableA == {OnlyA, DisabledAWithX}

KeepA == {OnlyA}

PauseA == {OnlyA, [keys |-> {a}, monitored |-> {}]}
=============================================================================
