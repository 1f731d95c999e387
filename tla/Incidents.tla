------------------------------ MODULE Incidents ------------------------------
(***************************************************************************)
(* What the alerting of one Gatus endpoint promises to the people it        *)
(* notifies.  Every alert of the endpoint has at most one incident at a     *)
(* time.  An incident opens with exactly one initial notification, may be   *)
(* followed by reminders while it is open, and once it is closed at most    *)
(* one resolved notification follows it.  Nothing in this specification     *)
(* knows of processes, restarts, thresholds or databases: the alerting      *)
(* code has to look like this from the outside whatever happens to it.      *)
(***************************************************************************)
CONSTANT Alerts      \* the alerts of the endpoint

VARIABLES
  incidents,         \* the alerts whose incident is open
  told               \* the last notification the provider accepted, per alert

Init ==
  /\ incidents = {}
  /\ told = [a \in Alerts |-> "nothing"]

Raise(a) ==
  /\ a \notin incidents
  /\ incidents' = incidents \union {a}
  /\ told' = [told EXCEPT ![a] = "initial"]

Remind(a) ==
  /\ a \in incidents
  /\ told[a] \in {"initial", "reminder"}
  /\ told' = [told EXCEPT ![a] = "reminder"]
  /\ UNCHANGED incidents

Settle(a) ==
  /\ a \in incidents
  /\ incidents' = incidents \ {a}
  /\ UNCHANGED told

Announce(a) ==
  /\ a \notin incidents
  /\ told[a] \in {"initial", "reminder"}
  /\ told' = [told EXCEPT ![a] = "resolved"]
  /\ UNCHANGED incidents

Next == \E a \in Alerts : Raise(a) \/ Remind(a) \/ Settle(a) \/ Announce(a)

Spec == Init /\ [][Next]_<<incidents, told>>
=============================================================================
