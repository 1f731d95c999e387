------------------------------ MODULE MCAlerting ------------------------------
(***************************************************************************)
(* Alert lists for model checking Alerting.                                  *)
(***************************************************************************)
EXTENDS Alerting

Alert(k, f, s, r, resolved) ==
  [enabled |-> TRUE, checksum |-> k, failureThreshold |-> f,
   successThreshold |-> s, minimumReminderInterval |-> r,
   sendOnResolved |-> resolved, provider |-> TRUE]

Disabled(k) == [Alert(k, 1, 1, 0, FALSE) EXCEPT !.enabled = FALSE]

\* An alert that fires at once and reminds, one with higher thresholds.
Pair == <<Alert("a", 1, 2, 1, TRUE), Alert("b", 2, 1, 0, FALSE)>>

\* The operator swaps the two alerts and drops, or re-enables, the second.
Swapped == <<Alert("b", 2, 1, 0, FALSE), Alert("a", 1, 2, 1, TRUE)>>

Dropped == <<Alert("a", 1, 2, 1, TRUE), Disabled("off")>>

\* Two alerts that both remind.
Reminders == <<Alert("a", 1, 1, 1, TRUE), Alert("b", 1, 1, 1, TRUE)>>

NoProvider == [Reminders EXCEPT ![2].provider = FALSE]

\* An alert that opens late and closes late, one that opens and closes soon.
Apart == <<Alert("a", 3, 3, 0, TRUE), Alert("b", 2, 1, 0, TRUE)>>

Edits == {Pair, Swapped, Dropped}
OnlyApart == {Apart}
WithAndWithoutProvider == {Reminders, NoProvider}

AnyPhase == Phases
AnyPhaseButPersist == Phases \ {"persist"}
=============================================================================
