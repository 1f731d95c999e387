------------------------------- MODULE Alerting -------------------------------
(***************************************************************************)
(* The alerting of one endpoint: watchdog.HandleAlerting and the triggered   *)
(* alerts it persists, across restarts of the process.                       *)
(*                                                                           *)
(* A result is handled in steps, one per alert and, inside an alert, one per *)
(* effect that leaves the process (the notification, the write to the        *)
(* storage), because the process may stop between any two of them.  A start  *)
(* of the process is main.initializeStorage: it cleans the persisted rows    *)
(* and loads them back into the alerts, one alert at a time.                 *)
(***************************************************************************)
EXTENDS Integers, FiniteSets

CONSTANTS
  N,                    \* number of alerts of the endpoint
  Checksums,            \* values of Alert.Checksum()
  Configs,              \* alert lists the operator may start the process with
  AlertingConfigured,   \* whether the configuration has an alerting section
  StoreFaults,          \* whether an operation of the storage may fail
  CrashPhases,          \* the phases in which the process may stop
  MaxRestarts,          \* bound: how often the process may stop
  CounterCap,           \* bound: counters saturate here, above every threshold
  AgeCap                \* bound: ages saturate here, above every interval

Alerts == 1..N

Counters == 0..CounterCap

Ages == 0..AgeCap

AlertConfig ==
  [enabled: BOOLEAN, checksum: Checksums, failureThreshold: Counters \ {0},
   successThreshold: Counters \ {0}, minimumReminderInterval: Ages,
   sendOnResolved: BOOLEAN, provider: BOOLEAN]

Phases == {"down", "load", "idle", "trigger", "persist", "resolve", "announce"}

\* ValidateAndSetDefaults leaves no threshold below 1, and the caps are above
\* every threshold and interval, so that no comparison is changed by saturation.
ASSUME AlertingAssumption ==
  /\ N \in Nat \ {0}
  /\ CounterCap \in Nat \ {0}
  /\ AgeCap \in Nat
  /\ MaxRestarts \in Nat
  /\ AlertingConfigured \in BOOLEAN
  /\ StoreFaults \in BOOLEAN
  /\ CrashPhases \subseteq Phases
  /\ Configs \subseteq [Alerts -> AlertConfig]
  /\ Configs # {}

\* Alert.Checksum hashes the enabled flag and the thresholds (not the provider
\* override nor the reminder interval): equal checksums mean those are equal.
ASSUME ChecksumAssumption ==
  \A c, d \in Configs : \A i, j \in Alerts :
    c[i].checksum = d[j].checksum =>
      /\ c[i].enabled = d[j].enabled
      /\ c[i].failureThreshold = d[j].failureThreshold
      /\ c[i].successThreshold = d[j].successThreshold
      /\ c[i].sendOnResolved = d[j].sendOnResolved

\* Two alerts of one endpoint may still be configured with the same checksum;
\* the properties of the persisted rows are stated for lists where they are not.
DistinctChecksums ==
  \A c \in Configs : \A i, j \in Alerts :
    c[i].checksum = c[j].checksum => i = j

NoRow == -1          \* no row in endpoint_alerts_triggered

VARIABLES
  phase,             \* where the process is
  cursor,            \* the alert the loop over ep.Alerts is at
  conf,              \* the alerts of the endpoint, ep.Alerts
  successes,         \* ep.NumberOfSuccessesInARow
  failures,          \* ep.NumberOfFailuresInARow
  triggered,         \* Alert.Triggered
  sinceReminder,     \* time.Since(ep.LastReminderSent)
  row,               \* number_of_successes_in_a_row of the persisted row
  restarts           \* how often the process has stopped

\* History, which no step of the code reads.
VARIABLES
  open,              \* alerts with an incident that was notified and not closed
  told,              \* the last notification the provider accepted
  damaged,           \* checksums whose row or memory a fault put out of step
  goodStreak,        \* successful results handled in a row, over all restarts
  badStreak,         \* failed results handled in a row, over all restarts
  inherited          \* counters whose value comes from the storage

memory == <<successes, failures, triggered, sinceReminder>>
history == <<open, told, damaged, goodStreak, badStreak, inherited>>
vars == <<phase, cursor, conf, memory, row, restarts, history>>
-----------------------------------------------------------------------------
Bump(n, cap) == IF n < cap THEN n + 1 ELSE n

Outcomes == IF StoreFaults THEN BOOLEAN ELSE {TRUE}

Enabled(i) == conf[i].enabled

Checksum(i) == conf[i].checksum

EnabledChecksums(c) == {c[i].checksum : i \in {j \in Alerts : c[j].enabled}}

\* The statements on the table endpoint_alerts_triggered; one that fails leaves
\* it as it was.
Upserted(k, ok) == IF ok THEN [row EXCEPT ![k] = successes] ELSE row

\* Mutant: the row of a resolved alert stays.
NeverDeleted(k, ok) == row

Deleted(k, ok) == IF ok THEN [row EXCEPT ![k] = NoRow] ELSE row

\* Mutant: a start deletes the rows of the alerts that are still configured.
CleanedOfAll(K, ok) == [k \in Checksums |-> NoRow]

Cleaned(K, ok) ==
  IF ok THEN [k \in Checksums |-> IF k \in K THEN row[k] ELSE NoRow] ELSE row

\* Mutant: a row is only taken for an alert that has begun to recover.
ExistsWithSuccesses(k, ok) == ok /\ row[k] > 0

Exists(k, ok) == ok /\ row[k] # NoRow

\* The process is not running.
Init ==
  /\ phase = "down" /\ cursor = 1 /\ conf \in Configs
  /\ successes = 0 /\ failures = 0
  /\ triggered = [i \in Alerts |-> FALSE]
  /\ sinceReminder = AgeCap
  /\ row = [c \in Checksums |-> NoRow]
  /\ restarts = 0
  /\ open = {} /\ told = [i \in Alerts |-> "nothing"] /\ damaged = {}
  /\ goodStreak = 0 /\ badStreak = 0 /\ inherited = {}
-----------------------------------------------------------------------------
(* main.initializeStorage for one endpoint *)

\* The alert of the running configuration that alert i of c continues, if any.
Origins(c, i) ==
  {j \in Alerts : /\ Checksum(j) = c[i].checksum
                  /\ Checksum(i) = c[i].checksum => j = i}

\* DeleteAllTriggeredAlertsNotInChecksumsByEndpoint.  The operator may have
\* edited the alerts: an alert whose checksum changed is a new alert.
Start(c, ok) ==
  /\ phase = "down"
  /\ conf' = c
  /\ row' = Cleaned(EnabledChecksums(c), ok)
  /\ open' = {i \in Alerts : c[i].enabled /\ Origins(c, i) \intersect open # {}}
  /\ told' = [i \in Alerts |-> IF Origins(c, i) = {} THEN "nothing"
                               ELSE told[CHOOSE j \in Origins(c, i) : TRUE]]
  /\ damaged' = IF ok THEN damaged \intersect EnabledChecksums(c)
                ELSE damaged \union {k \in Checksums \ EnabledChecksums(c) :
                                       row[k] # NoRow}
  /\ phase' = "load" /\ cursor' = 1
  /\ UNCHANGED <<memory, restarts, goodStreak, badStreak, inherited>>

\* GetTriggeredEndpointAlert, whose error skips the alert.
Load(ok) ==
  /\ phase = "load" /\ cursor <= N
  /\ IF Exists(Checksum(cursor), ok)
     THEN /\ triggered' = [triggered EXCEPT ![cursor] = TRUE]
          /\ successes' = row[Checksum(cursor)]
          /\ failures' = conf[cursor].failureThreshold
          /\ inherited' = {"successes", "failures"}
     ELSE UNCHANGED <<triggered, successes, failures, inherited>>
  /\ damaged' = IF ok \/ row[Checksum(cursor)] = NoRow THEN damaged
                ELSE damaged \union {Checksum(cursor)}
  /\ cursor' = cursor + 1
  /\ UNCHANGED <<phase, conf, sinceReminder, row, restarts, open, told,
                 goodStreak, badStreak>>

Loaded ==
  /\ phase = "load" /\ cursor > N
  /\ phase' = "idle" /\ cursor' = 1
  /\ UNCHANGED <<conf, memory, row, restarts, history>>

\* The process stops, by a crash or because its configuration is reloaded.  A
\* notification whose row was not written yet leaves no trace.
Stop ==
  /\ phase # "down" /\ phase \in CrashPhases
  /\ restarts < MaxRestarts
  /\ restarts' = restarts + 1
  /\ phase' = "down" /\ cursor' = 1
  /\ successes' = 0 /\ failures' = 0 /\ sinceReminder' = AgeCap
  /\ triggered' = [i \in Alerts |-> FALSE]
  /\ damaged' = IF phase = "persist" /\ row[Checksum(cursor)] = NoRow
                THEN damaged \union {Checksum(cursor)} ELSE damaged
  /\ inherited' = {}
  /\ UNCHANGED <<conf, row, open, told, goodStreak, badStreak>>
-----------------------------------------------------------------------------
(* watchdog.handleAlertsToTrigger *)

BeginTrigger ==
  /\ phase = "idle" /\ AlertingConfigured
  /\ successes' = 0
  /\ failures' = Bump(failures, CounterCap)
  /\ phase' = "trigger" /\ cursor' = 1
  /\ goodStreak' = 0 /\ badStreak' = Bump(badStreak, CounterCap)
  /\ inherited' = inherited \ {"successes"}
  /\ UNCHANGED <<conf, triggered, sinceReminder, row, restarts, open, told,
                 damaged>>

\* Mutant: an alert is due at its threshold only, not past it.
AtFailureThreshold(i) ==
  Enabled(i) /\ failures = conf[i].failureThreshold

PastFailureThreshold(i) ==
  Enabled(i) /\ failures >= conf[i].failureThreshold

SendInitial(i) == PastFailureThreshold(i) /\ ~triggered[i]

\* Mutant: a reminder needs an alert that is not triggered.
SendReminderUntriggered(i) ==
  /\ PastFailureThreshold(i) /\ ~triggered[i]
  /\ conf[i].minimumReminderInterval > 0
  /\ sinceReminder >= conf[i].minimumReminderInterval

SendReminder(i) ==
  /\ PastFailureThreshold(i) /\ triggered[i]
  /\ conf[i].minimumReminderInterval > 0
  /\ sinceReminder >= conf[i].minimumReminderInterval

Due(i) == SendInitial(i) \/ SendReminder(i)

\* Nothing is due, or the type of the alert has no configured provider.
SkipTrigger ==
  /\ phase = "trigger" /\ cursor <= N
  /\ ~(Due(cursor) /\ conf[cursor].provider)
  /\ cursor' = cursor + 1
  /\ UNCHANGED <<phase, conf, memory, row, restarts, history>>

\* Send returned an error: the alert is left as it is, so that the next failed
\* result tries again.
SendFails ==
  /\ phase = "trigger" /\ cursor <= N
  /\ Due(cursor) /\ conf[cursor].provider
  /\ cursor' = cursor + 1
  /\ UNCHANGED <<phase, conf, memory, row, restarts, history>>

\* The provider accepted the notification.
Notify(i) ==
  /\ phase = "trigger" /\ cursor = i
  /\ Due(i) /\ conf[i].provider
  /\ triggered' = [triggered EXCEPT ![i] = TRUE]
  /\ sinceReminder' = 0
  /\ phase' = "persist"
  /\ open' = open \union {i}
  /\ told' = [told EXCEPT ![i] = IF triggered[i] THEN "reminder" ELSE "initial"]
  /\ UNCHANGED <<cursor, conf, successes, failures, row, restarts, damaged,
                 goodStreak, badStreak, inherited>>

\* UpsertTriggeredEndpointAlert, whose error is only logged.
Persist(ok) ==
  /\ phase = "persist"
  /\ row' = Upserted(Checksum(cursor), ok)
  /\ damaged' = IF ok THEN damaged \ {Checksum(cursor)}
                ELSE damaged \union {Checksum(cursor)}
  /\ phase' = "trigger" /\ cursor' = cursor + 1
  /\ UNCHANGED <<conf, memory, restarts, open, told, goodStreak, badStreak,
                 inherited>>

TriggerDone ==
  /\ phase = "trigger" /\ cursor > N
  /\ phase' = "idle" /\ cursor' = 1
  /\ UNCHANGED <<conf, memory, row, restarts, history>>
-----------------------------------------------------------------------------
(* watchdog.handleAlertsToResolve *)

BeginResolve ==
  /\ phase = "idle" /\ AlertingConfigured
  /\ successes' = Bump(successes, CounterCap)
  /\ phase' = "resolve" /\ cursor' = 1
  /\ goodStreak' = Bump(goodStreak, CounterCap) /\ badStreak' = 0
  /\ UNCHANGED <<conf, failures, triggered, sinceReminder, row, restarts, open,
                 told, damaged, inherited>>

\* Mutant: one success fewer is enough.
IsStillFarBelowSuccessThreshold(i) == conf[i].successThreshold > successes + 1

IsStillBelowSuccessThreshold(i) == conf[i].successThreshold > successes

SkipResolve ==
  /\ phase = "resolve" /\ cursor <= N
  /\ ~(Enabled(cursor) /\ triggered[cursor])
  /\ cursor' = cursor + 1
  /\ UNCHANGED <<phase, conf, memory, row, restarts, history>>

\* Below the threshold, the number of successes is persisted.
PersistSuccesses(ok) ==
  /\ phase = "resolve" /\ cursor <= N
  /\ Enabled(cursor) /\ triggered[cursor]
  /\ IsStillBelowSuccessThreshold(cursor)
  /\ row' = Upserted(Checksum(cursor), ok)
  /\ damaged' = IF ok /\ cursor \in open THEN damaged \ {Checksum(cursor)}
                ELSE damaged
  /\ cursor' = cursor + 1
  /\ UNCHANGED <<phase, conf, memory, restarts, open, told, goodStreak,
                 badStreak, inherited>>

\* Triggered is reset and the row deleted before the provider is told; the
\* error of DeleteTriggeredEndpointAlert is only logged.
Resolve(ok) ==
  /\ phase = "resolve" /\ cursor <= N
  /\ Enabled(cursor) /\ triggered[cursor]
  /\ ~IsStillBelowSuccessThreshold(cursor)
  /\ triggered' = [triggered EXCEPT ![cursor] = FALSE]
  /\ row' = Deleted(Checksum(cursor), ok)
  /\ phase' = "announce"
  /\ open' = open \ {cursor}
  /\ damaged' = IF ok THEN damaged \ {Checksum(cursor)}
                ELSE damaged \union {Checksum(cursor)}
  /\ UNCHANGED <<cursor, conf, successes, failures, sinceReminder, restarts,
                 told, goodStreak, badStreak, inherited>>

\* Mutant: the alert stays triggered until the provider accepts the message.
AnnounceOrReopen(ok) ==
  /\ phase = "announce"
  /\ triggered' = [triggered EXCEPT ![cursor] = ~ok]
  /\ phase' = "resolve" /\ cursor' = cursor + 1
  /\ UNCHANGED <<conf, successes, failures, sinceReminder, row, restarts, history>>

\* The resolved notification is sent once; an error of the provider is logged.
Announce(ok) ==
  /\ phase = "announce"
  /\ told' = IF ok /\ conf[cursor].sendOnResolved /\ conf[cursor].provider
             THEN [told EXCEPT ![cursor] = "resolved"] ELSE told
  /\ phase' = "resolve" /\ cursor' = cursor + 1
  /\ UNCHANGED <<conf, memory, row, restarts, open, damaged, goodStreak,
                 badStreak, inherited>>

ResolveDone ==
  /\ phase = "resolve" /\ cursor > N
  /\ failures' = 0
  /\ phase' = "idle" /\ cursor' = 1
  /\ inherited' = inherited \ {"failures"}
  /\ UNCHANGED <<conf, successes, triggered, sinceReminder, row, restarts, open,
                 told, damaged, goodStreak, badStreak>>
-----------------------------------------------------------------------------
\* Time passes between two results.
Tick ==
  /\ phase = "idle" /\ sinceReminder < AgeCap
  /\ sinceReminder' = Bump(sinceReminder, AgeCap)
  /\ UNCHANGED <<phase, cursor, conf, successes, failures, triggered, row,
                 restarts, open, told, damaged, goodStreak, badStreak, inherited>>

Trigger ==
  \/ BeginTrigger \/ SkipTrigger \/ SendFails \/ TriggerDone
  \/ \E i \in Alerts : Notify(i)
  \/ \E ok \in Outcomes : Persist(ok)

Settle ==
  \/ BeginResolve \/ SkipResolve \/ ResolveDone
  \/ \E ok \in Outcomes : PersistSuccesses(ok) \/ Resolve(ok)
  \/ \E ok \in BOOLEAN : Announce(ok)

Initialize ==
  \/ Loaded
  \/ \E ok \in Outcomes : Load(ok) \/ \E c \in Configs : Start(c, ok)

Next == Trigger \/ Settle \/ Initialize \/ Stop \/ Tick

Spec == Init /\ [][Next]_vars

\* The monitoring loop keeps delivering results, the handler runs to its end
\* and a process that stopped is started again.  A provider that is tried again
\* and again accepts a notification in the end, and time passes.
Progress == Trigger \/ Settle \/ Initialize

FairSpec ==
  /\ Spec
  /\ WF_vars(Progress)
  /\ SF_vars(Tick)
  /\ \A i \in Alerts : SF_vars(Notify(i))
-----------------------------------------------------------------------------
(* Properties *)

TypeOK ==
  /\ phase \in Phases /\ cursor \in 1..(N + 1)
  /\ phase \in {"persist", "announce"} => cursor \in Alerts
  /\ conf \in Configs
  /\ successes \in Counters /\ failures \in Counters
  /\ triggered \in [Alerts -> BOOLEAN]
  /\ sinceReminder \in Ages
  /\ row \in [Checksums -> Counters \union {NoRow}]
  /\ restarts \in 0..MaxRestarts
  /\ open \subseteq Alerts /\ damaged \subseteq Checksums
  /\ told \in [Alerts -> {"nothing", "initial", "reminder", "resolved"}]
  /\ goodStreak \in Counters /\ badStreak \in Counters
  /\ inherited \subseteq {"successes", "failures"}

\* The steps that send an initial notification or close an incident.
Initially == phase = "trigger" /\ phase' = "persist" /\ ~triggered[cursor]
Resolving == phase = "resolve" /\ phase' = "announce"

\* Unless a fault put it out of step, the table of triggered alerts holds a row
\* for exactly the alerts whose incident was notified and is not closed, at
\* every moment at which the process may stop; the only exception is the alert
\* that was just notified and whose row is about to be written
\* (UpsertTriggeredEndpointAlert, DeleteTriggeredEndpointAlert and the clean-up
\* of initializeStorage, over edits of the configuration).
RowsMatchIncidents ==
  \A k \in Checksums \ damaged :
    \/ phase = "persist" /\ Checksum(cursor) = k
    \/ row[k] # NoRow <=> \E i \in open : Checksum(i) = k

\* The alerts the running process believes triggered are those with an open
\* incident, after any number of restarts (Alert.Triggered and its reload).
MemoryMatchesIncidents ==
  \A i \in Alerts :
    \/ phase = "down"
    \/ phase = "load" /\ i >= cursor
    \/ Checksum(i) \in damaged
    \/ triggered[i] <=> i \in open

\* No initial notification goes out for an incident that is already open, and
\* no incident is resolved that was never notified, also when the process stops
\* between the notification, the write to the storage and the next result: only
\* a fault of the storage, or a stop in the window before the write, makes the
\* process say something twice (Alert.Triggered is there to prevent that).
NoDuplicateNotification ==
  [][/\ Initially /\ Checksum(cursor) \notin damaged => cursor \notin open
     /\ Resolving /\ Checksum(cursor) \notin damaged => cursor \in open]_vars

\* An alert is triggered only after FailureThreshold failures in a row and
\* resolved only after SuccessThreshold successes in a row, as long as the
\* counters were counted and not loaded from the storage: no path through the
\* two handlers leaves a stale count behind.
CountedThresholds ==
  [][/\ Initially /\ "failures" \notin inherited
       => badStreak >= conf[cursor].failureThreshold
     /\ Resolving /\ "successes" \notin inherited
       => goodStreak >= conf[cursor].successThreshold]_vars

\* An endpoint that keeps failing has all of its alerts triggered in the end,
\* although sends fail and the process restarts (the lazy retry documented on
\* Alert.Triggered).
UnhealthyIsReported ==
  <>[](badStreak > 0)
    => <>[](\A i \in Alerts : Enabled(i) /\ conf[i].provider => triggered[i])

\* An endpoint that stays healthy has no triggered alert in the end, even when
\* the provider refuses the resolved notification (handleAlertsToResolve).
HealthyIsSettled ==
  <>[](goodStreak > 0) => <>[](\A i \in Alerts : ~triggered[i])

HasReminder(i) ==
  /\ Enabled(i) /\ conf[i].provider
  /\ conf[i].minimumReminderInterval > 0

\* While an endpoint keeps failing, reminders keep going out for it.
RemindersContinue ==
  <>[](badStreak > 0 /\ \E i \in Alerts : HasReminder(i))
    => []<><<\E i \in Alerts : Notify(i)>>_vars

\* Seen from outside the process, through restarts, the alerts open, remind and
\* close their incidents as Incidents promises.
Known ==
  {i \in Alerts : IF phase = "down" \/ (phase = "load" /\ i >= cursor)
                  THEN row[Checksum(i)] # NoRow ELSE triggered[i]}

Promise == INSTANCE Incidents WITH incidents <- Known

ImplementsIncidents == Promise!Spec
-----------------------------------------------------------------------------
(* What the documentation says, and the code does not do *)

\* README: "Number of failures in a row needed before triggering the alert."
TriggeredAfterFailureThreshold ==
  [][Initially => badStreak >= conf[cursor].failureThreshold]_vars
=============================================================================
