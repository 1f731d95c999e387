--------------------------- MODULE ExternalEndpoint ---------------------------
(***************************************************************************)
(* One external endpoint: the API handlers that accept pushed results       *)
(* (api.CreateExternalEndpointResult) and the goroutine that watches for a  *)
(* missing heartbeat (watchdog.monitorExternalEndpointHeartbeat).           *)
(*                                                                           *)
(* Every handler works on its own copy of the counters (ToEndpoint), which   *)
(* it copies back at its end; the alert is shared through a pointer.  The    *)
(* heartbeat goroutine holds monitoringMutex, the API handlers hold nothing. *)
(* The endpoint has one enabled alert whose provider is configured.          *)
(***************************************************************************)
EXTENDS Integers, FiniteSets

CONSTANTS
  Pushers,              \* the API handlers that may be active at once
  Heartbeat,            \* the goroutine of the heartbeat
  HeartbeatEnabled,     \* whether heartbeat.interval is set
  Interval,             \* heartbeat.interval
  FailureThreshold, SuccessThreshold, MinimumReminderInterval,
  Maintenance,          \* the answers of maintenance.IsUnderMaintenance
  Outcomes,             \* the results that are pushed
  Faults,               \* whether sends and the storage may fail
  CounterCap            \* bound: counters saturate here, above the thresholds

Handlers == Pushers \union {Heartbeat}

ASSUME ExternalAssumption ==
  /\ Heartbeat \notin Pushers /\ IsFiniteSet(Pushers)
  /\ HeartbeatEnabled \in BOOLEAN
  /\ Interval \in Nat \ {0} /\ MinimumReminderInterval \in Nat
  /\ CounterCap \in Nat
  /\ FailureThreshold \in 1..CounterCap /\ SuccessThreshold \in 1..CounterCap
  /\ Maintenance \subseteq BOOLEAN /\ Outcomes \subseteq BOOLEAN
  /\ Faults \in BOOLEAN

Counters == 0..CounterCap

Steps == {"idle", "check", "insert", "handle", "send", "copy successes", "copy failures"}

VARIABLES
  step,          \* where each handler is
  result,        \* Success of the result a handler works on
  copy,          \* the counters of the Endpoint made by ToEndpoint
  reminding,     \* whether the notification being sent is a reminder
  successes,     \* ee.NumberOfSuccessesInARow
  failures,      \* ee.NumberOfFailuresInARow
  triggered,     \* Alert.Triggered
  age,           \* age of the newest stored result, saturating at Interval
  ticker,        \* time to the next tick of the heartbeat ticker
  tick           \* whether a tick waits in the channel of the ticker

\* History, which no step of the code reads.
VARIABLES
  badStreak,     \* stored failed results in a row
  goodStreak,    \* stored successful results in a row
  initials,      \* initial notifications since Triggered was last reset
  refused,       \* a send was refused, or a result not handled, since a success
  mixed,         \* since all handlers were idle, two were active at once, or a
                 \* result was handled and not stored
  successesOff,  \* mixed, or a result was stored and not handled, and no failure
                 \* was handled on its own since
  failuresOff    \* the same, and no success was handled on its own since

counters == <<successes, failures>>
time == <<age, ticker, tick>>
disturbances == <<mixed, successesOff, failuresOff>>
history == <<badStreak, goodStreak, initials, refused, disturbances>>
vars == <<step, result, copy, reminding, counters, triggered, time, history>>
-----------------------------------------------------------------------------
Bump(n) == IF n < CounterCap THEN n + 1 ELSE n

May == IF Faults THEN BOOLEAN ELSE {TRUE}

Goto(h, s) == step' = [step EXCEPT ![h] = s]

Alone(h) == \A other \in Handlers \ {h} : step[other] = "idle"

\* Something that makes both counters doubtful.
Disturbed(b) ==
  /\ mixed' = (mixed \/ b)
  /\ successesOff' = (successesOff \/ b) /\ failuresOff' = (failuresOff \/ b)

\* A handler starts with what the ones before it left.
Joins(h) ==
  /\ mixed' = ~Alone(h)
  /\ successesOff' = (successesOff \/ ~Alone(h))
  /\ failuresOff' = (failuresOff \/ ~Alone(h))

Init ==
  /\ step = [h \in Handlers |-> "idle"]
  /\ result = [h \in Handlers |-> FALSE]
  /\ copy = [h \in Handlers |-> [successes |-> 0, failures |-> 0]]
  /\ reminding = [h \in Handlers |-> FALSE]
  /\ successes = 0 /\ failures = 0 /\ triggered = FALSE
  /\ age = Interval /\ ticker = Interval /\ tick = FALSE
  /\ badStreak = 0 /\ goodStreak = 0 /\ initials = 0
  /\ refused = FALSE /\ mixed = FALSE /\ successesOff = FALSE /\ failuresOff = FALSE

\* Mutant: only the failures are handed to the endpoint.
ToEndpointFailures == [successes |-> 0, failures |-> failures]

\* ToEndpoint.  It does not copy LastReminderSent, which the endpoint made
\* from the external endpoint always has at its zero value.
ToEndpoint == [successes |-> successes, failures |-> failures]
-----------------------------------------------------------------------------
(* What starts a handler *)

\* A request with a valid success parameter, token and duration.  Every other
\* request is answered with an error and changes nothing.
Push(p, success) ==
  /\ step[p] = "idle"
  /\ result' = [result EXCEPT ![p] = success]
  /\ copy' = [copy EXCEPT ![p] = ToEndpoint]
  /\ Goto(p, "insert")
  /\ Joins(p)
  /\ UNCHANGED <<reminding, counters, triggered, time, badStreak, goodStreak,
                 initials, refused>>

\* The heartbeat takes the tick and the monitoring lock, and copies the
\* counters before it looks at the storage.  Without connectivity it returns.
Beat ==
  /\ step[Heartbeat] = "idle" /\ tick
  /\ tick' = FALSE
  /\ \/ /\ copy' = [copy EXCEPT ![Heartbeat] = ToEndpoint]
        /\ Goto(Heartbeat, "check")
        /\ Joins(Heartbeat)
     \/ Faults /\ UNCHANGED <<copy, step, disturbances>>
  /\ UNCHANGED <<result, reminding, counters, triggered, age, ticker, badStreak,
                 goodStreak, initials, refused>>

\* Mutant: the result that is exactly one interval old counts too.
ReceivedOldResult == age <= Interval

\* HasEndpointStatusNewerThan(now - interval): any stored result counts.
ReceivedResult == age < Interval

\* The heartbeat succeeds: nothing is recorded.
BeatReceived ==
  /\ step[Heartbeat] = "check" /\ ReceivedResult
  /\ Goto(Heartbeat, "idle")
  /\ UNCHANGED <<result, copy, reminding, counters, triggered, time, history>>

BeatMissed ==
  /\ step[Heartbeat] = "check" /\ ~ReceivedResult
  /\ result' = [result EXCEPT ![Heartbeat] = FALSE]
  /\ Goto(Heartbeat, "insert")
  /\ UNCHANGED <<copy, reminding, counters, triggered, time, history>>

\* store.Insert.  When it fails, the API handler answers 500 and is done while
\* the heartbeat goes on.
Insert(h, ok) ==
  /\ step[h] = "insert"
  /\ age' = IF ok THEN 0 ELSE age
  /\ IF ok \/ h = Heartbeat THEN Goto(h, "handle") ELSE Goto(h, "idle")
  /\ IF ok
     THEN /\ goodStreak' = IF result[h] THEN Bump(goodStreak) ELSE 0
          /\ badStreak' = IF result[h] THEN 0 ELSE Bump(badStreak)
          /\ refused' = (refused /\ ~result[h])
     ELSE UNCHANGED <<goodStreak, badStreak, refused>>
  /\ Disturbed(~ok /\ h = Heartbeat)
  /\ UNCHANGED <<result, copy, reminding, counters, triggered, ticker, tick,
                 initials>>
-----------------------------------------------------------------------------
(* watchdog.HandleAlerting on the copy *)

\* Under maintenance nothing is handled and nothing is copied back.
SkipAlerting(h) ==
  /\ step[h] = "handle"
  /\ TRUE \in Maintenance
  /\ Goto(h, "idle")
  /\ refused' = TRUE /\ Disturbed(TRUE)
  /\ UNCHANGED <<result, copy, reminding, counters, triggered, time, badStreak,
                 goodStreak, initials>>

\* Mutant: the failure that reaches the threshold does not trigger.
FarPastFailureThreshold(n) == n > FailureThreshold

PastFailureThreshold(n) == n >= FailureThreshold

\* handleAlertsToTrigger up to the send: the copy has no last reminder, so that
\* the age of the last one is always above the interval.
HandleFailure(h) ==
  LET n == Bump(copy[h].failures) IN
  /\ step[h] = "handle" /\ FALSE \in Maintenance /\ ~result[h]
  /\ copy' = [copy EXCEPT ![h] = [successes |-> 0, failures |-> n]]
  /\ reminding' = [reminding EXCEPT ![h] = triggered]
  /\ IF PastFailureThreshold(n) /\ (triggered => MinimumReminderInterval > 0)
     THEN Goto(h, "send") ELSE Goto(h, "copy successes")
  /\ UNCHANGED <<result, counters, triggered, time, history>>

\* Mutant: Triggered is not set after the initial notification.
NotMarked(h, ok) == triggered

\* Triggered after the provider answered.
Marked(h, ok) == triggered \/ (ok /\ ~reminding[h])

\* The provider answers.  The alert is marked triggered after the send.
Sent(h, ok) ==
  /\ step[h] = "send"
  /\ triggered' = Marked(h, ok)
  /\ initials' = IF ok /\ ~reminding[h] THEN initials + 1 ELSE initials
  /\ refused' = (refused \/ ~ok)
  /\ Goto(h, "copy successes")
  /\ UNCHANGED <<result, copy, reminding, counters, time, badStreak, goodStreak,
                 disturbances>>

\* handleAlertsToResolve; the resolved notification changes no state.
HandleSuccess(h) ==
  LET n == Bump(copy[h].successes) IN
  /\ step[h] = "handle" /\ FALSE \in Maintenance /\ result[h]
  /\ triggered' = (triggered /\ SuccessThreshold > n)
  /\ initials' = IF triggered /\ SuccessThreshold > n THEN initials ELSE 0
  /\ copy' = [copy EXCEPT ![h] = [successes |-> n, failures |-> 0]]
  /\ Goto(h, "copy successes")
  /\ UNCHANGED <<result, reminding, counters, time, badStreak, goodStreak, refused,
                 disturbances>>

\* The two assignments that copy the counters back.
CopySuccesses(h) ==
  /\ step[h] = "copy successes"
  /\ successes' = copy[h].successes
  /\ Goto(h, "copy failures")
  /\ UNCHANGED <<result, copy, reminding, failures, triggered, time, history>>

CopyFailures(h) ==
  /\ step[h] = "copy failures"
  /\ failures' = copy[h].failures
  /\ Goto(h, "idle")
  /\ successesOff' = (successesOff /\ (mixed \/ result[h]))
  /\ failuresOff' = (failuresOff /\ (mixed \/ ~result[h]))
  /\ UNCHANGED <<result, copy, reminding, successes, triggered, time, badStreak,
                 goodStreak, initials, refused, mixed>>
-----------------------------------------------------------------------------
\* Time passes; the ticker fires at the end of every interval and drops a tick
\* when the previous one still waits.
Elapse ==
  /\ age' = IF age < Interval THEN age + 1 ELSE age
  /\ ticker' = IF ticker = 1 THEN Interval ELSE ticker - 1
  /\ tick' = (tick \/ (HeartbeatEnabled /\ ticker = 1))
  /\ UNCHANGED <<step, result, copy, reminding, counters, triggered, history>>

Handle(h) ==
  \/ HandleFailure(h) \/ HandleSuccess(h) \/ SkipAlerting(h)
  \/ CopySuccesses(h) \/ CopyFailures(h)
  \/ \E ok \in May : Insert(h, ok) \/ Sent(h, ok)

BeatStep == Beat \/ BeatReceived \/ BeatMissed \/ Handle(Heartbeat)

PushStep(p) == Handle(p) \/ \E success \in Outcomes : Push(p, success)

Next == Elapse \/ BeatStep \/ \E p \in Pushers : PushStep(p)

Spec == Init /\ [][Next]_vars

\* Goroutines that can run do run, time passes, and a provider and a storage
\* that are used again and again work in the end.  Nobody has to push.
FairSpec ==
  /\ Spec
  /\ WF_vars(Elapse) /\ WF_vars(BeatStep)
  /\ SF_vars(Beat /\ step' # step)
  /\ SF_vars(Sent(Heartbeat, TRUE)) /\ SF_vars(HandleFailure(Heartbeat))
  /\ \A p \in Pushers : WF_vars(Handle(p))
-----------------------------------------------------------------------------
(* Properties *)

TypeOK ==
  /\ step \in [Handlers -> Steps]
  /\ result \in [Handlers -> BOOLEAN] /\ reminding \in [Handlers -> BOOLEAN]
  /\ copy \in [Handlers -> [successes: Counters, failures: Counters]]
  /\ successes \in Counters /\ failures \in Counters /\ triggered \in BOOLEAN
  /\ age \in 0..Interval /\ ticker \in 1..Interval /\ tick \in BOOLEAN
  /\ badStreak \in Counters /\ goodStreak \in Counters
  /\ initials \in Nat
  /\ refused \in BOOLEAN /\ mixed \in BOOLEAN
  /\ successesOff \in BOOLEAN /\ failuresOff \in BOOLEAN

Quiescent == \A h \in Handlers : step[h] = "idle"

\* The counters are the lengths of the current streak of stored results, and they
\* become so again: what handlers that overlapped, a result that was not stored
\* or a maintenance window left in a counter lasts no longer than until a result
\* of the other kind is handled on its own, which starts that counter afresh
\* (ToEndpoint and the copy back, which have to carry both counters in both
\* directions).
CountersMatchResults ==
  Quiescent => /\ ~successesOff => successes = goodStreak
               /\ ~failuresOff => failures = badStreak

\* When FailureThreshold failures in a row were stored and every send worked, the
\* alert is triggered (README: "Number of failures in a row needed before
\* triggering the alert"), also after handlers overlapped, once a success was
\* handled on its own.
TriggeredAtThreshold ==
  Quiescent /\ ~failuresOff /\ badStreak >= FailureThreshold /\ ~refused => triggered

\* However the handlers interleave, an incident is announced at most once per
\* handler that can be active: the race on Alert.Triggered never repeats itself.
AnnouncedOncePerHandler == initials <= Cardinality(Handlers)

\* When pushes stop for good, the missing heartbeat triggers the alert in the
\* end, although its own failed results count as received results.
SilenceIsReported ==
  (<>[](\A p \in Pushers : step[p] = "idle")) => <>[]triggered
=============================================================================
