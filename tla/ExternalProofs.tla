--------------------------- MODULE ExternalProofs ---------------------------
(***************************************************************************)
(* Theorems about ExternalEndpoint, for any number of handlers, thresholds    *)
(* and intervals: its types, that the race on Alert.Triggered announces an    *)
(* incident at most once per handler, and that the counters match the stored  *)
(* results and trigger the alert at the threshold, again too once a result    *)
(* that is handled on its own has started a counter afresh.                   *)
(***************************************************************************)
EXTENDS ExternalEndpoint, FiniteSetTheorems, TLAPS

LEMMA BumpType == ASSUME NEW n \in Counters PROVE Bump(n) \in Counters
  BY ExternalAssumption, SMT DEF Bump, Counters

LEMMA MayType == \A ok \in May : ok \in BOOLEAN
  BY DEF May

LEMMA JoinsType ==
  ASSUME TypeOK, NEW h, Joins(h)
  PROVE  mixed' \in BOOLEAN /\ successesOff' \in BOOLEAN /\ failuresOff' \in BOOLEAN
  BY Zenon DEF TypeOK, Joins, Alone

LEMMA DisturbedType ==
  ASSUME TypeOK, NEW b \in BOOLEAN, Disturbed(b)
  PROVE  mixed' \in BOOLEAN /\ successesOff' \in BOOLEAN /\ failuresOff' \in BOOLEAN
  BY Zenon DEF TypeOK, Disturbed

LEMMA InitTypeOK == Init => TypeOK
<1> SUFFICES ASSUME Init PROVE TypeOK
  OBVIOUS
<1>1. 0 \in Counters /\ Interval \in 0..Interval /\ Interval \in 1..Interval /\ 0 \in Nat
  BY ExternalAssumption, SMT DEF Counters
<1>2. step \in [Handlers -> Steps] /\ result \in [Handlers -> BOOLEAN]
      /\ reminding \in [Handlers -> BOOLEAN]
  BY Zenon DEF Init, Steps
<1>3. copy \in [Handlers -> [successes: Counters, failures: Counters]]
  BY <1>1 DEF Init
<1> QED
  BY <1>1, <1>2, <1>3, Zenon DEF Init, TypeOK

\* What a step does, handler by handler.
StepOf(h) ==
  \/ HandleFailure(h) \/ HandleSuccess(h) \/ SkipAlerting(h)
  \/ CopySuccesses(h) \/ CopyFailures(h)
  \/ \E ok \in BOOLEAN : Insert(h, ok) \/ Sent(h, ok)

LEMMA Cases ==
  ASSUME Next
  PROVE  \/ Elapse \/ Beat \/ BeatReceived \/ BeatMissed
         \/ \E p \in Pushers, success \in Outcomes : Push(p, success)
         \/ \E h \in Handlers : StepOf(h)
  BY MayType, Zenon DEF Next, BeatStep, PushStep, Handle, StepOf, Handlers

LEMMA StepTypeOK == ASSUME TypeOK, NEW h \in Handlers, StepOf(h) PROVE TypeOK'
<1> USE DEF Goto
<1>1. CASE HandleFailure(h)
  <2>1. Bump(copy[h].failures) \in Counters /\ 0 \in Counters
    BY BumpType, ExternalAssumption, SMT DEF TypeOK, Counters
  <2>2. copy' \in [Handlers -> [successes: Counters, failures: Counters]]
    BY <1>1, <2>1 DEF HandleFailure, TypeOK
  <2>3. step' \in [Handlers -> Steps] /\ reminding' \in [Handlers -> BOOLEAN]
    BY <1>1, Zenon DEF HandleFailure, TypeOK, Steps
  <2> QED
    BY <1>1, <2>2, <2>3, Zenon DEF HandleFailure, TypeOK, counters, time, history, disturbances
<1>2. CASE HandleSuccess(h)
  <2>1. Bump(copy[h].successes) \in Counters /\ 0 \in Counters
    BY BumpType, ExternalAssumption, SMT DEF TypeOK, Counters
  <2>2. copy' \in [Handlers -> [successes: Counters, failures: Counters]]
    BY <1>2, <2>1 DEF HandleSuccess, TypeOK
  <2>3. step' \in [Handlers -> Steps] /\ initials' \in Nat /\ triggered' \in BOOLEAN
    BY <1>2, Zenon DEF HandleSuccess, TypeOK, Steps
  <2> QED
    BY <1>2, <2>2, <2>3, Zenon DEF HandleSuccess, TypeOK, counters, time, disturbances
<1>3. CASE SkipAlerting(h)
  <2>1. step' \in [Handlers -> Steps]
    BY <1>3, Zenon DEF SkipAlerting, TypeOK, Steps
  <2>2. mixed' \in BOOLEAN /\ successesOff' \in BOOLEAN /\ failuresOff' \in BOOLEAN
    BY <1>3, DisturbedType DEF SkipAlerting
  <2> QED
    BY <1>3, <2>1, <2>2, Zenon DEF SkipAlerting, TypeOK, counters, time
<1>4. CASE CopySuccesses(h)
  <2>1. step' \in [Handlers -> Steps]
    BY <1>4, Zenon DEF CopySuccesses, TypeOK, Steps
  <2>2. successes' \in Counters
    BY <1>4 DEF CopySuccesses, TypeOK
  <2> QED
    BY <1>4, <2>1, <2>2, Zenon DEF CopySuccesses, TypeOK, time, history, disturbances
<1>5. CASE CopyFailures(h)
  <2>1. step' \in [Handlers -> Steps]
    BY <1>5, Zenon DEF CopyFailures, TypeOK, Steps
  <2>2. failures' \in Counters
    BY <1>5 DEF CopyFailures, TypeOK
  <2>3. successesOff' \in BOOLEAN /\ failuresOff' \in BOOLEAN
    BY <1>5, Zenon DEF CopyFailures, TypeOK
  <2> QED
    BY <1>5, <2>1, <2>2, <2>3, Zenon DEF CopyFailures, TypeOK, time
<1>6. ASSUME NEW ok \in BOOLEAN, Insert(h, ok) PROVE TypeOK'
  <2>1. step' \in [Handlers -> Steps] /\ refused' \in BOOLEAN
    BY <1>6, Zenon DEF Insert, TypeOK, Steps
  <2>5. mixed' \in BOOLEAN /\ successesOff' \in BOOLEAN /\ failuresOff' \in BOOLEAN
    <3>1. Disturbed(~ok /\ h = Heartbeat)
      BY <1>6 DEF Insert
    <3>2. (~ok /\ h = Heartbeat) \in BOOLEAN
      OBVIOUS
    <3> QED
      BY <3>1, <3>2, DisturbedType
  <2>2. age' \in 0..Interval
    BY <1>6, ExternalAssumption, SMT DEF Insert, TypeOK
  <2>3. Bump(goodStreak) \in Counters /\ Bump(badStreak) \in Counters /\ 0 \in Counters
    BY BumpType, ExternalAssumption, SMT DEF TypeOK, Counters
  <2>4. goodStreak' \in Counters /\ badStreak' \in Counters
    BY <1>6, <2>3, Zenon DEF Insert, TypeOK
  <2> QED
    BY <1>6, <2>1, <2>2, <2>4, <2>5, Zenon DEF Insert, TypeOK, counters
<1>7. ASSUME NEW ok \in BOOLEAN, Sent(h, ok) PROVE TypeOK'
  <2>1. step' \in [Handlers -> Steps] /\ refused' \in BOOLEAN /\ triggered' \in BOOLEAN
    BY <1>7, Zenon DEF Sent, Marked, TypeOK, Steps
  <2>2. initials' \in {initials + 1, initials}
    BY <1>7, Zenon DEF Sent
  <2>3. initials' \in Nat
    BY <2>2, SMT DEF TypeOK
  <2> QED
    BY <1>7, <2>1, <2>3, Zenon DEF Sent, TypeOK, counters, time, disturbances
<1> QED
  BY <1>1, <1>2, <1>3, <1>4, <1>5, <1>6, <1>7, Zenon DEF StepOf

LEMMA NextTypeOK == TypeOK /\ [Next]_vars => TypeOK'
<1> SUFFICES ASSUME TypeOK, [Next]_vars PROVE TypeOK'
  OBVIOUS
<1> USE DEF Goto
<1>1. CASE Elapse
  <2>1. age' \in 0..Interval
    BY <1>1, ExternalAssumption, SMT DEF Elapse, TypeOK
  <2>2. ticker' \in 1..Interval
    BY <1>1, ExternalAssumption, SMT DEF Elapse, TypeOK
  <2>3. tick' \in BOOLEAN
    BY <1>1, Zenon DEF Elapse, TypeOK
  <2> QED
    BY <1>1, <2>1, <2>2, <2>3, Zenon DEF Elapse, TypeOK, counters, history, disturbances
<1>2. Heartbeat \in Handlers
  BY DEF Handlers
<1>3. ToEndpoint \in [successes: Counters, failures: Counters]
  BY DEF ToEndpoint, TypeOK
<1>4. CASE Beat
  <2>1. step' \in [Handlers -> Steps] /\ tick' \in BOOLEAN
    BY <1>2, <1>4, Zenon DEF Beat, TypeOK, Steps
  <2>3. mixed' \in BOOLEAN /\ successesOff' \in BOOLEAN /\ failuresOff' \in BOOLEAN
    <3>1. Joins(Heartbeat) \/ UNCHANGED disturbances
      BY <1>4, Zenon DEF Beat
    <3> QED
      BY <3>1, JoinsType DEF TypeOK, disturbances
  <2>2. copy' \in [Handlers -> [successes: Counters, failures: Counters]]
    BY <1>2, <1>3, <1>4, Zenon DEF Beat, TypeOK
  <2> QED
    BY <1>4, <2>1, <2>2, <2>3, Zenon DEF Beat, TypeOK, counters
<1>5. CASE BeatReceived
  <2>1. step' \in [Handlers -> Steps]
    BY <1>2, <1>5, Zenon DEF BeatReceived, TypeOK, Steps
  <2> QED
    BY <1>5, <2>1, Zenon DEF BeatReceived, TypeOK, counters, time, history, disturbances
<1>6. CASE BeatMissed
  <2>1. step' \in [Handlers -> Steps] /\ result' \in [Handlers -> BOOLEAN]
    BY <1>2, <1>6, Zenon DEF BeatMissed, TypeOK, Steps
  <2> QED
    BY <1>6, <2>1, Zenon DEF BeatMissed, TypeOK, counters, time, history, disturbances
<1>7. ASSUME NEW p \in Pushers, NEW success \in Outcomes, Push(p, success) PROVE TypeOK'
  <2>1. p \in Handlers /\ success \in BOOLEAN
    BY ExternalAssumption DEF Handlers
  <2>2. step' \in [Handlers -> Steps] /\ result' \in [Handlers -> BOOLEAN]
    BY <1>7, <2>1, Zenon DEF Push, TypeOK, Steps
  <2>4. mixed' \in BOOLEAN /\ successesOff' \in BOOLEAN /\ failuresOff' \in BOOLEAN
    BY <1>7, JoinsType DEF Push
  <2>3. copy' \in [Handlers -> [successes: Counters, failures: Counters]]
    BY <1>3, <1>7, <2>1, Zenon DEF Push, TypeOK
  <2> QED
    BY <1>7, <2>2, <2>3, <2>4, Zenon DEF Push, TypeOK, counters, time
<1>8. CASE UNCHANGED vars
  BY <1>8, Zenon DEF vars, counters, time, history, disturbances, TypeOK
<1> QED
  BY <1>1, <1>4, <1>5, <1>6, <1>7, <1>8, Cases, StepTypeOK, Zenon

\* Every variable keeps its type, the counters their bound (ExternalEndpoint).
LEMMA TypeCorrect == Spec => []TypeOK
  BY InitTypeOK, NextTypeOK, PTL DEF Spec
-----------------------------------------------------------------------------
(* The race on Alert.Triggered *)

\* The handlers that are sending an initial notification.
Announcing == {h \in Handlers : step[h] = "send" /\ ~reminding[h]}

\* Once an incident is announced nobody starts announcing it again: only those
\* who are already sending can still add to the announcements.
Inv ==
  /\ TypeOK
  /\ ~triggered => initials = 0
  /\ initials + Cardinality(Announcing) <= Cardinality(Handlers)

LEMMA HandlersFinite == IsFiniteSet(Handlers) /\ Cardinality(Handlers) \in Nat
<1>1. IsFiniteSet(Handlers)
  BY ExternalAssumption, FS_AddElement DEF Handlers
<1> QED
  BY <1>1, FS_CardinalityType

LEMMA Subsets ==
  ASSUME NEW S \in SUBSET Handlers
  PROVE  IsFiniteSet(S) /\ Cardinality(S) \in Nat /\ Cardinality(S) <= Cardinality(Handlers)
  BY HandlersFinite, FS_Subset, FS_CardinalityType

LEMMA Fewer ==
  ASSUME NEW S \in SUBSET Handlers, NEW T \in SUBSET S
  PROVE  Cardinality(T) <= Cardinality(S)
  BY Subsets, FS_Subset

LEMMA OneFewer ==
  ASSUME NEW S \in SUBSET Handlers, NEW x \in S, NEW T \in SUBSET (S \ {x})
  PROVE  Cardinality(T) + 1 <= Cardinality(S)
<1>1. Cardinality(S \ {x}) = Cardinality(S) - 1
  BY Subsets, FS_RemoveElement
<1>2. S \ {x} \in SUBSET Handlers /\ T \in SUBSET Handlers
  OBVIOUS
<1>3. Cardinality(T) <= Cardinality(S \ {x})
  BY <1>2, Fewer
<1>4. Cardinality(T) \in Nat /\ Cardinality(S) \in Nat
  BY <1>2, Subsets
<1> QED
  BY <1>1, <1>3, <1>4, SMT

\* A step that starts no announcement and counts none keeps Inv.
LEMMA Quiet ==
  ASSUME Inv, TypeOK', Announcing' \subseteq Announcing,
         \/ UNCHANGED <<triggered, initials>>
         \/ initials' = 0
  PROVE  Inv'
<1>1. Announcing \in SUBSET Handlers /\ Announcing' \in SUBSET Handlers
  BY DEF Announcing
<1>2. /\ Cardinality(Announcing') <= Cardinality(Announcing)
      /\ Cardinality(Announcing) \in Nat /\ Cardinality(Announcing') \in Nat
      /\ Cardinality(Announcing') <= Cardinality(Handlers)
  BY <1>1, Fewer, Subsets
<1>3. initials' + Cardinality(Announcing') <= Cardinality(Handlers)
  <2>1. initials \in Nat /\ initials + Cardinality(Announcing) <= Cardinality(Handlers)
    BY DEF Inv, TypeOK
  <2>2. initials' = initials \/ initials' = 0
    OBVIOUS
  <2> QED
    BY <1>2, <2>1, <2>2, HandlersFinite, SMT
<1>4. ~triggered' => initials' = 0
  BY Zenon DEF Inv
<1> QED
  BY <1>3, <1>4, Zenon DEF Inv

LEMMA InitInv == Init => Inv
<1> SUFFICES ASSUME Init PROVE Inv
  OBVIOUS
<1>1. Announcing = {}
  BY Zenon DEF Init, Announcing
<1>2. Cardinality(Announcing) = 0 /\ initials = 0
  BY <1>1, FS_EmptySet DEF Init
<1>3. initials + Cardinality(Announcing) <= Cardinality(Handlers)
  BY <1>2, HandlersFinite, SMT
<1> QED
  BY <1>2, <1>3, InitTypeOK, Zenon DEF Inv

LEMMA StepInv == ASSUME Inv, NEW h \in Handlers, StepOf(h) PROVE Inv'
<1>0. TypeOK /\ TypeOK'
  BY StepTypeOK DEF Inv
<1>1. step \in [Handlers -> Steps] /\ reminding \in [Handlers -> BOOLEAN]
  BY <1>0 DEF TypeOK
<1> USE DEF Goto
<1>2. CASE HandleFailure(h)
  <2>1. CASE triggered
    <3>1. Announcing' \subseteq Announcing
      BY <1>1, <1>2, <2>1, Zenon DEF HandleFailure, Announcing
    <3> QED
      BY <1>0, <1>2, <3>1, Quiet, Zenon DEF HandleFailure, history, disturbances
  <2>2. CASE ~triggered
    <3>1. Announcing' \in SUBSET Handlers
      BY DEF Announcing
    <3>2. Cardinality(Announcing') \in Nat /\ Cardinality(Announcing') <= Cardinality(Handlers)
      BY <3>1, Subsets
    <3>3. initials' = 0
      BY <1>2, <2>2, Zenon DEF HandleFailure, history, disturbances, Inv
    <3>4. initials' + Cardinality(Announcing') <= Cardinality(Handlers)
      BY <3>2, <3>3, HandlersFinite, SMT
    <3> QED
      BY <1>0, <3>3, <3>4, Zenon DEF Inv
  <2> QED
    BY <2>1, <2>2
<1>3. CASE HandleSuccess(h)
  <2>1. Announcing' \subseteq Announcing
    BY <1>1, <1>3, Zenon DEF HandleSuccess, Announcing
  <2>2. UNCHANGED <<triggered, initials>> \/ initials' = 0
    BY <1>3, Zenon DEF HandleSuccess
  <2> QED
    BY <1>0, <2>1, <2>2, Quiet, Zenon
<1>4. CASE SkipAlerting(h) \/ CopySuccesses(h) \/ CopyFailures(h)
  <2>1. Announcing' \subseteq Announcing
    BY <1>1, <1>4, Zenon DEF SkipAlerting, CopySuccesses, CopyFailures, Announcing
  <2>2. UNCHANGED <<triggered, initials>>
    BY <1>4, Zenon DEF SkipAlerting, CopySuccesses, CopyFailures, history, disturbances
  <2> QED
    BY <1>0, <2>1, <2>2, Quiet, Zenon
<1>5. ASSUME NEW ok \in BOOLEAN, Insert(h, ok) PROVE Inv'
  <2>1. Announcing' \subseteq Announcing
    BY <1>1, <1>5, Zenon DEF Insert, Announcing
  <2>2. UNCHANGED <<triggered, initials>>
    BY <1>5, Zenon DEF Insert
  <2> QED
    BY <1>0, <2>1, <2>2, Quiet, Zenon
<1>6. ASSUME NEW ok \in BOOLEAN, Sent(h, ok) PROVE Inv'
  <2>1. CASE ok /\ ~reminding[h]
    <3>1. h \in Announcing /\ Announcing' \subseteq Announcing \ {h}
      BY <1>1, <1>6, <2>1, Zenon DEF Sent, Announcing
    <3>2. Announcing \in SUBSET Handlers /\ Announcing' \in SUBSET Handlers
      BY DEF Announcing
    <3>3. /\ Cardinality(Announcing') + 1 <= Cardinality(Announcing)
          /\ Cardinality(Announcing) \in Nat /\ Cardinality(Announcing') \in Nat
      BY <3>1, <3>2, OneFewer, Subsets
    <3>4. initials' = initials + 1 /\ triggered' = TRUE
      BY <1>6, <2>1, Zenon DEF Sent, Marked
    <3>5. initials \in Nat /\ initials + Cardinality(Announcing) <= Cardinality(Handlers)
      BY <1>0 DEF Inv, TypeOK
    <3>6. initials' + Cardinality(Announcing') <= Cardinality(Handlers)
      <4>1. initials' = initials + 1
        BY <3>4
      <4> QED
        BY <3>3, <4>1, <3>5, HandlersFinite, SMT
    <3> QED
      BY <1>0, <3>4, <3>6, Zenon DEF Inv
  <2>2. CASE ~(ok /\ ~reminding[h])
    <3>1. Announcing' \subseteq Announcing
      BY <1>1, <1>6, Zenon DEF Sent, Announcing
    <3>2. initials' = initials
      BY <1>6, <2>2, Zenon DEF Sent
    <3>3. triggered' = triggered
      <4>1. triggered \in BOOLEAN /\ ok \in BOOLEAN /\ reminding[h] \in BOOLEAN
        BY <1>0, <1>1 DEF TypeOK
      <4>2. Marked(h, ok) = triggered
        BY <2>2, <4>1, Zenon DEF Marked
      <4> QED
        BY <1>6, <4>2, Zenon DEF Sent
    <3> QED
      BY <1>0, <3>1, <3>2, <3>3, Quiet, Zenon
  <2> QED
    BY <2>1, <2>2
<1> QED
  BY <1>2, <1>3, <1>4, <1>5, <1>6, Zenon DEF StepOf

LEMMA NextInv == Inv /\ [Next]_vars => Inv'
<1> SUFFICES ASSUME Inv, [Next]_vars PROVE Inv'
  OBVIOUS
<1>0. TypeOK /\ TypeOK'
  BY NextTypeOK DEF Inv
<1>1. step \in [Handlers -> Steps] /\ Heartbeat \in Handlers
  BY <1>0 DEF TypeOK, Handlers
<1> USE DEF Goto
<1>2. CASE Elapse \/ UNCHANGED vars
  <2>1. UNCHANGED <<step, reminding, triggered, initials>>
    BY <1>2, Zenon DEF Elapse, vars, history, disturbances
  <2>2. Announcing' \subseteq Announcing
    BY <2>1, Zenon DEF Announcing
  <2> QED
    BY <1>0, <2>1, <2>2, Quiet, Zenon
<1>3. CASE Beat \/ BeatReceived \/ BeatMissed
  <2>1. UNCHANGED <<reminding, triggered, initials>>
    BY <1>3, Zenon DEF Beat, BeatReceived, BeatMissed, history, disturbances
  <2>2. Announcing' \subseteq Announcing
    BY <1>1, <1>3, <2>1, Zenon DEF Beat, BeatReceived, BeatMissed, Announcing
  <2> QED
    BY <1>0, <2>1, <2>2, Quiet, Zenon
<1>4. ASSUME NEW p \in Pushers, NEW success \in Outcomes, Push(p, success) PROVE Inv'
  <2>1. UNCHANGED <<reminding, triggered, initials>> /\ p \in Handlers
    BY <1>4, Zenon DEF Push, Handlers
  <2>2. Announcing' \subseteq Announcing
    BY <1>1, <1>4, <2>1, Zenon DEF Push, Announcing
  <2> QED
    BY <1>0, <2>1, <2>2, Quiet, Zenon
<1> QED
  BY <1>2, <1>3, <1>4, Cases, StepInv, Zenon

LEMMA InvImplies == Inv => AnnouncedOncePerHandler
<1> SUFFICES ASSUME Inv PROVE initials <= Cardinality(Handlers)
  BY DEF AnnouncedOncePerHandler
<1>1. Announcing \in SUBSET Handlers
  BY DEF Announcing
<1>2. Cardinality(Announcing) \in Nat /\ initials \in Nat
      /\ initials + Cardinality(Announcing) <= Cardinality(Handlers)
  BY <1>1, Subsets DEF Inv, TypeOK
<1> QED
  BY <1>2, HandlersFinite, SMT

\* However many handlers race on Alert.Triggered, each announces an incident at
\* most once (handleAlertsToTrigger, ToEndpoint).
THEOREM RaceIsBounded == Spec => []AnnouncedOncePerHandler
<1>1. Spec => []Inv
  BY InitInv, NextInv, PTL DEF Spec
<1> QED
  BY <1>1, InvImplies, PTL
-----------------------------------------------------------------------------
(* Counters and streaks *)

\* What holds of a counter that is not off.
Matches ==
  /\ ~successesOff => successes = goodStreak
  /\ ~failuresOff => failures = badStreak

\* What a handler that is alone has in its copy, step by step: the counters as
\* they were before the result it works on, then as they are with it.  A counter
\* that is off stays so, but the one that the result starts afresh is right.
InStep(h) ==
  /\ step[h] \in {"check", "insert"} => Matches /\ copy[h] = ToEndpoint
  /\ step[h] = "handle" /\ result[h] =>
       badStreak = 0 /\ (~successesOff => goodStreak = Bump(copy[h].successes))
  /\ step[h] = "handle" /\ ~result[h] =>
       goodStreak = 0 /\ (~failuresOff => badStreak = Bump(copy[h].failures))
  /\ step[h] \in {"send", "copy successes", "copy failures"} =>
       /\ (result[h] /\ successesOff) \/ copy[h].successes = goodStreak
       /\ (~result[h] /\ failuresOff) \/ copy[h].failures = badStreak
       /\ result[h] => badStreak = 0
  /\ step[h] = "copy failures" => successes = copy[h].successes

\* A failure whose initial notification may still follow.
Underway(h) == ~result[h] /\ (step[h] = "handle" \/ (step[h] = "send" /\ ~reminding[h]))

\* Unless handlers are mixed, at most one is active and its copy is between the
\* counters and the streaks; a streak at the threshold is announced or about to
\* be.  While they are, both counters are off.
Sequential ==
  /\ mixed => successesOff /\ failuresOff
  /\ ~mixed =>
       /\ \A h, g \in Handlers : step[h] # "idle" /\ step[g] # "idle" => h = g
       /\ \A h \in Handlers : InStep(h)
  /\ Quiescent => Matches
  /\ ~failuresOff /\ badStreak >= FailureThreshold /\ ~refused
       => triggered \/ \E h \in Handlers : Underway(h)

LEMMA InitSequential == Init => Sequential
<1> SUFFICES ASSUME Init PROVE Sequential
  OBVIOUS
<1>1. \A h \in Handlers : step[h] = "idle"
  BY DEF Init
<1>2. Matches /\ ~mixed
  BY Zenon DEF Init, Matches
<1>3. ~(badStreak >= FailureThreshold)
  BY ExternalAssumption, SMT DEF Init
<1> QED
  BY <1>1, <1>2, <1>3, Zenon DEF Sequential, InStep

LEMMA MixedSequential ==
  ASSUME mixed', successesOff', failuresOff' PROVE Sequential'
  BY Zenon DEF Sequential, Matches

\* After a step of a handler that is alone only that handler matters.
LEMMA OneHandler ==
  ASSUME TypeOK, NEW h \in Handlers, Alone(h), NEW s \in Steps, Goto(h, s),
         ~mixed', InStep(h)', s = "idle" => Matches',
         ~failuresOff' /\ badStreak' >= FailureThreshold /\ ~refused' => triggered' \/ Underway(h)'
  PROVE  Sequential'
<1>1. step' = [step EXCEPT ![h] = s] /\ step \in [Handlers -> Steps]
  BY DEF Goto, TypeOK
<1>2. step'[h] = s /\ \A g \in Handlers \ {h} : step'[g] = "idle"
  BY <1>1 DEF Alone
<1>3. \A g \in Handlers : InStep(g)'
  BY <1>2, Zenon DEF InStep
<1>4. Quiescent' => s = "idle"
  BY <1>2 DEF Quiescent
<1> QED
  BY <1>2, <1>3, <1>4, Zenon DEF Sequential

LEMMA ActiveAlone ==
  ASSUME Sequential, ~mixed, NEW h \in Handlers, step[h] # "idle"
  PROVE  Alone(h) /\ InStep(h)
  BY DEF Sequential, Alone

\* A step of a handler never un-mixes, and while it is not mixed it only sets a
\* counter right.
LEMMA StepMixes ==
  ASSUME TypeOK, Sequential, NEW h \in Handlers, StepOf(h)
  PROVE  /\ step[h] # "idle"
         /\ mixed' => successesOff' /\ failuresOff'
         /\ ~mixed' => ~mixed /\ ~SkipAlerting(h)
         /\ ~mixed' /\ ~CopyFailures(h) => UNCHANGED <<successesOff, failuresOff>>
<1>0. /\ mixed \in BOOLEAN /\ successesOff \in BOOLEAN /\ failuresOff \in BOOLEAN
      /\ mixed => successesOff /\ failuresOff
  BY DEF TypeOK, Sequential
<1>1. step[h] # "idle"
  BY DEF StepOf, HandleFailure, HandleSuccess, SkipAlerting, CopySuccesses,
         CopyFailures, Insert, Sent
<1>2. ASSUME NEW ok \in BOOLEAN, Insert(h, ok)
      PROVE  /\ mixed' => successesOff' /\ failuresOff'
             /\ ~mixed' => ~mixed /\ UNCHANGED <<successesOff, failuresOff>>
  <2>1. PICK b \in BOOLEAN : Disturbed(b)
    <3>1. Disturbed(~ok /\ h = Heartbeat) /\ (~ok /\ h = Heartbeat) \in BOOLEAN
      BY <1>2 DEF Insert
    <3> QED
      BY <3>1
  <2> QED
    BY <1>0, <2>1, Zenon DEF Disturbed
<1>3. SkipAlerting(h) => mixed' /\ successesOff' /\ failuresOff'
  BY Zenon DEF SkipAlerting, Disturbed
<1>4. ASSUME HandleFailure(h) \/ HandleSuccess(h) \/ CopySuccesses(h) \/ \E ok \in BOOLEAN : Sent(h, ok)
      PROVE  UNCHANGED <<mixed, successesOff, failuresOff>>
  BY <1>4, Zenon DEF HandleFailure, HandleSuccess, CopySuccesses, Sent, history, disturbances
<1>5. CopyFailures(h) => /\ mixed' = mixed
                         /\ successesOff' = (successesOff /\ (mixed \/ result[h]))
                         /\ failuresOff' = (failuresOff /\ (mixed \/ ~result[h]))
  BY Zenon DEF CopyFailures
<1>6. CASE CopyFailures(h)
  <2>1. ~SkipAlerting(h)
    BY <1>6, Zenon DEF CopyFailures, SkipAlerting
  <2> QED
    BY <1>0, <1>1, <1>5, <1>6, <2>1
<1>7. CASE SkipAlerting(h)
  BY <1>1, <1>3, <1>7, Zenon
<1>8. ASSUME ~SkipAlerting(h), ~CopyFailures(h)
      PROVE  /\ mixed' => successesOff' /\ failuresOff'
             /\ ~mixed' => ~mixed /\ UNCHANGED <<successesOff, failuresOff>>
  <2>1. CASE \E ok \in BOOLEAN : Insert(h, ok)
    BY <1>2, <2>1, Zenon
  <2>2. CASE ~\E ok \in BOOLEAN : Insert(h, ok)
    <3>1. HandleFailure(h) \/ HandleSuccess(h) \/ CopySuccesses(h) \/ \E ok \in BOOLEAN : Sent(h, ok)
      BY <1>8, <2>2, Zenon DEF StepOf
    <3>2. UNCHANGED <<mixed, successesOff, failuresOff>>
      BY <1>4, <3>1
    <3> QED
      BY <1>0, <3>2
  <2> QED
    BY <2>1, <2>2
<1> QED
  BY <1>1, <1>6, <1>7, <1>8

LEMMA StepSequential ==
  ASSUME TypeOK, TypeOK', Sequential, NEW h \in Handlers, StepOf(h)
  PROVE  Sequential'
<1> SUFFICES ASSUME ~mixed' PROVE Sequential'
  BY StepMixes, MixedSequential
<1>1. ~mixed /\ step[h] # "idle" /\ ~SkipAlerting(h)
  BY StepMixes
<1>2. Alone(h) /\ InStep(h)
  BY <1>1, ActiveAlone
<1>3. ~failuresOff /\ badStreak >= FailureThreshold /\ ~refused => triggered \/ Underway(h)
  BY <1>1, <1>2 DEF Sequential, Alone, Underway
<1>4. /\ step \in [Handlers -> Steps] /\ result \in [Handlers -> BOOLEAN]
      /\ reminding \in [Handlers -> BOOLEAN]
      /\ copy \in [Handlers -> [successes: Counters, failures: Counters]]
      /\ goodStreak \in Nat /\ badStreak \in Nat /\ CounterCap \in Nat
      /\ FailureThreshold \in Nat \ {0}
      /\ successesOff \in BOOLEAN /\ failuresOff \in BOOLEAN
  BY ExternalAssumption DEF TypeOK, Counters
<1>5. CASE HandleFailure(h)
  <2> DEFINE n == Bump(copy[h].failures)
             s == IF PastFailureThreshold(n) /\ (triggered => MinimumReminderInterval > 0)
                  THEN "send" ELSE "copy successes"
  <2>1. /\ s \in Steps /\ Goto(h, s) /\ step[h] = "handle" /\ ~result[h]
        /\ copy' = [copy EXCEPT ![h] = [successes |-> 0, failures |-> n]]
        /\ reminding' = [reminding EXCEPT ![h] = triggered]
        /\ UNCHANGED <<result, triggered, badStreak, goodStreak, refused, successesOff, failuresOff>>
    BY <1>5, Zenon DEF HandleFailure, history, disturbances, Steps
  <2>2. goodStreak = 0 /\ (~failuresOff => badStreak = n)
    BY <1>2, <2>1, Zenon DEF InStep
  <2>3. /\ step'[h] = s /\ s \in {"send", "copy successes"}
        /\ copy'[h].successes = 0 /\ copy'[h].failures = n
        /\ result'[h] = result[h] /\ reminding'[h] = triggered
    BY <1>4, <2>1 DEF Goto
  <2>4. InStep(h)'
    <3>1. copy'[h].successes = goodStreak'
      BY <2>1, <2>2, <2>3, Zenon
    <3>2. ~failuresOff' => copy'[h].failures = badStreak'
      BY <2>1, <2>2, <2>3, Zenon
    <3> QED
      BY <2>1, <2>3, <3>1, <3>2, Zenon DEF InStep
  <2>5. ~failuresOff' /\ badStreak' >= FailureThreshold /\ ~triggered => s = "send"
    BY <2>1, <2>2 DEF PastFailureThreshold
  <2> HIDE DEF s, n
  <2>6. ~failuresOff' /\ badStreak' >= FailureThreshold => triggered' \/ Underway(h)'
    BY <2>1, <2>3, <2>5, Zenon DEF Underway
  <2> QED
    BY <1>2, <2>1, <2>3, <2>4, <2>6, OneHandler
<1>6. CASE HandleSuccess(h)
  <2> DEFINE n == Bump(copy[h].successes)
  <2>1. /\ "copy successes" \in Steps /\ Goto(h, "copy successes")
        /\ step[h] = "handle" /\ result[h]
        /\ copy' = [copy EXCEPT ![h] = [successes |-> n, failures |-> 0]]
        /\ UNCHANGED <<result, badStreak, goodStreak, successesOff, failuresOff>>
    BY <1>6, Zenon DEF HandleSuccess, disturbances, Steps
  <2>2. badStreak = 0 /\ (~successesOff => goodStreak = n)
    BY <1>2, <2>1, Zenon DEF InStep
  <2>3. /\ step'[h] = "copy successes" /\ result'[h]
        /\ copy'[h].successes = n /\ copy'[h].failures = 0
    BY <1>4, <2>1 DEF Goto
  <2>4. InStep(h)'
    <3>1. copy'[h].failures = badStreak'
      BY <2>1, <2>2, <2>3, Zenon
    <3>2. ~successesOff' => copy'[h].successes = goodStreak'
      BY <2>1, <2>2, <2>3, Zenon
    <3> QED
      BY <2>1, <2>3, <3>1, <3>2, Zenon DEF InStep
  <2> HIDE DEF n
  <2>5. ~(badStreak' >= FailureThreshold)
    <3>1. badStreak' = 0
      BY <2>1, <2>2
    <3> QED
      BY <1>4, <3>1, SMT
  <2> QED
    BY <1>2, <2>1, <2>4, <2>5, OneHandler
<1>8. CASE CopySuccesses(h)
  <2>1. /\ "copy failures" \in Steps /\ Goto(h, "copy failures") /\ step[h] = "copy successes"
        /\ successes' = copy[h].successes
        /\ UNCHANGED <<copy, result, reminding, badStreak, goodStreak, refused, triggered,
                       successesOff, failuresOff>>
    BY <1>8, Zenon DEF CopySuccesses, history, disturbances, Steps
  <2>2. step'[h] = "copy failures"
    BY <1>4, <2>1 DEF Goto
  <2>3. /\ (result[h] /\ successesOff) \/ copy[h].successes = goodStreak
        /\ (~result[h] /\ failuresOff) \/ copy[h].failures = badStreak
        /\ result[h] => badStreak = 0
    BY <1>2, <2>1, Zenon DEF InStep
  <2>4. InStep(h)'
    BY <2>1, <2>2, <2>3, Zenon DEF InStep
  <2>5. ~failuresOff' /\ badStreak' >= FailureThreshold /\ ~refused' => triggered'
    BY <1>3, <2>1 DEF Underway
  <2> QED
    BY <1>2, <2>1, <2>4, <2>5, OneHandler
<1>9. CASE CopyFailures(h)
  <2>1. /\ "idle" \in Steps /\ Goto(h, "idle") /\ step[h] = "copy failures"
        /\ failures' = copy[h].failures
        /\ successesOff' = (successesOff /\ (mixed \/ result[h]))
        /\ failuresOff' = (failuresOff /\ (mixed \/ ~result[h]))
        /\ UNCHANGED <<successes, badStreak, goodStreak, refused, triggered>>
    BY <1>9, Zenon DEF CopyFailures, Steps
  <2>2. /\ (result[h] /\ successesOff) \/ copy[h].successes = goodStreak
        /\ (~result[h] /\ failuresOff) \/ copy[h].failures = badStreak
        /\ result[h] => badStreak = 0
        /\ successes = copy[h].successes
    BY <1>2, <2>1, Zenon DEF InStep
  <2>3. Matches'
    <3>1. ~successesOff' => successes' = goodStreak'
      BY <1>1, <2>1, <2>2, Zenon
    <3>2. ~failuresOff' => failures' = badStreak'
      BY <1>1, <2>1, <2>2, Zenon
    <3> QED
      BY <3>1, <3>2, Zenon DEF Matches
  <2>4. step'[h] = "idle"
    BY <1>4, <2>1 DEF Goto
  <2>5. InStep(h)'
    BY <2>4, Zenon DEF InStep
  <2>6. ~failuresOff' /\ badStreak' >= FailureThreshold /\ ~refused' => triggered'
    <3>1. CASE failuresOff
      <4>1. ~failuresOff' => result[h]
        BY <1>1, <2>1, <3>1, Zenon
      <4>2. ~failuresOff' => badStreak' = 0
        BY <2>1, <2>2, <4>1, Zenon
      <4> QED
        BY <1>4, <4>2, SMT
    <3>2. CASE ~failuresOff
      BY <1>3, <2>1, <3>2 DEF Underway
    <3> QED
      BY <3>1, <3>2
  <2> QED
    BY <1>2, <2>1, <2>3, <2>5, <2>6, OneHandler
<1>10. ASSUME NEW ok \in BOOLEAN, Insert(h, ok) PROVE Sequential'
  <2>0. UNCHANGED <<successesOff, failuresOff>>
    <3>1. ~CopyFailures(h)
      BY <1>10, Zenon DEF Insert, CopyFailures
    <3> QED
      BY <3>1, StepMixes
  <2>1. step[h] = "insert" /\ copy[h] = ToEndpoint /\ Matches
    BY <1>2, <1>10 DEF Insert, InStep
  <2>2. UNCHANGED <<copy, result, reminding, successes, failures, triggered>>
    BY <1>10 DEF Insert, counters
  <2>3. CASE ok
    <3>1. /\ "handle" \in Steps /\ Goto(h, "handle")
          /\ goodStreak' = (IF result[h] THEN Bump(goodStreak) ELSE 0)
          /\ badStreak' = (IF result[h] THEN 0 ELSE Bump(badStreak))
      BY <1>10, <2>3, Zenon DEF Insert, Steps
    <3>2. /\ ~successesOff => copy[h].successes = goodStreak
          /\ ~failuresOff => copy[h].failures = badStreak
          /\ step'[h] = "handle"
      <4>1. copy[h].successes = successes /\ copy[h].failures = failures
        BY <2>1 DEF ToEndpoint
      <4>2. step'[h] = "handle"
        BY <1>4, <3>1 DEF Goto
      <4> QED
        BY <2>1, <4>1, <4>2, Zenon DEF Matches
    <3>3. InStep(h)'
      BY <2>0, <2>2, <3>1, <3>2, Zenon DEF InStep, Bump
    <3>4. badStreak' >= FailureThreshold => Underway(h)'
      BY <1>4, <2>2, <3>1, <3>2 DEF Underway
    <3> QED
      BY <1>2, <3>1, <3>3, <3>4, OneHandler
  <2>4. CASE ~ok
    <3>0. h # Heartbeat
      BY <1>10, <2>4, Zenon DEF Insert, Disturbed
    <3>1. /\ "idle" \in Steps /\ Goto(h, "idle")
          /\ UNCHANGED <<goodStreak, badStreak, refused>>
      BY <1>10, <2>4, <3>0, Zenon DEF Insert, Steps
    <3>2. step'[h] = "idle"
      BY <1>4, <3>1 DEF Goto
    <3>5. Matches'
      BY <2>0, <2>1, <2>2, <3>1, Zenon DEF Matches
    <3>3. InStep(h)'
      BY <3>2, Zenon DEF InStep
    <3>4. ~failuresOff' /\ badStreak' >= FailureThreshold /\ ~refused' => triggered'
      BY <1>3, <2>0, <2>1, <2>2, <3>1 DEF Underway
    <3> QED
      BY <1>2, <3>1, <3>5, <3>3, <3>4, OneHandler
  <2> QED
    BY <2>3, <2>4
<1>11. ASSUME NEW ok \in BOOLEAN, Sent(h, ok) PROVE Sequential'
  <2>1. /\ "copy successes" \in Steps /\ Goto(h, "copy successes") /\ step[h] = "send"
        /\ triggered' = Marked(h, ok) /\ refused' = (refused \/ ~ok)
        /\ UNCHANGED <<copy, result, badStreak, goodStreak, successesOff, failuresOff>>
    BY <1>11, Zenon DEF Sent, Steps, disturbances
  <2>2. step'[h] = "copy successes"
    BY <1>4, <2>1 DEF Goto
  <2>3. InStep(h)'
    BY <1>2, <2>1, <2>2, Zenon DEF InStep
  <2>4. ~failuresOff' /\ badStreak' >= FailureThreshold /\ ~refused' => triggered'
    BY <1>3, <2>1, Zenon DEF Underway, Marked
  <2> QED
    BY <1>2, <2>1, <2>3, <2>4, OneHandler
<1> QED
  BY <1>1, <1>5, <1>6, <1>8, <1>9, <1>10, <1>11, Zenon DEF StepOf

LEMMA NextSequential ==
  ASSUME TypeOK, Sequential, [Next]_vars PROVE Sequential'
<1>0. TypeOK'
  BY NextTypeOK
<1>1. /\ Heartbeat \in Handlers /\ {"check", "insert", "idle"} \subseteq Steps
      /\ step \in [Handlers -> Steps] /\ result \in [Handlers -> BOOLEAN]
      /\ copy \in [Handlers -> [successes: Counters, failures: Counters]]
      /\ mixed \in BOOLEAN /\ successesOff \in BOOLEAN /\ failuresOff \in BOOLEAN
  BY DEF TypeOK, Handlers, Steps
<1>2. ASSUME UNCHANGED <<step, result, copy, reminding, successes, failures, triggered,
                         badStreak, goodStreak, refused, mixed, successesOff, failuresOff>>
      PROVE  Sequential'
  BY <1>2, Zenon DEF Sequential, InStep, Underway, Matches, ToEndpoint, Quiescent
<1>3. CASE Elapse \/ UNCHANGED vars
  BY <1>2, <1>3, Zenon DEF Elapse, vars, history, disturbances, counters
\* A handler that starts alone has the counters in its copy, another one mixes.
<1>4. ASSUME NEW h \in Handlers, NEW s \in {"check", "insert"}, Goto(h, s), Joins(h),
             step[h] = "idle", copy' = [copy EXCEPT ![h] = ToEndpoint],
             UNCHANGED <<successes, failures, badStreak, goodStreak, refused, triggered>>
      PROVE  Sequential'
  <2>1. CASE ~Alone(h)
    BY <2>1, <1>4, MixedSequential, Zenon DEF Joins
  <2>2. CASE Alone(h)
    <3>1. \A g \in Handlers : step[g] = "idle"
      BY <1>4, <2>2 DEF Alone
    <3>2. ~mixed' /\ UNCHANGED <<successesOff, failuresOff>>
      BY <1>1, <1>4, <2>2, Zenon DEF Joins
    <3>3. Matches /\ Matches'
      BY <1>4, <3>1, <3>2, Zenon DEF Sequential, Quiescent, Matches
    <3>4. step'[h] = s /\ copy'[h] = ToEndpoint' /\ s # "idle"
      BY <1>1, <1>4 DEF Goto, ToEndpoint
    <3>5. InStep(h)'
      BY <1>4, <3>3, <3>4, Zenon DEF InStep
    <3>6. ~failuresOff' /\ badStreak' >= FailureThreshold /\ ~refused' => triggered'
      BY <1>4, <3>1, <3>2 DEF Sequential, Underway
    <3>7. s \in Steps
      BY <1>1
    <3> QED
      BY <1>4, <2>2, <3>2, <3>4, <3>5, <3>6, <3>7, OneHandler
  <2> QED
    BY <2>1, <2>2
<1>5. CASE Beat
  <2>1. /\ step[Heartbeat] = "idle"
        /\ UNCHANGED <<result, reminding, successes, failures, badStreak, goodStreak,
                       refused, triggered>>
    BY <1>5 DEF Beat, counters
  <2>2. CASE copy' = [copy EXCEPT ![Heartbeat] = ToEndpoint] /\ Goto(Heartbeat, "check")
             /\ Joins(Heartbeat)
    BY <1>1, <1>4, <2>1, <2>2
  <2>3. CASE UNCHANGED <<copy, step, disturbances>>
    BY <1>2, <2>1, <2>3, Zenon DEF disturbances
  <2> QED
    BY <1>5, <2>2, <2>3, Zenon DEF Beat
<1>6. CASE BeatReceived \/ BeatMissed
  <2>1. /\ step[Heartbeat] = "check"
        /\ UNCHANGED <<copy, successes, failures, badStreak, goodStreak, refused, triggered,
                       mixed, successesOff, failuresOff>>
        /\ (Goto(Heartbeat, "idle") \/ Goto(Heartbeat, "insert"))
    <3>1. UNCHANGED <<copy, counters, history, triggered>> /\ step[Heartbeat] = "check"
      BY <1>6, Zenon DEF BeatReceived, BeatMissed
    <3>2. UNCHANGED <<successes, failures, badStreak, goodStreak, refused, mixed,
                      successesOff, failuresOff>>
      BY <3>1, Zenon DEF counters, history, disturbances
    <3>3. Goto(Heartbeat, "idle") \/ Goto(Heartbeat, "insert")
      BY <1>6, Zenon DEF BeatReceived, BeatMissed
    <3> QED
      BY <3>1, <3>2, <3>3, Zenon
  <2>2. CASE mixed
    BY <2>1, <2>2, MixedSequential, Zenon DEF Sequential
  <2>3. CASE ~mixed
    <3>1. Alone(Heartbeat) /\ InStep(Heartbeat)
      BY <1>1, <2>1, <2>3, ActiveAlone
    <3>2. Matches /\ copy[Heartbeat] = ToEndpoint
      BY <2>1, <3>1 DEF InStep
    <3>3. Matches' /\ copy'[Heartbeat] = ToEndpoint'
      BY <2>1, <3>2 DEF Matches, ToEndpoint
    <3>4. step'[Heartbeat] \in {"idle", "insert"}
      BY <1>1, <2>1 DEF Goto
    <3>5. InStep(Heartbeat)'
      BY <3>3, <3>4, Zenon DEF InStep
    <3>6. ~failuresOff' /\ badStreak' >= FailureThreshold /\ ~refused' => triggered'
      BY <1>1, <2>1, <3>1 DEF Sequential, Underway, Alone
    <3> QED
      BY <1>1, <2>1, <2>3, <3>1, <3>3, <3>5, <3>6, OneHandler
  <2> QED
    BY <2>2, <2>3
<1>7. ASSUME NEW p \in Pushers, NEW success \in Outcomes, Push(p, success) PROVE Sequential'
  <2>1. /\ p \in Handlers /\ step[p] = "idle" /\ Joins(p) /\ Goto(p, "insert")
        /\ copy' = [copy EXCEPT ![p] = ToEndpoint]
        /\ UNCHANGED <<successes, failures, badStreak, goodStreak, refused, triggered>>
    BY <1>7 DEF Push, counters, Handlers
  <2> QED
    BY <1>4, <2>1
<1> QED
  BY <1>0, <1>3, <1>5, <1>6, <1>7, Cases, StepSequential, Zenon

LEMMA AlwaysSequential == Spec => []Sequential
<1>1. TypeOK /\ Sequential /\ [Next]_vars => Sequential'
  BY NextSequential
<1> QED
  BY InitSequential, TypeCorrect, <1>1, PTL DEF Spec

\* The counters match the stored results, and come to match them again: whatever
\* overlapped handlers left in a counter, it is right once a result of the other
\* kind was handled on its own, for any number of handlers, thresholds and
\* results (ToEndpoint and the copy back, CreateExternalEndpointResult).
THEOREM ResultsAreCounted == Spec => []CountersMatchResults
<1>1. Sequential => CountersMatchResults
  BY DEF Sequential, CountersMatchResults, Matches
<1> QED
  BY AlwaysSequential, <1>1, PTL

\* As many stored failures in a row as the threshold leave the alert triggered
\* when every send worked and the failures are counted right: none of them
\* overlapped another result, or a success was handled on its own before them
\* (handleAlertsToTrigger).
THEOREM ThresholdTriggers == Spec => []TriggeredAtThreshold
<1>1. Sequential => TriggeredAtThreshold
  BY DEF Sequential, TriggeredAtThreshold, Quiescent, Underway
<1> QED
  BY AlwaysSequential, <1>1, PTL
=============================================================================
