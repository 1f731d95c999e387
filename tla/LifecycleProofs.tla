---------------------------- MODULE LifecycleProofs ----------------------------
(***************************************************************************)
(* Proofs about Lifecycle, for every set of endpoints and configurations.    *)
(***************************************************************************)
EXTENDS Lifecycle, TLAPS

(***************************************************************************)
(* Every generation is a change of the file that was noticed, which bounds   *)
(* the generations by the changes; a change is noticed once because the time *)
(* of a load is not before that of the file.                                 *)
(***************************************************************************)
Counted ==
  /\ modified <= now
  /\ generation <= edits + 1
  /\ main \in {"stopped", "parsing"} \/ lastFileModTime < modified
       => generation <= edits

Bounded == TypeOK /\ Counted

-----------------------------------------------------------------------------
(* Every action keeps the types and the count of generations. *)
LEMMA BoundedInit == Init => Bounded
<1> SUFFICES ASSUME Init PROVE Bounded
  OBVIOUS
<1>1. MaxTime \in Nat /\ MaxEdits \in Nat
  BY LifecycleAssumption
<1>2. statuses \subseteq Endpoints
  BY DEF Init
<1>3. config \in [Generations -> Contents]
  BY DEF Init
<1>4. monitor \in [Goroutines -> States]
  BY DEF Init, States
<1>5. 1 \in Generations
  BY <1>1 DEF Generations
<1> QED
  <2> /\ content \in Contents /\ modified = 0 /\ now = 0 /\ edits = 0
      /\ main = "initializing" /\ parsed = content /\ generation = 1
      /\ lastFileModTime = 0 /\ cancelled = {} /\ holder = NoOne
      /\ open = FALSE /\ survivors = {} /\ left = {}
    BY Zenon DEF Init
  <2>a. modified \in 0..MaxTime /\ now \in 0..MaxTime /\ edits \in 0..MaxEdits
        /\ lastFileModTime \in 0..MaxTime
    BY <1>1
  <2>b. main \in Phases /\ generation \in Generations /\ cancelled \subseteq Generations
    BY <1>5 DEF Phases
  <2>c. open \in BOOLEAN /\ survivors \subseteq Endpoints /\ left \subseteq Endpoints
    OBVIOUS
  <2>1. TypeOK
    BY <1>2, <1>3, <1>4, <2>a, <2>b, <2>c DEF TypeOK
  <2>2. Counted
    BY DEF Counted
  <2> QED BY <2>1, <2>2 DEF Bounded

LEMMA BoundedMain ==
  ASSUME Bounded, MainStep
  PROVE Bounded'
<1> USE LifecycleAssumption
    DEF LifecycleAssumption, Bounded, TypeOK, Counted, Phases, States, Generations
<1>1. CASE InitializeStorage
  <2>1. \A g \in Goroutines : g[2] \in Endpoints
    BY DEF Goroutines
  <2>2. survivors' \subseteq Endpoints
    BY <1>1, <2>1 DEF InitializeStorage
  <2>3. statuses' \subseteq Endpoints /\ left' \subseteq Endpoints
    BY <1>1 DEF InitializeStorage, Kept
  <2>4. /\ main' = "starting" /\ open' = TRUE
        /\ UNCHANGED <<file, parsed, generation, config, lastFileModTime, cancelled,
                       monitor, holder>>
    BY <1>1 DEF InitializeStorage
  <2> QED
    BY <1>1, <2>2, <2>3, <2>4 DEF InitializeStorage, file
<1>9. CASE InitializeFails
  BY <1>9 DEF InitializeFails, file, storage, history
<1>2. CASE Listen
  BY <1>2 DEF Listen, file, storage, history
<1>3. CASE Stop
  BY <1>3 DEF Stop, file, storage, history, HasLoadedConfigurationBeenModified, Cancelled
<1>4. CASE Read
  BY <1>4 DEF Read, file, storage, history
<1>5. CASE Accept
  BY <1>5 DEF Accept, Valid, file, storage, history
<1>6. CASE Reject
  BY <1>6 DEF Reject, file, storage, history
<1>7. CASE CloseStorage
  BY <1>7 DEF CloseStorage, file, history
<1>8. ASSUME NEW e \in Endpoints, StartMonitor(e)
      PROVE Bounded'
  BY <1>8 DEF StartMonitor, Go, Goroutines, file, listener, storage, history
<1> QED BY <1>1, <1>2, <1>3, <1>4, <1>5, <1>6, <1>7, <1>8, <1>9 DEF MainStep

LEMMA BoundedMonitor ==
  ASSUME Bounded, NEW g \in Goroutines, MonitorStep(g)
  PROVE Bounded'
<1> USE LifecycleAssumption
    DEF LifecycleAssumption, Bounded, TypeOK, Counted, Phases, States, Go, file,
        listener, storage, history
<1>1. g[2] \in Endpoints BY DEF Goroutines
<1>2. CASE Execute(g)
  BY <1>2 DEF Execute
<1>3. CASE Record(g)
  BY <1>1, <1>3 DEF Record, StillHeld
<1>4. CASE SkipExecution(g) \/ Finish(g)
  BY <1>4 DEF SkipExecution, Finish, Unlock
<1>5. CASE Tick(g) \/ Done(g)
  BY <1>5 DEF Tick, Done
<1> QED BY <1>2, <1>3, <1>4, <1>5 DEF MonitorStep

LEMMA BoundedEnvironment ==
  ASSUME Bounded, Second \/ Terminate \/ \E c \in Contents \union {Invalid} : Edit(c)
  PROVE Bounded'
<1> USE LifecycleAssumption
    DEF LifecycleAssumption, Bounded, TypeOK, Counted, Phases, Generations
<1>1. CASE Second
  BY <1>1 DEF Second, listener, storage, history
<1>2. CASE Terminate
  BY <1>2 DEF Terminate, Cancelled, file, storage, history
<1>3. ASSUME NEW c \in Contents \union {Invalid}, Edit(c)
      PROVE Bounded'
  BY <1>3 DEF Edit, listener, storage, history
<1> QED BY <1>1, <1>2, <1>3

LEMMA BoundedAlways == Spec => []Bounded
<1>1. Bounded /\ [Next]_vars => Bounded'
  <2> SUFFICES ASSUME Bounded, [Next]_vars PROVE Bounded'
    OBVIOUS
  <2>1. CASE UNCHANGED vars
    BY <2>1 DEF vars, file, listener, storage, history, Bounded, TypeOK, Counted
  <2> QED
    BY <2>1, BoundedMain, BoundedMonitor, BoundedEnvironment DEF Next
<1> QED BY <1>1, BoundedInit, PTL DEF Spec

(* The process never leaves its types: in particular no reload loads an       *)
(* invalid configuration, and there are no more reloads than edits.           *)
THEOREM TypeCorrect == Spec => []TypeOK
  BY BoundedAlways, PTL DEF Bounded
-----------------------------------------------------------------------------
(***************************************************************************)
(* A goroutine between Lock and Unlock owns the mutex, whatever its           *)
(* generation.                                                               *)
(***************************************************************************)
Owned == \A g \in Goroutines : Busy(g) => holder = g

LEMMA OwnedNext ==
  ASSUME ~DisableMonitoringLock, TypeOK, Owned, [Next]_vars
  PROVE Owned'
<1> USE DEF TypeOK
<1>1. CASE UNCHANGED <<monitor, holder>>
  BY <1>1 DEF Owned, Busy
<1>2. ASSUME NEW g \in Goroutines, MonitorStep(g)
      PROVE Owned'
  <2> USE DEF Owned, Busy, Go, States
  <2>1. NoOne \notin Goroutines
    BY LifecycleAssumption
  <2>2. CASE Execute(g)
    <3>1. \A h \in Goroutines : ~Busy(h)
      BY <2>1, <2>2 DEF Execute
    <3> QED BY <2>2, <3>1 DEF Execute
  <2>3. CASE Record(g)
    BY <2>3 DEF Record, StillHeld
  <2>4. CASE SkipExecution(g)
    BY <2>4 DEF SkipExecution, Unlock
  <2>5. CASE Finish(g)
    BY <2>5 DEF Finish, Unlock
  <2>6. CASE Tick(g) \/ Done(g)
    BY <2>6 DEF Tick, Done
  <2> QED BY <1>2, <2>2, <2>3, <2>4, <2>5, <2>6 DEF MonitorStep
<1>3. ASSUME NEW e \in Endpoints, StartMonitor(e)
      PROVE Owned'
  BY <1>3 DEF StartMonitor, Go, Owned, Busy
<1>4. CASE MainStep
  BY <1>1, <1>3, <1>4
     DEF MainStep, InitializeStorage, InitializeFails, Listen, Stop, Read, Accept, Reject, CloseStorage
<1>5. CASE Terminate \/ Second \/ \E c \in Contents \union {Invalid} : Edit(c)
  BY <1>1, <1>5 DEF Terminate, Second, Edit
<1>6. CASE UNCHANGED vars
  BY <1>1, <1>6 DEF vars
<1> QED BY <1>2, <1>4, <1>5, <1>6 DEF Next

(* One endpoint at a time is evaluated and alerted for, also while the        *)
(* goroutines of several configurations overlap.                              *)
THEOREM EvaluationsExclusive == Spec => []OneAtATime
<1>1. Init => Owned
  <2> SUFFICES ASSUME Init PROVE Owned
    OBVIOUS
  <2>1. monitor = [g \in Goroutines |-> "none"]
    BY Zenon DEF Init
  <2> QED BY <2>1 DEF Owned, Busy
<1>2. Owned => OneAtATime
  BY DEF Owned, OneAtATime
<1>3. CASE DisableMonitoringLock
  BY <1>3, PTL DEF OneAtATime
<1>4. CASE ~DisableMonitoringLock
  <2>1. TypeOK /\ Owned /\ [Next]_vars => Owned'
    BY <1>4, OwnedNext
  <2> QED BY <1>1, <1>2, <2>1, TypeCorrect, PTL DEF Spec
<1> QED BY <1>3, <1>4
-----------------------------------------------------------------------------
(***************************************************************************)
(* Earlier generations are cancelled before the next one exists, goroutines  *)
(* belong to a generation that was started and to an endpoint that its       *)
(* configuration monitors.                                                   *)
(***************************************************************************)
Retired ==
  /\ \A n \in Generations : n < generation => n \in cancelled
  /\ main \in {"stopped", "parsing"} => generation \in cancelled

Started ==
  \A g \in Goroutines :
    Alive(g) => g[1] <= generation /\ g[2] \in config[g[1]].monitored

Reloads == Retired /\ Started

\* A goroutine is one of the configuration in use or of a survivor, a status is
\* one of a configured endpoint, of a survivor or one that was left.
Unmixed ==
  main \in {"starting", "listening", "stopped", "parsing"} =>
    /\ \A g \in Goroutines : Alive(g) => g[1] = generation \/ g[2] \in survivors
    /\ statuses \ config[generation].keys \subseteq survivors \union left

LEMMA ConfigType ==
  ASSUME TypeOK, NEW n \in Generations
  PROVE  config[n].monitored \subseteq config[n].keys
  BY LifecycleAssumption DEF LifecycleAssumption, TypeOK

LEMMA ReloadsNext ==
  ASSUME Bounded, Bounded', Reloads, Unmixed, [Next]_vars
  PROVE  Reloads' /\ Unmixed'
<1> USE DEF Bounded, TypeOK, Reloads, Retired, Started, Unmixed, Alive
<1>a. \A n \in Generations : n \in Nat
  BY LifecycleAssumption DEF Generations
<1>b. \A g \in Goroutines : g[1] \in Generations /\ g[2] \in Endpoints
  BY DEF Goroutines
<1>1. CASE UNCHANGED <<main, generation, config, cancelled, monitor, statuses, history>>
  BY <1>1 DEF history
<1>2. CASE InitializeStorage
  <2>1. UNCHANGED <<generation, config, cancelled, monitor>> /\ main' = "starting"
    BY <1>2 DEF InitializeStorage
  <2>2. \A g \in Goroutines : Alive(g) => g[2] \in survivors'
    BY <1>2 DEF InitializeStorage
  <2>3. statuses' \ config[generation].keys \subseteq left'
    BY <1>2 DEF InitializeStorage, Kept
  <2> QED BY <2>1, <2>2, <2>3
<1>14. CASE InitializeFails
  BY <1>14 DEF InitializeFails, storage, history
<1>3. ASSUME NEW e \in Endpoints, StartMonitor(e)
      PROVE Reloads' /\ Unmixed'
  <2>1. \A g \in Goroutines : g # <<generation, e>> => monitor'[g] = monitor[g]
    BY <1>3 DEF StartMonitor, Go
  <2> QED BY <1>3, <2>1, <1>a, <1>b DEF StartMonitor, listener, storage, history
<1>4. CASE Listen
  BY <1>4 DEF Listen, storage, history
<1>5. CASE Stop
  BY <1>5 DEF Stop, Cancelled, storage, history
<1>6. CASE Read
  BY <1>6 DEF Read, storage, history
<1>7. CASE Accept
  <2>1. /\ main' = "closing" /\ generation' = generation + 1 /\ main = "parsing"
        /\ UNCHANGED <<cancelled, monitor>>
        /\ \A n \in Generations : n # generation + 1 => config'[n] = config[n]
    BY <1>7 DEF Accept
  <2>2. Retired'
    BY <2>1, <1>a
  <2>3. Started'
    <3> SUFFICES ASSUME NEW g \in Goroutines, Alive(g)
                 PROVE g[1] <= generation + 1 /\ g[2] \in config'[g[1]].monitored
      BY <2>1
    <3>1. g[1] \in Generations /\ g[1] \in Nat /\ generation \in Nat
      BY <1>a, <1>b
    <3>2. g[1] <= generation /\ g[2] \in config[g[1]].monitored
      OBVIOUS
    <3> QED BY <2>1, <3>1, <3>2
  <2>4. Unmixed'
    BY <2>1
  <2> QED BY <2>2, <2>3, <2>4
<1>8. CASE Reject
  BY <1>8 DEF Reject, storage, history
<1>9. CASE CloseStorage
  BY <1>9 DEF CloseStorage
<1>10. CASE Terminate
  BY <1>10 DEF Terminate, Cancelled, storage, history
<1>11. CASE Second \/ \E c \in Contents \union {Invalid} : Edit(c)
  BY <1>1, <1>11 DEF Second, Edit, listener, storage, history
<1>12. ASSUME NEW g \in Goroutines, MonitorStep(g)
       PROVE Reloads' /\ Unmixed'
  <2> USE DEF Go, States, listener, storage, history
  <2>1. CASE Execute(g)
    BY <2>1 DEF Execute
  <2>2. CASE Record(g)
    <3>1. /\ UNCHANGED <<main, generation, config, cancelled, survivors, left>>
          /\ monitor' = [monitor EXCEPT ![g] = "alerting"] /\ Alive(g)
      BY <2>2 DEF Record, history
    <3>2. statuses' \subseteq statuses \union {g[2]}
      BY <2>2, Zenon DEF Record
    <3>3. g[2] \in config[g[1]].keys
      BY <3>1, <1>b, ConfigType
    <3>4. Unmixed'
      BY <3>1, <3>2, <3>3
    <3> QED BY <3>1, <3>4
  <2>3. CASE SkipExecution(g)
    BY <2>3 DEF SkipExecution
  <2>4. CASE Finish(g)
    BY <2>4 DEF Finish
  <2>5. CASE Tick(g)
    BY <2>5 DEF Tick
  <2>6. CASE Done(g)
    BY <2>6 DEF Done
  <2> QED BY <1>12, <2>1, <2>2, <2>3, <2>4, <2>5, <2>6 DEF MonitorStep
<1>13. CASE UNCHANGED vars
  BY <1>1, <1>13 DEF vars, listener, storage, history
<1> QED
  BY <1>2, <1>3, <1>4, <1>5, <1>6, <1>7, <1>8, <1>9, <1>10, <1>11, <1>12, <1>13, <1>14
  DEF Next, MainStep

LEMMA ReloadsAlways == Spec => [](Reloads /\ Unmixed)
<1>1. Init => Reloads /\ Unmixed
  <2> SUFFICES ASSUME Init PROVE Reloads /\ Unmixed
    OBVIOUS
  <2>1. main = "initializing" /\ generation = 1
    BY Zenon DEF Init
  <2>2. monitor = [g \in Goroutines |-> "none"]
    BY Zenon DEF Init
  <2>3. \A n \in Generations : ~(n < 1)
    BY LifecycleAssumption DEF LifecycleAssumption, Generations
  <2>4. \A g \in Goroutines : monitor[g] = "none"
    BY <2>2
  <2> QED BY <2>1, <2>3, <2>4 DEF Reloads, Retired, Started, Unmixed, Alive
<1>2. Bounded /\ Bounded' /\ Reloads /\ Unmixed /\ [Next]_vars => Reloads' /\ Unmixed'
  BY ReloadsNext
<1> QED BY <1>1, <1>2, BoundedAlways, PTL DEF Spec

(* A reload leaks no goroutine that would go on for ever beside the new ones. *)
THEOREM OldGenerationsStopped == Spec => []OnlyCurrentGoesOn
<1>1. Bounded /\ Reloads => OnlyCurrentGoesOn
  <2> SUFFICES ASSUME Bounded, Reloads, NEW g \in Goroutines, Alive(g), g[1] # generation
               PROVE g[1] \in cancelled
    BY DEF OnlyCurrentGoesOn
  <2>1. g[1] \in Generations /\ g[1] \in Nat /\ generation \in Nat
    BY LifecycleAssumption DEF Goroutines, Generations, Bounded, TypeOK
  <2> QED BY <2>1 DEF Reloads, Retired, Started
<1> QED BY <1>1, BoundedAlways, ReloadsAlways, PTL

(* Only configured endpoints have statuses, but for those that the start of    *)
(* this configuration failed to delete, and those of which a goroutine of an   *)
(* older configuration outlived the deletion.                                  *)
THEOREM StatusesAreConfigured == Spec => []NoGhosts
<1>1. Unmixed => NoGhosts
  BY DEF Unmixed, NoGhosts
<1> QED BY <1>1, ReloadsAlways, PTL
=============================================================================
