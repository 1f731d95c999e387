------------------------------- MODULE Lifecycle -------------------------------
(***************************************************************************)
(* The life of the process: main starts the first configuration, and the    *)
(* listener of the configuration file (listenToConfigurationFileChanges)    *)
(* replaces it by the next one whenever the file changes.  watchdog.Monitor *)
(* starts a goroutine per endpoint; Shutdown only cancels their context and *)
(* waits for none of them, so that goroutines of several configurations      *)
(* ("generations") may be alive at once.  They share one mutex and the       *)
(* storage, which is closed and opened again by the listener.                *)
(***************************************************************************)
EXTENDS Integers, FiniteSets

CONSTANTS
  Endpoints,            \* the keys of all endpoints of all configurations
  External,             \* those that are external endpoints with a heartbeat
  Contents,             \* the valid contents of the configuration file
  Invalid,              \* a content that does not load
  NoOne,                \* the owner of a free mutex
  SkipInvalidConfigUpdate, DisableMonitoringLock,
  Persistent,           \* whether the storage survives its Close
  QuietLoads,           \* whether the file rests while and right after it is read
  Signals,              \* whether the process may be told to terminate
  MaxEdits, MaxTime     \* bounds: changes of the file, seconds of the clock

Generations == 1..(MaxEdits + 1)

Goroutines == Generations \X Endpoints

ASSUME LifecycleAssumption ==
  /\ External \subseteq Endpoints
  /\ Contents \subseteq [keys: SUBSET Endpoints, monitored: SUBSET Endpoints]
  /\ \A c \in Contents : c.monitored \subseteq c.keys
  /\ Contents # {} /\ Invalid \notin Contents /\ NoOne \notin Goroutines
  /\ {SkipInvalidConfigUpdate, DisableMonitoringLock, Persistent, QuietLoads,
      Signals} \subseteq BOOLEAN
  /\ MaxEdits \in Nat /\ MaxTime \in Nat

Phases == {"initializing", "starting", "listening", "stopped", "parsing", "closing",
           "exited"}

States == {"none", "ready", "executing", "alerting", "waiting", "done"}

VARIABLES
  content, modified,    \* the file and its modification time
  now,                  \* the clock, in seconds
  edits,                \* bound: the changes of the file so far
  main,                 \* where main, then the listener, is
  parsed,               \* the bytes LoadConfiguration read
  generation,           \* the configuration in use
  config,               \* the content each generation was loaded from
  lastFileModTime,      \* of the configuration in use
  cancelled,            \* the generations whose context is cancelled
  monitor,              \* where each goroutine is
  holder,               \* the owner of monitoringMutex
  open,                 \* whether the storage is open
  statuses              \* the keys that have a status in the storage

\* History, which no step of the code reads.
VARIABLES
  survivors,            \* the endpoints of which an older goroutine lived when
                        \* the statuses of removed endpoints were last deleted
  left                  \* the statuses that this deletion failed to delete

file == <<content, modified, now, edits>>
listener == <<main, parsed, generation, config, lastFileModTime>>
storage == <<open, statuses>>
history == <<survivors, left>>
vars == <<file, listener, cancelled, monitor, holder, storage, history>>
-----------------------------------------------------------------------------
Alive(g) == monitor[g] \notin {"none", "done"}

Busy(g) == monitor[g] \in {"executing", "alerting"}

Go(g, s) == monitor' = [monitor EXCEPT ![g] = s]

\* main has loaded the first configuration.
Init ==
  /\ content \in Contents /\ modified = 0 /\ now = 0 /\ edits = 0
  /\ main = "initializing" /\ parsed = content /\ generation = 1
  /\ config = [g \in Generations |-> content] /\ lastFileModTime = 0
  /\ cancelled = {} /\ monitor = [g \in Goroutines |-> "none"] /\ holder = NoOne
  /\ open = FALSE /\ statuses \in {{}, IF Persistent THEN Endpoints ELSE {}}
  /\ survivors = {} /\ left = {}
-----------------------------------------------------------------------------
(* The environment *)

Second ==
  /\ now < MaxTime
  /\ now' = now + 1
  /\ UNCHANGED <<content, modified, edits, listener, cancelled, monitor, holder,
                 storage, history>>

\* Somebody writes the file.  With QuietLoads nobody does between the read of
\* the file and the end of the second of the UpdateLastFileModTime after it.
Edit(c) ==
  /\ edits < MaxEdits
  /\ QuietLoads => main # "parsing" /\ now > lastFileModTime
  /\ content' = c /\ modified' = now /\ edits' = edits + 1
  /\ UNCHANGED <<now, listener, cancelled, monitor, holder, storage, history>>
-----------------------------------------------------------------------------
(* main and listenToConfigurationFileChanges *)

\* Mutant: the statuses of removed endpoints are kept.
KeptAll(keys) == statuses

\* DeleteAllEndpointStatusesNotInKeys, on a storage that may start empty.
Kept(keys) == IF Persistent THEN statuses \intersect keys ELSE {}

\* The statement that deletes may fail, which is only logged: they all stay.
InitializeStorage ==
  /\ main = "initializing"
  /\ main' = "starting"
  /\ open' = TRUE
  /\ \/ statuses' = Kept(config[generation].keys) /\ left' = {}
     \/ /\ Persistent
        /\ statuses' = statuses /\ left' = statuses \ config[generation].keys
  /\ survivors' = {g[2] : g \in {h \in Goroutines : Alive(h)}}
  /\ UNCHANGED <<file, parsed, generation, config, lastFileModTime, cancelled,
                 monitor, holder>>

\* The database is not there: initializeStorage panics.
InitializeFails ==
  /\ main = "initializing" /\ Persistent
  /\ main' = "exited"
  /\ UNCHANGED <<file, parsed, generation, config, lastFileModTime, cancelled,
                 monitor, holder, storage, history>>

\* Monitor starts a goroutine.  An endpoint is executed at once, a heartbeat
\* waits for its first tick.
StartMonitor(e) ==
  /\ main = "starting"
  /\ e \in config[generation].monitored
  /\ monitor[<<generation, e>>] = "none"
  /\ Go(<<generation, e>>, IF e \in External THEN "waiting" ELSE "ready")
  /\ UNCHANGED <<file, listener, cancelled, holder, storage, history>>

Listen ==
  /\ main = "starting"
  /\ \A e \in config[generation].monitored : monitor[<<generation, e>>] # "none"
  /\ main' = "listening"
  /\ UNCHANGED <<file, parsed, generation, config, lastFileModTime, cancelled,
                 monitor, holder, storage, history>>

\* Mutant: after an invalid configuration the file is not looked at any more.
ReturnedAfterInvalid == lastFileModTime < modified /\ generation \notin cancelled

HasLoadedConfigurationBeenModified == lastFileModTime < modified

\* Mutant: the goroutines of the old configuration are not told to stop.
NotCancelled == cancelled

\* watchdog.Shutdown cancels the context of the latest Monitor.
Cancelled == cancelled \union {generation}

Stop ==
  /\ main = "listening" /\ HasLoadedConfigurationBeenModified
  /\ main' = "stopped"
  /\ cancelled' = Cancelled
  /\ UNCHANGED <<file, parsed, generation, config, lastFileModTime, monitor, holder,
                 storage, history>>

\* A second later, LoadConfiguration reads the file.
Read ==
  /\ main = "stopped"
  /\ main' = "parsing"
  /\ parsed' = content
  /\ UNCHANGED <<file, generation, config, lastFileModTime, cancelled, monitor,
                 holder, storage, history>>

\* Mutant: nothing is validated.
Anything(c) == TRUE

Valid(c) == c # Invalid

\* The time of the load, not that of the file, is what later changes are
\* compared with.
Accept ==
  /\ main = "parsing" /\ Valid(parsed)
  /\ main' = "closing"
  /\ generation' = generation + 1
  /\ config' = [config EXCEPT ![generation + 1] = parsed]
  /\ lastFileModTime' = now
  /\ UNCHANGED <<file, parsed, cancelled, monitor, holder, storage, history>>

\* The listener goes on, or the process panics.
Reject ==
  /\ main = "parsing" /\ ~Valid(parsed)
  /\ IF SkipInvalidConfigUpdate
     THEN main' = "listening" /\ lastFileModTime' = now
     ELSE main' = "exited" /\ UNCHANGED lastFileModTime
  /\ UNCHANGED <<file, parsed, generation, config, cancelled, monitor, holder,
                 storage, history>>

CloseStorage ==
  /\ main = "closing"
  /\ main' = "initializing"
  /\ open' = FALSE
  /\ UNCHANGED <<file, parsed, generation, config, lastFileModTime, cancelled,
                 monitor, holder, statuses, history>>

\* The handler of SIGTERM stops the monitoring and ends the process.
Terminate ==
  /\ Signals /\ main # "exited"
  /\ main' = "exited"
  /\ cancelled' = Cancelled
  /\ UNCHANGED <<file, parsed, generation, config, lastFileModTime, monitor, holder,
                 storage, history>>

MainStep ==
  \/ InitializeStorage \/ InitializeFails \/ Listen \/ Stop \/ Read \/ Accept \/ Reject \/ CloseStorage
  \/ \E e \in Endpoints : StartMonitor(e)
-----------------------------------------------------------------------------
(* watchdog.monitor, monitorExternalEndpointHeartbeat and execute *)

Execute(g) ==
  /\ monitor[g] = "ready"
  /\ Go(g, "executing")
  /\ IF DisableMonitoringLock THEN UNCHANGED holder
     ELSE holder = NoOne /\ holder' = g
  /\ UNCHANGED <<file, listener, cancelled, storage, history>>

\* Mutant: the lock is released while the alerting is still handled.
ReleasedEarly(g) == IF holder = g THEN NoOne ELSE holder

\* The lock is held until the end of execute.
StillHeld(g) == holder

\* The endpoint is evaluated and its result inserted.  Into a closed database
\* nothing is, nor when a statement fails, which is only logged.
Record(g) ==
  /\ monitor[g] = "executing"
  /\ Go(g, "alerting")
  /\ \/ (Persistent => open) /\ statuses' = statuses \union {g[2]}
     \/ Persistent /\ statuses' = statuses
  /\ holder' = StillHeld(g)
  /\ UNCHANGED <<file, listener, cancelled, open, history>>

Unlock(g) == holder' = IF holder = g THEN NoOne ELSE holder

\* No connectivity, or a heartbeat that passes: nothing is recorded.
SkipExecution(g) ==
  /\ monitor[g] = "executing"
  /\ Go(g, "waiting")
  /\ Unlock(g)
  /\ UNCHANGED <<file, listener, cancelled, storage, history>>

Finish(g) ==
  /\ monitor[g] = "alerting"
  /\ Go(g, "waiting")
  /\ Unlock(g)
  /\ UNCHANGED <<file, listener, cancelled, storage, history>>

\* The select takes a tick; when the context is cancelled too, it takes either.
Tick(g) ==
  /\ monitor[g] = "waiting"
  /\ Go(g, "ready")
  /\ UNCHANGED <<file, listener, cancelled, holder, storage, history>>

Done(g) ==
  /\ monitor[g] = "waiting" /\ g[1] \in cancelled
  /\ Go(g, "done")
  /\ UNCHANGED <<file, listener, cancelled, holder, storage, history>>

MonitorStep(g) ==
  Execute(g) \/ Record(g) \/ SkipExecution(g) \/ Finish(g) \/ Tick(g) \/ Done(g)

Next ==
  \/ main # "exited" /\ \E g \in Goroutines : MonitorStep(g)
  \/ main # "exited" /\ MainStep
  \/ Terminate
  \/ Second
  \/ \E c \in Contents \union {Invalid} : Edit(c)

Spec == Init /\ [][Next]_vars

\* The scheduler runs every goroutine that can run, a mutex is not passed on
\* round a waiter for ever (Go's starvation mode), evaluations end by their
\* timeouts, and a select with two ready cases takes each of them some time.
FairSpec ==
  /\ Spec
  /\ WF_vars(main # "exited" /\ MainStep)
  /\ \A g \in Goroutines :
       /\ SF_vars(main # "exited" /\ Execute(g))
       /\ WF_vars(main # "exited" /\ (Record(g) \/ SkipExecution(g)))
       /\ WF_vars(main # "exited" /\ Finish(g))
       /\ WF_vars(main # "exited" /\ Tick(g))
       /\ SF_vars(main # "exited" /\ Done(g))
-----------------------------------------------------------------------------
(* Properties *)

TypeOK ==
  /\ content \in Contents \union {Invalid} /\ parsed \in Contents \union {Invalid}
  /\ modified \in 0..MaxTime /\ now \in 0..MaxTime /\ edits \in 0..MaxEdits
  /\ lastFileModTime \in 0..MaxTime
  /\ main \in Phases /\ generation \in Generations
  /\ config \in [Generations -> Contents]
  /\ cancelled \subseteq Generations
  /\ monitor \in [Goroutines -> States]
  /\ holder \in Goroutines \union {NoOne}
  /\ open \in BOOLEAN /\ statuses \subseteq Endpoints
  /\ survivors \subseteq Endpoints /\ left \subseteq Endpoints

\* With the monitoring lock, one endpoint at a time is evaluated and its alerts
\* are handled, also while the goroutines of two configurations overlap (README:
\* "Gatus only evaluates one endpoint at a time").
OneAtATime ==
  ~DisableMonitoringLock =>
    \A g, h \in Goroutines : Busy(g) /\ Busy(h) => g = h

\* Goroutines of an older configuration have been told to stop: a reload leaks no
\* monitor that would go on for ever beside the new one (stop and Monitor).
OnlyCurrentGoesOn ==
  \A g \in Goroutines : Alive(g) /\ g[1] # generation => g[1] \in cancelled

\* A status of an endpoint that is not configured has one of two reasons, for
\* that very endpoint: the start of this configuration failed to delete it, or
\* a goroutine of an older configuration outlived the deletion and can insert
\* it again (initializeStorage, execute).
NoGhosts ==
  main \in {"starting", "listening", "stopped", "parsing"}
    => statuses \ config[generation].keys \subseteq survivors \union left

\* A file that is left alone with a valid content is served in the end: its
\* endpoints, and only they, are monitored for ever.
FileIsServed ==
  \A c \in Contents : \A e \in c.monitored :
    <>[](content = c /\ main # "exited") =>
      /\ <>[](main = "listening" /\ config[generation] = c /\ generation \notin cancelled)
      /\ []<>(Busy(<<generation, e>>))

\* Goroutines that were told to stop end.
OldGoroutinesEnd ==
  \A g \in Goroutines :
    <>[](g[1] # generation /\ main # "exited") => <>[]~Alive(g)
-----------------------------------------------------------------------------
(* What the documentation says, and the code does not do *)

\* "The old configuration will continue being used." (main.go)
OldConfigurationIsUsed == main = "listening" => generation \notin cancelled
=============================================================================
