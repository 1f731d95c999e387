# A verification project for Gatus

Gatus is a health dashboard: it evaluates endpoints at an interval, accepts
results that are pushed to it, stores what it observed, and notifies people
when an endpoint becomes unhealthy or healthy again.  This directory holds TLA+
models of the parts of its core whose behaviour depends on interleavings,
failures and restarts, and of the algorithms that decide whether an endpoint is
healthy, the TLC runs that check them on small instances, and
TLAPS proofs of the properties that matter most for every instance.

Paths below are relative to `src/garus-app/source/`.

## 1. The system

| Part | State it keeps | Operations | Used by / uses |
|---|---|---|---|
| Process (`main.go`) | the loaded configuration | `start`, `stop`, `initializeStorage`, `listenToConfigurationFileChanges` | starts and stops everything else |
| Configuration (`config/`) | path and time of the last load | load, validate, "has it been modified" | main |
| Watchdog (`watchdog/watchdog.go`) | one context, one mutex, a goroutine and a ticker per endpoint | `Monitor`, `execute`, heartbeat, `Shutdown` | evaluation, storage, alerting |
| Alerting (`watchdog/alerting.go`, `alerting/alert`) | per endpoint: two streak counters, time of the last reminder; per alert: `Triggered`, `ResolveKey` | `handleAlertsToTrigger`, `handleAlertsToResolve` | providers, triggered alerts in the storage |
| External endpoints (`api/external_endpoint.go`) | counters on the external endpoint, alerts shared by pointer | push a result, heartbeat | storage, alerting |
| Storage (`storage/store/`) | results, events, uptime entries, triggered alerts; a write-through cache | insert, read pages, read uptime, delete, triggered alerts | everything |
| Evaluation (`config/endpoint/`) | none beyond the result | `EvaluateHealth`, conditions, JSON paths | watchdog; client |
| Maintenance windows (`config/maintenance`) | start, duration, days | `IsUnderMaintenance` | watchdog, API |
| Connectivity checker (`config/connectivity`) | time and answer of the last check | `IsConnected` | watchdog |
| Providers (`alerting/provider/`) | some keep a resolve key on the alert | `Send` | alerting |
| API (`api/`), web server (`controller/`) | a ten-second cache of the status list | statuses, badges, charts, pushes | storage |
| Clients (`client/`), metrics, security | cache of domain expirations; registered collectors; sessions | requests, publish, authenticate | evaluation, API |

How they interact.  Every monitored endpoint has a goroutine; the goroutines
take turns through `monitoringMutex`, unless it is disabled.  An execution
evaluates the endpoint, inserts the result and, outside maintenance, calls
`HandleAlerting`, all under the mutex.  API handlers run beside them *without*
the mutex and call the same `HandleAlerting`.  Triggered alerts are written to
the storage as they happen and read back when the process starts, which is also
what a reload of the configuration amounts to.  A reload cancels the goroutines
without waiting for them.

What is hard about it:

* the process can stop between a notification, the write that records it and
  the assignments around it;
* notifications and storage operations can fail, and most failures are only
  logged;
* API handlers, heartbeats and the goroutines of several configurations share
  alerts, counters and the storage;
* thresholds count results *in a row*, over restarts that restore only part of
  the counters;
* tables and caches have limits that are enforced lazily and refreshed before a
  commit.

What makes each part correct is, in short: an incident is announced once,
closed once and survives restarts (alerting); every accepted result counts, and
silence is noticed (external endpoints); one endpoint at a time, nothing of an
old configuration goes on, and the file that is there is the one that is served
(process and watchdog); what is read is what was written, within the limits
(storage); pure functions agree with their definition (evaluation, maintenance,
paging).

## 2. Modules

| Module | What it is |
|---|---|
| `Incidents` | abstract specification: what one endpoint's alerting promises to the people it notifies |
| `Alerting` | the alerting of one endpoint with any number of alerts, its persisted rows, stops and starts of the process; implements `Incidents` |
| `MCAlerting`, `Alerting_*.cfg` | alert lists for TLC |
| `AlertingProofs` | theorems about `Alerting` |
| `ExternalEndpoint`, `External_concurrent.cfg` | push handlers against the heartbeat, on the shared counters and alert |
| `ExternalProofs` | theorems about `ExternalEndpoint` |
| `Lifecycle` | main, the listener of the configuration file and the goroutines of several configurations |
| `MCLifecycle`, `Lifecycle_*.cfg` | configurations for TLC |
| `LifecycleProofs` | theorems about `Lifecycle` |
| `Providers` | the 26 providers: what each of them validates, merges and overrides |
| `Notifications` | what notifications open and close at the service, over retries, reminders, restarts and failures |
| `MCNotifications`, `Notifications.cfg` | the configurations of the providers for TLC |
| `NotificationsProofs` | theorems about `Providers` and `Notifications` |
| `MemoryStore` | results, events and pages of the storage in memory, one operation per step |
| `SQLStore` | the SQL storage statement by statement, with its write-through cache, next to `MemoryStore` |
| `MCSQLStore`, `SQLStore.cfg` | pages and symmetry for TLC |
| `SQLStoreProofs` | theorems about the cache, about the rows, and about both stores |
| `Counting` | lemmas on finite sets and their sizes, which the proofs about rows, tickets and uptime entries share |
| `Uptime`, `Uptime.cfg` | hourly entries, their merge and clean-up, in the database and in memory |
| `UptimeProofs` | theorems about `Uptime` |
| `JsonPath` | paths into a response body, and what they mean |
| `Maintenance` | maintenance windows, and what they mean |
| `Evaluation` | a health check: what is asked for, what each type of call may leave, conditions, redaction |
| `MCEvaluation`, `Evaluation.cfg` | endpoints, bodies, paths and windows for TLC |
| `EvaluationProofs` | theorems about health checks, paths and maintenance windows |

Definitions named after a bug and marked "Mutant:" are variants of the
definition that follows them.  They are in no specification; they exist to
confirm that a property notices the bug.

### Incidents and Alerting

`Incidents` has one action per thing a person can see: `Raise` (the initial
notification), `Remind`, `Settle` (the incident is closed) and `Announce` (the
resolved notification).

`Alerting` follows the two handlers of `watchdog/alerting.go` statement by
statement.  `phase` and `cursor` are the program counter: which handler runs and
which alert its loop is at.

| Model | Code |
|---|---|
| `BeginTrigger`, `BeginResolve` | the updates of the counters before the loop |
| `SkipTrigger`, `SkipResolve` | the `continue`s, and the alert without a provider |
| `SendFails`, `Notify` | the two outcomes of `Send` |
| `Persist` | `UpsertTriggeredEndpointAlert` after a notification |
| `PersistSuccesses` | the write of the successes below the threshold |
| `Resolve`, `Announce` | reset and delete; then the resolved notification |
| `TriggerDone`, `ResolveDone` | the end of the loop, and `NumberOfFailuresInARow = 0` |
| `Start`, `Load`, `Loaded` | `initializeStorage`: clean-up, one load per alert |
| `Stop` | a crash or a stop, in any phase |

The memory of the process is `successes`, `failures`, `triggered` and
`sinceReminder`; what survives is `row`, keyed by the checksum of the alert as
the table is.  Storage faults are an outcome of each storage operation
(`Outcomes`).  The provider of an alert is a flag (configured or not) and an
outcome; what a message looks like is left out.  The remaining variables
(`open`, `told`, `damaged`, the two streaks, `inherited`) are history: no guard reads them.

### ExternalEndpoint

A handler, of the API or of the heartbeat, is a little program with a step per
access to what it shares: copy the counters (`Push`, `Beat`), ask the storage
(`BeatReceived`, `BeatMissed`), `Insert`, decide (`HandleFailure`,
`HandleSuccess`, or `SkipAlerting` in maintenance), send (`Sent`), and the two
assignments back (`CopySuccesses`, `CopyFailures`).  What disturbed a counter
(handlers that overlapped, a result that was not stored or not handled) is history that
*ends*: `mixed` when a handler starts alone, `successesOff` and `failuresOff` when a
result of the other kind is handled on its own, as that starts the counter afresh.
`Elapse` is the time of the
newest stored result and of the ticker with its channel of one tick.  The endpoint has one alert; the persistence of triggered alerts is
the subject of `Alerting` and is not repeated.

### Lifecycle

`main` is the program counter first of `main.main` and then of the listener.  A
*generation* is a configuration that was loaded; every generation has its own
goroutines, `monitor[<<generation, endpoint>>]`, and they share the mutex
(`holder`) and the storage (`open`, `statuses`).  The file has a content and a
modification time in whole seconds.  `Stop` is `stop(cfg)`, of which the
cancelled context is modelled; `Read`, `Accept` and `Reject` are
`LoadConfiguration`, whose read and whose time stamp are apart; `CloseStorage`,
`InitializeStorage`, `StartMonitor` and `Listen` are the rest of the reload.
`Tick` and `Done` are the two cases of the `select`, both enabled after a
cancellation.  `Record` is the evaluation with `Insert` into whatever storage
is there at that moment.  The alerting of an execution is a state
(`"alerting"`), whose effect is `Alerting`.  The deletion of the statuses of removed
endpoints may fail, which is only logged (`InitializeStorage`), and a database that
cannot be opened ends the process (`InitializeFails`).  `survivors` and `left` are
history: the endpoints of which an older goroutine lived at the last deletion, and
the statuses that it failed to delete.

### Providers and Notifications

A provider is a record of its fields and of what `Validate`, `Merge`,
`GetConfig` and the overrides do with them: which fields are required, which
ones belong together, which are filled in, and which make a client that is kept
(`clientOf`, the issue trackers).  A value is the *level* it was written at and
its *form* (`Forms`: good, malformed, out of a range, a zero or empty, a repository
that moved to another host, a value of another type); a text is nothing more.
`Merge` overlooks zeros, as `if override.Priority != 0` and its like do, and so does
`Validate` (`Given`).  `GetConfig` asks the tracker who it is whenever an override
names another repository, which may not be answered (`Asks`).

| Model | Code |
|---|---|
| `Valid`, `Completed`, `Merge`, `GroupsValid`, `ForGroup`, `GetConfig` | the methods of the same purpose of every provider |
| `Load` | `validateAlertingConfig`, with the trackers that are asked who they are; `refuses` are the alerts whose override is never accepted, `elsewhere` those whose override names another repository |
| `Fire`, `Write`, `Resolve`, `Tell` | the notification, its row, the reset and the resolved notification |
| `FiringKey`, `KeyAfterFiring`, `KeyAfterResolved` | what a `Send` does with `Alert.ResolveKey` |
| `Pages`, `Closing` | the hundred open issues of the user that are listed, whatever they are about, and those among them that are about the endpoint |
| `Opened`, `AfterResolved` | what the service does with the request (external) |
| `Restart` | a stop, `validateAlertingConfig` again, whose tracker may not answer this time (`dropped`), and `initializeStorage` |

`service` is what the provider talks to: chat messages close nothing, GitHub and
Gitea keep *issues*, GitLab and incident.io recognise a key (*fingerprints*,
*keyed by the service*), Opsgenie an *alias*, PagerDuty opens *incidents*.  A
request may be accepted, refused, accepted with a lost answer, or accepted with
an answer that cannot be read.

### MemoryStore and SQLStore

`SQLStore` has a process per goroutine in `Insert` or in a reader, and a step
per statement whose place among those of others matters: `BeginInsert`,
`InsertEndpoint` (the key is unique: a second one waits), `InsertEvents`,
`InsertResult` with the clean-ups, `RefreshCache`, `CommitInsert`; `BeginRead`,
`Read`, `FillCache`; `Expire` and `DeleteEndpoint`.  A transaction is a record of
what it added and deleted.  SQLite has one connection (`Connection`); PostgreSQL
runs transactions side by side, each seeing what is committed and its own work.
`...Fails` are the statements whose errors are logged, after which a transaction
of PostgreSQL is `aborted`.  A query for the events or the results of a page that
fails is only logged as well: what is cached and shown then is `Partial`
(`RefreshFails`, `ReadFails`).  `memory` is what the storage in memory would hold of
the results that `Insert` accepted (`MemoryStore`).  `stale` and `gap` are
history: since the last lonely `Insert` transactions overlapped, one was rolled back
or a page was partial; two inserts overlapped or a statement about events failed.

### Uptime

Time is counted in halves of an hour.  `InsertRow` is the upsert, the merge of
old hours into days (`Merged`) and `deleteOldUptimeEntries` (`CleanedUp`), in the
order of `Insert`; `InsertRowFails` is what remains when one or more of them fail:
no row, no merge or no clean-up, or a merge that deleted and did not insert.
`unfinished` counts such inserts in a row.  `InsertStatistics` is the storage in
memory.  An execution may be stored in the hour after its time stamp.
`UptimeAssumption` has what the numbers of the code (24 hours, a buffer of 2 days, a
retention of 30, a clean-up after 32) are to each other: a day has more than one
hour, the buffer at least a day, and each period is shorter than the next.

### JsonPath, Maintenance, Evaluation

`Evaluation` follows `EvaluateHealth`: `Parse`, `GetIP`, `GetDomainExpiration`,
`Call` or `Skip`, `Judge` once for each condition, `Redact`.  `Outcomes` lists
for each type of endpoint what `call` can leave in the result; `Crash` is the
call that dereferences what the validation let be absent.  Texts are records by what
a condition can tell of them (a number, a duration, a number with an exponent, a word,
a pattern with the texts it matches); errors are sequences of pieces, so that redaction
can be done piece by piece.  A number of a body is printed with `%v` (`Printed`: a
million is `1e+06`).  An error of `net/http` or of a WebSocket that is dialed quotes a
URL, that of the configuration or another one (`Changed`: redirected to, encoded anew,
without its password).  What endpoints may be configured and what may be answered is
assumed of the constants (`EndpointsAssumption`, `AnswersAssumption`: placeholders and
paths there are, numbers that are numbers).

`Holds` is the reference for conditions and shares nothing with `Resolved`, `Lookup`
and `IsEqual` but the texts: a value is what lies at the end of the path (`Target`), a
path that leads nowhere makes a condition false, numbers are compared by what they
amount to, however they are written (`Amount`), and only numbers have an order.  Where
the code is satisfied although the condition does not hold, it *guessed*, and
`Guessed` lists how: `NotFetched`, `IntoNothing`, `EndsEarly`, two functions in one
condition, `Unordered`, `OtherwiseWritten`.  `HealthyMeansConditionsHold` says that
the list is complete.

`JsonPath` is `walk` and `extractValue` over the values of the bodies (`Values`,
closed under "an item of" and "a field of": `ValuesAssumption`), for the paths that
conditions ask for (`Paths`; that only the first key is an index alone is
`PathsAssumption`: `[0].[1]` is no path any document shows, and it stops at the
array).  The recursion of the code goes over keys and over indices, so each
is a function of how many of them are behind (`Visited`, `Elements`), and the walk
ends at the first value that is no object (`EndOfWalk`).  `At` is the reference.
`Maintenance` is `IsUnderMaintenance` in minutes, with `InWindow` as the
reference; `config` is the window that was configured, with whose it is: those of
endpoints with a section `dns` or `ssh` and of external endpoints are never validated
(`Validated`), so that any file is in use and its start is never parsed.

## 3. Runs

Passing runs.

| Run | Instance | Shows |
|---|---|---|
| `alerting_safety` | two alerts, three lists to restart with (swapped, one dropped), two stops in any phase, storage faults | `RowsMatchIncidents`, `MemoryMatchesIncidents`, `NoDuplicateNotification`, `CountedThresholds` |
| `alerting_liveness` | two reminding alerts, with or without the provider of the second, one stop, storage faults | `UnhealthyIsReported`, `HealthyIsSettled`, `RemindersContinue` |
| `alerting_refines_incidents` | two alerts with thresholds 3/3 and 2/1, two stops, no storage fault and no stop before a write | `ImplementsIncidents` |
| `external_concurrent` | a handler, the heartbeat, faults, maintenance | `CountersMatchResults` and `TriggeredAtThreshold` (the counters are the streaks, and become so again after a disturbance), `AnnouncedOncePerHandler` (two racing handlers announce an incident at most twice), `SilenceIsReported` |
| `lifecycle_safety` | an endpoint and a heartbeat, two edits, invalid files, termination, a database that fails | `TypeOK`, `OneAtATime`, `OnlyCurrentGoesOn`, `NoGhosts` |
| `lifecycle_recovery` | one endpoint that is monitored or not, two edits, invalid files are skipped, storage in memory | `FileIsServed`, `OldGoroutinesEnd`: edits are served in the end, also after an invalid file |
| `notifications` | every provider with every single deviation (zeros and other types among them) of its default, of a group's and of an alert's override; two alerts, pages of two issues that others may fill, failures of every kind, two stops after which the tracker may not answer | `OverridesTakeEffect`, `RefusedForAReason`, `NothingLeftOpen`, `TriggeredIsOpen`, `AtMostOneTicket` |
| `storage` | two inserting goroutines and a reader, both drivers, two pages of one row, two results and one event to keep, four results, one fault (a statement, a query of a page, a commit) | `Bounded`, `NewestAreKept`, `EventsTellTheStory`, `CacheIsCommitted`, `StoresAgree` |
| `uptime` | days of two hours, a buffer of two days, retention of four, clean-up after five, merge from eight rows, pauses of half an hour and of more than two days, two inserts with failing statements | `DayWindowIsExact`, `WindowsAreBracketed`, `StatisticsAreExact`, `EntriesAreBounded` |
| `evaluation` | endpoints of every type, eight lists of conditions with every guess among them, everything that can be hidden; all bodies of depth two and all paths of two keys; all validated windows of a calendar of 3 days of 4 hours of 3 minutes, and those of a section `dns` that no validation sees | `PathsAreFollowed`, `UnderMaintenanceMatches`, `HealthyMeansConditionsHold`, `HiddenPartsAreRedacted` |

Runs that find a disagreement between a statement of the repository and its
code; each one checks the statement and is violated.

| Run | Statement | What the code does |
|---|---|---|
| `alerting_failure_threshold` | README:565 | a loaded alert sets the failures of the whole endpoint, so that another alert triggers early |
| `lifecycle_skip_invalid` | `main.go`:186 | monitoring has been stopped and is not started again |

The models show more behaviour that a reader of the documentation may not
expect, and that no run states as a property:

* the persisted number of successes is not reset by a failure
  (`BeginTrigger` leaves `row` alone), so that after a restart an alert may
  resolve after fewer successes in a row than its threshold; hence
  `CountedThresholds` speaks of counters that are not `inherited`;
* the time of the last reminder is not persisted (`Stop`), belongs to the
  endpoint and not to the alert (`Notify`; of two alerts with one interval only
  the first is reminded, hence `RemindersContinue` speaks of *some* alert), and
  is not carried by `ToEndpoint` (every failure of an external endpoint is
  reminded, `HandleFailure`);
* two failures pushed at the same time are counted once (`CopyFailures` of two
  handlers), until a result of the other kind is handled on its own
  (`CountersMatchResults`);
* a failed heartbeat inserts a result, which `ReceivedResult` counts: the next
  heartbeat passes without any push;
* an execution may outlive the second that the listener waits after `Stop`, and
  one may begin after it when a tick is ready together with the cancellation
  (`Tick`), so that it writes a status of an endpoint that was removed; and a
  clean-up that fails leaves such statuses (`sql.go`:397).  `NoGhosts` says for which
  endpoints this can happen;
* an edit between `Read` and `Accept`, or in the second of `Accept`, is never
  seen, as whole seconds are compared with the time of the load: liveness of
  the reload is stated under `QuietLoads`.
* alerts that differ only in their provider override or in the interval of
  their reminders share a checksum (`alert.go`:114) and with it a row: after a
  restart one counts as sent that was not (`alert.go`:65), hence
  `DistinctChecksums` in the theorems;
* two results pushed at once announce an incident twice, as nothing guards
  `Triggered` (`api/external_endpoint.go`:73 against `alert.go`:63); the theorem
  `RaceIsBounded` says how often at most.

Providers and notifications:

* an override of GitHub or Gitea that names only a token or a host is ignored,
  as the client made at the start is kept while the repository is the same
  (the second disjunct of `OverridesTakeEffect`); one that names another repository
  has the tracker asked at every notification, which is refused when it does not
  answer (`RefusedForAReason`);
* a zero, a false or an empty value cannot override anything (`Overlooked`;
  `pushover.go`:95), and an override of a wrong type is noticed when the alert
  fires;
* a port in an email override and half of the AWS credentials are refused only
  when a notification is sent (`refuses`);
* a tracker that does not answer while the configuration is loaded is left out
  until the next load (`Load`, `Restart`): issues opened before stay open;
* every reminder of PagerDuty opens an incident of its own and the key of the one
  before is forgotten (`FiringKey`, `Excuse`); a lost answer of incident.io makes
  the retry open a second alert; issues that are not among the hundred newest ones of
  the user stay open (`Pages`).

Storage:

* the refresh of the cache precedes the commit, so that a commit that fails
  leaves what it tried in the cache until the next `Insert` (`CommitFails`), and
  overlapping transactions of PostgreSQL leave a page that neither committed;
  a query for the events or results of a page that fails is logged, and the page is
  cached without them (`sql.go`:683, `RefreshFails`, `ReadFails`);
  a statement that fails to count the events makes `Insert` take the endpoint
  for a new one and add a second START (`InsertEventsFails`);
* pages of events begin with the oldest event in SQL and with the newest in
  memory: `StoresAgree` speaks of results;
* `UpsertTriggeredEndpointAlert` returns nil when its commit failed (`sql.go`:471);
* the merge of uptime rows begins at 100 rows, while its comment speaks of about
  50; after a failure between its statements what it deleted may be lost, and each
  insert in a row that merges nothing leaves a row more (`EntriesAreBounded`).

Evaluation:

* an SSH URL without the section `ssh`, and a section `ssh` with an unknown URL,
  pass the validation and end the process (`Crash`); so does a path with a name
  and an index into a body that is no object, or with a negative index
  (`PathsAreFollowed`);
* a call that fails leaves zero values on which conditions are judged, and an
  error of a call or of a path does not make a result unhealthy by itself;
* the guesses (`Guessed`): an empty or truncated body satisfies `[BODY].age < 5`; a
  placeholder in lower case is resolved, but does not make its value be fetched; a
  path stops at an array or a number on its way; what is no number counts as 0 in a
  comparison, and the rest of 5.3 is cut off; two functions that meet are compared as
  texts; a million in a body is `1e+06`, which no list and no pattern of a million
  matches, and a time is not equal to the number it is worth;
* an error that quotes a URL that was redirected to, encoded anew or stripped of its
  password is not touched by `hide-url` (`endpoint.go`:315), although `ui.go`:13 says
  that a token is hidden (`Changed`, the exception in `HiddenPartsAreRedacted`);
* an address that cannot be parsed leaves an empty host name, and hiding it
  spreads the replacement between all characters of an error (`Redacted`);
* the port of a DNS server, and a port behind an address that is pinged, belong to
  the host name and are not hidden as a port (`HostnameOf`);
* `a.[0]` returns the array;
* a window of more than a day less an hour misses up to 59 minutes of the hour it
  starts in (`Lost`); the windows of endpoints with a section `dns` or `ssh`
  (`endpoint.go`:226) and of external endpoints (`external_endpoint.go`:53) are used
  without the validation that `maintenance.go`:65 requires, and begin at midnight of
  the local time whatever their start and time zone say (`Validated`);
* the greeting of a mail server, the messages of a WebSocket and the handshake
  and the command of SSH have no deadline, although `client.timeout` is
  documented for all of them: under the lock, everything waits.  Which client sets a
  deadline is a table, of which a model could only say that it is one; the calls of
  `Evaluation` end.

### Bounds, and why they are enough

* Counters saturate at `CounterCap`, ages at `AgeCap` and `Interval`: at or above
  every threshold, so that no comparison is changed.  Thresholds of 1, 2 and 3 distinguish "at once", "after a partial
  streak" and "an alert with a lower threshold than another".
* `MaxRestarts` 2: an inconsistency needs one stop to arise and one more start
  to be seen, with an edit of the alerts in between.
* Two alerts: the handlers' loops couple alerts through the counters and the
  reminder clock only, in pairs.
* One member of `Pushers` beside the heartbeat: the races are between a read and a
  write, and two racing handlers are the smallest case.  Their properties
  are proved for any number.
* `MaxEdits` 2, three generations: an edit that meets the reload of another.
  `MaxTime` 2: before, in and after the second of a load.
* `MaxKeys` 3, `MaxCrashes` 2: two alerts with a ticket each and a duplicate, and
  a stop on both sides of a write.  `PageSize` 2 of more issues than that, and a page
  shows any number of them that others leave room for.
* `Setups`: one deviation at a time, as `Merge` and `Validate` treat each field by
  itself or together with the ones in `together`.
* Two inserts and a reader, of which `MaxOpen` 2 run at once: the cache couples a
  refresh with one other transaction.  `MaxInserts` 4 exceeds `MaxResults` 2 by the
  `CleanUpThreshold` 1 and one more.  `MaxEvents` 1 is below the two events an
  endpoint begins with.  `MaxFaults` 1 is the fault between two undisturbed
  inserts; the writers are symmetric.
* `MaxFaults` 2 of `Uptime` are two inserts in a row that merge nothing.  `MaxTime` 40
  is ten days of two hours, more than the age at which rows are
  deleted.  `PerHour` 1 tells each hour from none; the pause 9 is a stop of more
  than two days.
* Bodies with two names and two items per level, of depth two, and keys with up to
  two indices: every case of `extractValue` meets every kind of value.  Only one
  endpoint (`AnyBody`) answers with all of them, only one (`AnyMaintenance`) is
  checked under every window, as neither depends on the endpoint.  A start that is not
  parsed may be one of three: nothing reads it.  The million is that of the code.

Deadlock is checked for `Alerting`, `ExternalEndpoint` and `SQLStore`.  `Lifecycle`
really stops: the process ends after a panic or a signal, and after a skipped
invalid file nothing is left to do once its edits are used up.  A check of
`Evaluation` ends or crashes.  `Notifications` and `Uptime` end at their
bounds: of keys, and of time.  Hence `CHECK_DEADLOCK FALSE` in these runs.  The
runs of `Lifecycle` keep the monitoring lock; that it is disabled is a case of the
theorems, which hold for both values.

### Fairness

* `Alerting`: weak fairness of the handlers and of a start (results keep
  arriving, the process is restarted), strong fairness of an accepted
  notification of each alert (a provider that is tried again and again accepts
  one day) and of time.
  Liveness is stated under "the endpoint keeps failing" or "stays healthy"
  (`<>[](badStreak > 0)`), never as an assumption that it does.
* `ExternalEndpoint`: weak fairness of time, of the heartbeat's goroutine and of
  handlers that began; strong fairness of connectivity, of an accepted
  notification and of the end of a maintenance window.  Nobody has to push.
* `Lifecycle`: goroutines that can run do; `sync.Mutex` passes the lock to each
  waiter in the end (its starvation mode); requests end by their timeouts; a
  `select` with two ready cases picks at random and so takes each of them some
  time.  Nobody has to edit the file.
* `Notifications`, `SQLStore`, `Uptime`, `Evaluation`: none; their properties are
  safety.  In particular no call of a client is assumed to end.

## 4. Proofs

All are checked by TLAPS for every value of the constants that satisfies the
assumptions of the module (`AlertingAssumption`, `ChecksumAssumption`,
`LifecycleAssumption`, `ExternalAssumption`, `NotificationsAssumption`,
`SetupsAssumption`, `StoreAssumption`, `SQLAssumption`, `UptimeAssumption`, `CalendarAssumption`,
`ValuesAssumption`, `PathsAssumption`, `EndpointsAssumption`, `AnswersAssumption`).

Every invariant, every action property and the refinement that the passing runs
check is proved.  The types of `Alerting`, `ExternalEndpoint` and `Notifications` hold by
the shape of their actions: they are lemmas (`TypeCorrect`) and no run asks for them.
What is left to TLC is listed at the end of this section.

`AlertingProofs`:

* `IncidentsSurviveRestarts` (`RowsMatchIncidents`) and `MemoryFollowsIncidents`
  (`MemoryMatchesIncidents`), when the enabled alerts of a list have distinct checksums
  (`DistinctChecksums`; with equal ones it is false, see section 3).  Neither is inductive: a step from `"persist"`
  needs to know that the alert just notified is open and triggered, and a start
  needs that a stopped process remembers nothing.  `IncidentInv` adds exactly
  that (`Windows`).
* `NotificationsNotDuplicated`: the action property follows from `IncidentInv`
  in the state before the step.
* `ThresholdsAreCounted`: from the invariant `StreaksAreReal`, that a counter
  that was not loaded is at most the real streak.
* `RestartsAreInvisible`: `Alerting` implements `Incidents` under `Undisturbed`
  (distinct checksums, no storage fault, no stop between a notification and its
  write).  `RefinementInv` says that nothing is damaged and that an open
  incident was reported; then the refinement mapping `Known`, which reads rows
  while the process is down and memory while it runs, *is* the set of open
  incidents, and every step opens, reminds, closes or announces one, or none.

`LifecycleProofs`:

* `TypeCorrect`: that a generation stays within `MaxEdits + 1` needs `Counted`:
  a load stamps a time that is not before the file's, so that every reload is
  paid for by an edit of its own.
* `EvaluationsExclusive`: `OneAtATime`, from `Owned`: whoever executes owns the
  mutex, of whatever generation it is.
* `OldGenerationsStopped`: `OnlyCurrentGoesOn`, from `Retired` (earlier
  generations are cancelled, the current one while it is being replaced) and
  `Started` (a living goroutine belongs to a generation that was started).
* `StatusesAreConfigured`: `NoGhosts`, for each endpoint apart: a status that is not
  configured was left by the failed clean-up, or its endpoint has an older goroutine
  that already lived at the clean-up, as no goroutine of an older generation is
  started after it (`Started`).

`ExternalProofs`:

* `RaceIsBounded`: `AnnouncedOncePerHandler` for any number of handlers.  The
  invariant counts: no initial notification was sent while the alert is not
  triggered, and those that were sent together with the handlers that are sending
  one are no more than the handlers, as nobody starts to send one for an alert
  that is triggered.
* `ResultsAreCounted` (`CountersMatchResults`) and `ThresholdTriggers`
  (`TriggeredAtThreshold`), also after handlers overlapped.  Both speak of the moments
  between handlers; the invariant `Sequential` says what is true inside one: as long as
  nothing is `mixed`, at most one handler is active, the copy it works on is ahead of
  the shared counters by exactly the assignments it has not made yet (`InStep`, for
  each counter by itself: the one that a result sets to zero is right again even if it
  was not before), and a streak at the threshold is announced or about to be
  (`Underway`).

`NotificationsProofs`, for any set of alerts, any configurations that
`SetupsAssumption` describes and any page size:

* `TypeCorrect`, a lemma: among others, no two tickets share a key.
* `NothingIsLeftOpen` (`NothingLeftOpen`), `TriggeredAlertsAreOpen`
  (`TriggeredIsOpen`) and `OneTicketPerAlert` (`AtMostOneTicket`).  The invariant
  `Inv` follows the key on its way from the service into memory and from there into
  the row: no two alerts hold the same key, and keys that are made up are new (`Owned`), a ticket of a
  service that works by keys can be found from memory, or else is excused
  (`Findable`), and a ticket that is not excused belongs to an alert that is
  triggered or about to be told of (`Backed`).  `TriggeredIsOpen` needs no more than these to be inductive.
  `AtMostOneTicket` is proved for alerts with `send-on-resolved`, which is what the
  run has: without, nothing is sent on resolution, the ticket stays, and the next
  incident rightly opens another.
* `NearestOverrideIsUsed` (`OverridesTakeEffect`) and `RefusalsHaveReasons`
  (`RefusedForAReason`): for each of the 26 providers, any number of overrides of
  groups and any values, zeros and values of another type among them.
  `WellFormed` is what the proofs need to know of a provider
  (`ProvidersWellFormed` goes through all of them); `MergedFacts` says where the
  value of a field after two merges comes from.

`SQLStoreProofs`, for any number of writers, readers, pages, results and events:

* `CacheIsCoherent` (`CacheIsCommitted`).  It is not inductive: between a refresh and
  its commit the cache shows what is *not* committed.  `CacheInv` says who runs alone (`Exclusive`: a
  transaction that believes so is; unless `stale`, all are), what is pending
  (`PendingWrites`: the cache shows what a lonely insert is about to commit;
  `PendingReads`: the copy of a lonely reader is what is committed), and that
  otherwise the cache shows the tables (`Coherent`).  The statements between are
  treated alike (`WorksAsWriter`, `WorksAsReader`, `Leaves`, `Begins`): a lemma for
  each kind shows that it preserves the invariant, a lemma for each action that it
  is of its kind.  With SQLite, `OneConnection` makes every transaction lonely.
* How `ORDER BY ... LIMIT` is reasoned about: `InOrder` lists the rows so that
  each is preceded by exactly those with a smaller key (`InOrderLists`), and so
  whether a row is among the newest `n` is a question of how many come after it.
  No induction over the list is needed.
* `StepKinds`: for the rows every step is one of five effects (`AddsEvents`,
  `AddsResult`, `Commits`, `Deletes`, `Quiet`); the lemmas about invariants go
  through these.
* `RowsAreConsistent`: identifiers are given out once (`OwnIds`), what is not
  committed is of its own transaction, which with SQLite is alone (`Writing`,
  `OneWriter`), and what was or is about to be deleted has `MaxResults` newer rows
  (`Kept`).
* `NewestResultsAreKept` (`NewestAreKept`), from `Kept`: two transactions that do not
  see each other's rows each delete only what *their own* view replaces; that their
  union does not delete too much is what the invariant adds.
* `TablesStayBounded` (`Bounded`), from `Counts`: for *every set* of open
  transactions, if all of them commit there are not too many rows.  The tables
  alone are not inductive, as each of several transactions may be within the bound
  by itself.
* `TheStoryIsTold` (`EventsTellTheStory`), from `Story`: in the tables and in what
  each open transaction sees, events alternate and the last one is about the newest
  result (`Tells`).
* `StoresShowTheSame` (`StoresAgree`), from `Agreement`: the slice of the store in
  memory is the newest of the accepted results; then two slices that have the same
  end show the same pages (`SameEnd`).

`Counting` has what the library proves only with operator parameters, in first
order form: a set of numbers has a least element, a set that is closed under
successor holds them all (`NaturalInduction`, over a *set* and not a predicate),
and how many elements unions, images and the rows before or after another have
(`Numbered`).

`UptimeProofs`, for any day, buffer, retention and age that `UptimeAssumption`
allows, any thresholds and pauses:

* Sums: `Total` is a fold over sets (`SumFunction`).  `SumUnfolds` unfolds it, by
  `NaturalInduction` over the sizes of the subsets; that any element may be added
  last (`SumOfOneMore`), that sums over disjoint sets add up (`TotalOfUnion`) and
  that smaller entries have smaller sums (`TotalsCompare`) follow.
* Every rewriting of the rows is faithful in one sense, which is transitive:
  `NoMore` (it leaves the hours from `MinThreshold` on alone, changes no entry but
  that of a day, and adds nothing to the total of any day) and, unless daily rows
  are missing, `NoLess` (it takes nothing from a day of the retention).
  `MergingIsFaithful` and `TrimmingIsFaithful` are the two ways of rewriting,
  `RowsAfterInsert` puts them together for each way an insert may go.
* `IInv` compares the rows with the executions: hour by hour where nothing is merged
  (`RecentRowsAgree`, `HoursNotAbove`), by the total of each day elsewhere
  (`DaysNotAbove`, `DaysNotBelow`).  The windows themselves are not inductive: they
  move, and what a later one shows was merged under an earlier threshold.
* `DayWindowExact` (`DayWindowIsExact`) and `StatisticsExact` (`StatisticsAreExact`):
  the window lies where the two tables agree.  `WindowsBracketed`
  (`WindowsAreBracketed`): the hours of the day in which the window begins, then a
  number of whole days (`DayByDay`).
* `EntriesBounded` (`EntriesAreBounded`): how many hours and days fit between the
  thresholds (`MergedAreFew`, `RetainedAreFew`), and one row more for each insert in a
  row that did not finish (`unfinished`), as an insert adds at most one.

`EvaluationProofs`, for all endpoints, conditions, bodies, paths and answers:

* Paths need no state: a function over the keys that moves on from value to value
  exists (`ChainExists`, by `NaturalInduction` over the set of lengths up to which
  there is one) and stays among the values (`ChainInvariant`).  As long as the walk
  meets objects it is where `At` is (`Followed`), an index alike (`Indexed`); then a
  case for each value the walk may end at gives `EveryPathIsFollowed`.
  `PathsLeadSomewhere` (`PathsAreFollowed`) applies it to the body of a result.
* `ComparedIsMeant`: what a parameter resolves to is what it means, but for how a
  number is printed, unless a path leads into nothing or stops early.
  `JudgementMeans`: two such texts that satisfy the operator stand in the relation
  that it means, for every pair of texts and every operator, unless order or writing
  was guessed.
* `ErrorsAreCleanedUp`: an error has one of a few forms (`Messages`, `Shapes`); a text that is
  replaced is gone wherever it stands (`TextIsRedacted`, `PieceIsRedacted`), and
  where an earlier replacement took a part of it, no piece of it is left either.
* `IInv` is what ties these to the steps.  `Typed` is the type; `Explained`: until
  they are redacted, errors have the shapes there are, and host name and port are
  those of the URL; `Fetched`: a check without error has looked up what any of its
  conditions asks for; `Judged`: the conditions that are not left were satisfied, by
  what the result *still* says, as `Judge` changes nothing that is judged
  (`SameJudgement`).  None of the two properties below follows from the last
  step alone: a condition is judged long after what it needs was, or was not, fetched.
* `HealthIsNoGuess` (`HealthyMeansConditionsHold`), from `Judged` and `Fetched`: what
  the endpoint really answered differs from the result only in what no condition
  asked for, or asked for in lower case (`NothingElseWasAsked`).  Every condition, of
  whatever form, holds or is one of the guesses.
* `HiddenIsHidden` (`HiddenPartsAreRedacted`), from `Explained`.
* `MaintenanceIsExact`: `UnderMaintenanceMatches` for calendars of any size, of
  which 24 hours, 60 minutes and 7 days are one: of the days whose window could
  contain a minute, only the one that the code looks at can, unless the minute is one
  that the longest windows lose (`ThatDayOrLost`).

What the attempts to prove changed in the models: `Bounded` allows a row for every
insert that was *not seen*, and not only for every fault (two inserts of PostgreSQL
that overlap each count without the other; more writers than the run has exceed the
earlier bound); `Candidates` takes only the first override of a group, as
`GetConfig` of the provider custom returns at the first; the assumptions on
configurations that `MCNotifications` satisfied by construction are stated
(`SetupsAssumption`, which TLC evaluates), and so are those of `Evaluation`.
`JsonPath` had taken `a[5][-1]` for a panic when `a` has one item: an index that leads
out ends the key, the ones after it are not looked at (`Missing`).
`HiddenPartsAreRedacted` had promised to hide the port of an address that is pinged:
the run had no such endpoint.  And the list of guesses grew until the proof of
`JudgementMeans` went through: the rest of a float that is cut off, and the two
writings of one number in a list, were found there.

Only model-checked:

* everything under fairness (`UnhealthyIsReported`, `HealthyIsSettled`,
  `RemindersContinue`, `SilenceIsReported`, `FileIsServed`, `OldGoroutinesEnd`):
  liveness needs `ENABLED`, which the provers do not handle;
* the violated statements.

## 5. Abstractions and what is not modelled

* Payloads, formatting, HTTP, TLS and authentication: data no property is about.
* In `Lifecycle` the web server and the metrics registry are left out, and so is
  the effect of a stale execution on the alerts of the new configuration.
* `ExternalEndpoint` treats the per-endpoint maintenance windows, which only the
  heartbeat consults, as part of the answer of the maintenance.
* Storage faults that are not reported (`UpsertTriggeredEndpointAlert` returns
  nil when its commit failed) are covered by faults at any time.
* `MemoryStore` has one operation per step: its readers take no lock, and what
  they see of a slice that is being written is a data race of a machine, not a
  state of the program.
* `SQLStore` has one endpoint; the refresh of the cache by a prefix of the key also
  refreshes endpoints whose key begins with it, which does no harm.
* Whois, DNS, the file system and the services of the providers answer anything
  they may answer (external).

Not modelled:

* **Connectivity checker**: a cached answer that goroutines refresh at once only
  with the lock disabled; each of them stores one that is as fresh.
* **Status API, badges, charts, raw values**: reads of the storage, which the pages
  and windows of `SQLStore`, `MemoryStore` and `Uptime` are; above them is a cache
  of ten seconds and text.
* **Metrics**: counters of a library that nothing in the program reads.
* **Web server, security, remote instances, user interface**: a library server
  around one variable, sessions of a library, fetched lists, static files.
* **Merging of configuration files and defaults of the web server**: YAML.

## 6. What could follow

1. `Lifecycle` with the alerting of two generations on shared rows: what a stale
   execution does to the incidents of the new configuration.
2. The metrics registry in `Lifecycle`: collectors that are replaced, with other
   labels, while a goroutine of the old configuration publishes.
3. An abstract storage that both `SQLStore` (without `gap`) and `MemoryStore`
   refine; `StoresAgree` is its observable part.
