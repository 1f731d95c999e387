------------------------------ MODULE SQLStore ------------------------------
(***************************************************************************)
(* Results, events and write-through cache of one endpoint in the storage on *)
(* a database (storage/store/sql/sql.go), next to the store in memory that   *)
(* is given the same results.                                                *)
(*                                                                           *)
(* Insert is a transaction of several statements; a reader is one too.  With *)
(* SQLite there is one connection, so that a transaction that began excludes *)
(* every other one.  With PostgreSQL they interleave, every statement sees   *)
(* what is committed and what its own transaction wrote, and a statement     *)
(* that failed fails all later ones of its transaction.  The cache is shared *)
(* by all transactions and knows nothing of them.                            *)
(***************************************************************************)
EXTENDS MemoryStore, FiniteSetsExt, SequencesExt

CONSTANTS
  Writers, Readers,     \* goroutines in Insert, and in GetEndpointStatusByKey
  Drivers,              \* subset of {"sqlite", "postgres"}
  Pages,                \* the pages asked for: sequences <<page, size>>
  CleanUpThreshold,     \* resultsAboveMaximumCleanUpThreshold, and of events
  MaxOpen,              \* bound: transactions that are open at once
  MaxInserts,           \* bound: calls of Insert that insert a result
  MaxFaults             \* bound: statements and commits that fail

Procs == Writers \union Readers

ASSUME SQLAssumption ==
  /\ Writers \intersect Readers = {} /\ IsFiniteSet(Procs)
  /\ Drivers \subseteq {"sqlite", "postgres"}
  /\ Pages \subseteq (Nat \ {0}) \X (Nat \ {0})
  /\ CleanUpThreshold \in Nat
  /\ MaxOpen \in Nat /\ MaxInserts \in Nat /\ MaxFaults \in Nat

VARIABLES
  driver,
  exists,      \* the row of the endpoint is committed
  results,     \* committed rows of results: their identifiers
  events,      \* committed rows of events: <<identifier, type>>
  cache,       \* the cached status of every page, or NoPage
  step,        \* where a process is
  tx,          \* the transaction of a process
  log,         \* Success of the results inserted so far, by identifier
  eventIds     \* identifiers of events that were given out

\* History, which no step of the code reads.
VARIABLES
  memory,      \* the status in the store in memory, given what Insert accepted
  accepted,    \* the results of the endpoint that Insert accepted
  faults,      \* statements and commits that failed
  stale,       \* transactions overlapped, one did not commit or a query behind a
               \* cached page failed, since an Insert that ran alone committed
  gap          \* two inserts overlapped, or a statement about events failed

tables == <<exists, results, events>>
history == <<memory, accepted, faults, stale, gap>>
vars == <<driver, tables, cache, step, tx, log, eventIds, history>>
-----------------------------------------------------------------------------
NoPage == [results |-> <<>>, events |-> <<"none">>]

\* A transaction: its Success and page are the arguments of the call.
NoTx == [success |-> FALSE, page |-> <<1, 1>>, creates |-> FALSE, aborted |-> FALSE,
         alone |-> TRUE, id |-> 0, addedResults |-> {}, deletedResults |-> {},
         addedEvents |-> {}, deletedEvents |-> {}, copy |-> NoPage]

Init ==
  /\ driver \in Drivers
  /\ exists = FALSE /\ results = {} /\ events = {}
  /\ cache = [p \in Pages |-> NoPage]
  /\ step = [p \in Procs |-> "idle"] /\ tx = [p \in Procs |-> NoTx]
  /\ log = <<>> /\ eventIds = 0
  /\ memory = NewStatus /\ accepted = {} /\ faults = 0 /\ stale = FALSE /\ gap = FALSE

\* What a statement of w sees.
ResultsSeen(w) == (results \ tx[w].deletedResults) \union tx[w].addedResults
EventsSeen(w) == (events \ tx[w].deletedEvents) \union tx[w].addedEvents

\* ORDER BY a key: before the i-th row there are i - 1.
InOrder(S, key) ==
  [i \in 1..Cardinality(S) |->
     CHOOSE x \in S : Cardinality({y \in S : key[y] < key[x]}) = i - 1]

ById(S) == InOrder(S, [x \in S |-> x])
EventsById(S) == InOrder(S, [x \in S |-> x[1]])

\* Mutant: ORDER BY ... ASC LIMIT n.
OldestRows(s, n) == ToSet(SubSeq(s, 1, IF Len(s) < n THEN Len(s) ELSE n))

\* The rows that ORDER BY ... DESC LIMIT n selects.
NewestRows(s, n) == ToSet(Newest(s, n))

\* LIMIT size OFFSET (page - 1) * size.
Limited(s, p) ==
  LET offset == (p[1] - 1) * p[2]
  IN SubSeq(s, offset + 1, Min({offset + p[2], Len(s)}))

\* getEndpointResultsByEndpointID reverses the rows, which it selects DESC.
ResultsPage(ids, p) == Reverse(Limited(Reverse(ById(ids)), p))

\* getEndpointEventsByEndpointID selects ASC: page one has the oldest events.
EventsPage(rows, p) ==
  LET page == Limited(EventsById(rows), p) IN [i \in DOMAIN page |-> page[i][2]]

\* getEndpointStatusByKey.
PageSeen(w, p) == [results |-> ResultsPage(ResultsSeen(w), p),
                   events |-> EventsPage(EventsSeen(w), p)]

Goto(p, s) == step' = [step EXCEPT ![p] = s]

Alone(p) == \A q \in Procs \ {p} : step[q] = "idle"

\* SetMaxOpenConns(1) makes the transactions of SQLite wait for each other.
Connection(p) == driver = "sqlite" => Alone(p)

\* A statement fails: PostgreSQL then refuses the rest of the transaction.
Fails(w) == /\ faults < MaxFaults
            /\ faults' = faults + 1

AfterFailure == driver = "postgres"

\* Leaving: nothing of the transaction remains.
RollBack(p) ==
  /\ Goto(p, "idle")
  /\ tx' = [tx EXCEPT ![p] = NoTx]

\* Every transaction learns that it did not run alone.
Begin(p, args) ==
  /\ step[p] = "idle" /\ Connection(p)
  /\ Cardinality({q \in Procs : step[q] # "idle"}) < MaxOpen
  /\ tx' = [q \in Procs |->
              IF q = p THEN [args EXCEPT !.alone = Alone(p)]
              ELSE IF step[q] = "idle" THEN NoTx
              ELSE [tx[q] EXCEPT !.alone = FALSE]]
  /\ stale' = (stale \/ ~Alone(p))
  /\ gap' = (gap \/ (p \in Writers /\ \E w \in Writers \ {p} : step[w] # "idle"))
-----------------------------------------------------------------------------
(* Insert *)

BeginInsert(w, success) ==
  /\ Len(log) < MaxInserts
  /\ Begin(w, [NoTx EXCEPT !.success = success])
  /\ Goto(w, IF exists THEN "events" ELSE "create")
  /\ UNCHANGED <<driver, tables, cache, log, eventIds, memory, accepted, faults>>

\* insertEndpoint: the key is unique, so that a second transaction waits for
\* the first one and fails when that one committed.
InsertEndpoint(w) ==
  /\ step[w] = "create"
  /\ \A other \in Writers \ {w} : ~tx[other].creates
  /\ IF exists THEN RollBack(w)
     ELSE Goto(w, "events") /\ tx' = [tx EXCEPT ![w].creates = TRUE]
  /\ UNCHANGED <<driver, tables, cache, log, eventIds, history>>

\* Mutant: the event is compared with the oldest result.
OldestSuccess(w) == log[ById(ResultsSeen(w))[1]]

\* getLastEndpointResultSuccessValue.
LastSuccess(w) == log[Last(ById(ResultsSeen(w)))]

\* The events that Insert adds, before one of its statements fails.
EventsToAdd(w) ==
  IF EventsSeen(w) = {} THEN <<"START", EventOf(tx[w].success)>>
  ELSE IF ResultsSeen(w) # {} /\ LastSuccess(w) # tx[w].success
  THEN <<EventOf(tx[w].success)>>
  ELSE <<>>

\* Mutant: the row that reaches the threshold is not counted.
TooManyAfterwards(n, max) == n > max + CleanUpThreshold + 1

TooMany(n, max) == n > max + CleanUpThreshold

\* The number of events was read before the new ones were added.
EventsToDelete(w, added) ==
  LET all == EventsById(EventsSeen(w) \union added)
  IN IF TooMany(Cardinality(EventsSeen(w)), MaxEvents)
     THEN ToSet(all) \ NewestRows(all, MaxEvents)
     ELSE {}

WithEvents(w, added, deleted) ==
  tx' = [tx EXCEPT ![w].addedEvents = (@ \union added) \ deleted,
                   ![w].deletedEvents = @ \union (deleted \intersect events)]

InsertEvents(w) ==
  LET types == EventsToAdd(w)
      added == {<<eventIds + i, types[i]>> : i \in 1..Len(types)}
  IN
  /\ step[w] = "events"
  /\ Goto(w, "result")
  /\ WithEvents(w, added, EventsToDelete(w, added))
  /\ eventIds' = eventIds + Len(types)
  /\ UNCHANGED <<driver, tables, cache, log, history>>

\* One of the statements about events fails and is only logged: an event is
\* missing, nothing is deleted, or the events were not counted and the endpoint
\* is taken for a new one.
InsertEventsFails(w) ==
  LET Rows(types) == {<<eventIds + i, types[i]>> : i \in 1..Len(types)}
      all == Rows(EventsToAdd(w))
      first == Rows(<<"START", EventOf(tx[w].success)>>)
  IN
  /\ step[w] = "events"
  /\ Fails(w)
  /\ Goto(w, "result")
  /\ IF AfterFailure
     THEN /\ tx' = [tx EXCEPT ![w].aborted = TRUE]
          /\ UNCHANGED gap
     ELSE \/ /\ \E lost \in all :
                  WithEvents(w, all \ {lost}, EventsToDelete(w, all \ {lost}))
             /\ gap' = TRUE
          \/ /\ EventsToDelete(w, all) # {}
             /\ WithEvents(w, all, {})
             /\ UNCHANGED gap
          \/ /\ EventsSeen(w) # {}
             /\ WithEvents(w, first, {})
             /\ gap' = TRUE
  /\ eventIds' = eventIds + 2
  /\ UNCHANGED <<driver, tables, cache, log, memory, accepted, stale>>

ResultsToDelete(w, id) ==
  LET all == ById(ResultsSeen(w) \union {id})
  IN IF TooMany(Len(all), MaxResults)
     THEN ToSet(all) \ NewestRows(all, MaxResults)
     ELSE {}

WithResult(w, id, deleted, aborted) ==
  tx' = [tx EXCEPT ![w].id = id,
                   ![w].addedResults = {id} \ deleted,
                   ![w].deletedResults = deleted \intersect results,
                   ![w].aborted = aborted]

\* insertEndpointResult and the clean-up, whose failure is only logged.
InsertResult(w) ==
  LET id == Len(log) + 1 IN
  /\ step[w] = "result" /\ ~tx[w].aborted
  /\ Goto(w, "refresh")
  /\ log' = Append(log, tx[w].success)
  /\ \/ /\ WithResult(w, id, ResultsToDelete(w, id), FALSE)
        /\ UNCHANGED faults
     \/ /\ ResultsToDelete(w, id) # {}
        /\ Fails(w)
        /\ WithResult(w, id, {}, AfterFailure)
  /\ UNCHANGED <<driver, tables, cache, eventIds, memory, accepted, stale, gap>>

\* Without its result there is no point in going on.
InsertResultFails(w) ==
  /\ step[w] = "result"
  /\ IF tx[w].aborted THEN UNCHANGED faults ELSE Fails(w)
  /\ RollBack(w)
  /\ UNCHANGED <<driver, tables, cache, log, eventIds, memory, accepted, stale, gap>>

\* Mutant: the entry is not deleted first, and getEndpointStatusByKey finds it.
KeptPage(w, p) == cache[p]

RefreshedPage(w, p) == IF tx[w].aborted THEN NoPage ELSE PageSeen(w, p)

\* What remains of a page when the query for its events or for its results fails,
\* which is only logged: the page is cached without them.  PostgreSQL refuses the
\* results too when the events failed, and the other queries of the transaction.
Partial(page, lost) ==
  [results |-> IF lost = "results" \/ AfterFailure THEN <<>> ELSE page.results,
   events |-> IF lost = "events" THEN <<>> ELSE page.events]

\* The pages that are cached are replaced by what this transaction sees.
RefreshCache(w) ==
  /\ step[w] = "refresh"
  /\ Goto(w, "commit")
  /\ cache' = [p \in Pages |-> IF cache[p] = NoPage THEN NoPage ELSE RefreshedPage(w, p)]
  /\ UNCHANGED <<driver, tables, tx, log, eventIds, history>>

\* A query for one page fails, the first one for the row of the endpoint.  Those
\* that come later are not found either if the transaction is aborted.
RefreshFails(w) ==
  /\ step[w] = "refresh" /\ ~tx[w].aborted
  /\ Fails(w)
  /\ Goto(w, "commit")
  /\ \E p \in Pages, lost \in {"row", "events", "results"}, later \in SUBSET Pages :
       /\ cache[p] # NoPage /\ p \notin later /\ (later # {} => AfterFailure)
       /\ cache' = [q \in Pages |->
                     IF cache[q] = NoPage \/ q \in later \/ (q = p /\ lost = "row") THEN NoPage
                     ELSE IF q = p THEN Partial(PageSeen(w, p), lost)
                     ELSE PageSeen(w, q)]
  /\ tx' = [tx EXCEPT ![w].aborted = AfterFailure, ![w].alone = FALSE]
  /\ stale' = TRUE
  /\ UNCHANGED <<driver, tables, log, eventIds, memory, accepted, gap>>

CommitInsert(w) ==
  /\ step[w] = "commit" /\ ~tx[w].aborted
  /\ exists' = TRUE
  /\ results' = ResultsSeen(w) /\ events' = EventsSeen(w)
  /\ memory' = LET before == memory.results
                   id == tx[w].id
               IN AddResult(memory, id, log[id],
                            IF before = <<>> THEN TRUE ELSE log[Last(before)])
  /\ accepted' = accepted \union {tx[w].id}
  /\ stale' = (stale /\ ~tx[w].alone)
  /\ RollBack(w)
  /\ UNCHANGED <<driver, cache, log, eventIds, faults, gap>>

\* Insert returns the error, after the cache was refreshed.
CommitFails(w) ==
  /\ step[w] = "commit"
  /\ IF tx[w].aborted THEN UNCHANGED faults ELSE Fails(w)
  /\ stale' = TRUE
  /\ RollBack(w)
  /\ UNCHANGED <<driver, tables, cache, log, eventIds, memory, accepted, gap>>
-----------------------------------------------------------------------------
(* Readers, and what happens to the cache and to the endpoint *)

\* GetEndpointStatusByKey, and GetAllEndpointStatuses for every key: a cached
\* page is the answer.
BeginRead(r, p) ==
  /\ Begin(r, [NoTx EXCEPT !.page = p])
  /\ Goto(r, "lookup")
  /\ UNCHANGED <<driver, tables, cache, log, eventIds, memory, accepted, faults>>

Read(r) ==
  LET p == tx[r].page IN
  /\ step[r] = "lookup"
  /\ IF cache[p] # NoPage \/ ~exists
     THEN RollBack(r)
     ELSE /\ tx' = [tx EXCEPT ![r].copy = PageSeen(r, p)]
          /\ Goto(r, "fill")
  /\ UNCHANGED <<driver, tables, cache, log, eventIds, history>>

\* One of the queries of the reader fails: without the row it returns the error,
\* otherwise the page that it goes on with is not complete.
ReadFails(r) ==
  LET p == tx[r].page IN
  /\ step[r] = "lookup" /\ cache[p] = NoPage /\ exists
  /\ Fails(r)
  /\ \/ RollBack(r) /\ UNCHANGED stale
     \/ /\ \E lost \in {"events", "results"} :
             tx' = [tx EXCEPT ![r].copy = Partial(PageSeen(r, p), lost), ![r].alone = FALSE]
        /\ Goto(r, "fill")
        /\ stale' = TRUE
  /\ UNCHANGED <<driver, tables, cache, log, eventIds, memory, accepted, gap>>

FillCache(r) ==
  /\ step[r] = "fill"
  /\ cache' = [cache EXCEPT ![tx[r].page] = tx[r].copy]
  /\ RollBack(r)
  /\ UNCHANGED <<driver, tables, log, eventIds, history>>

\* The time to live of an entry ends, or a restart empties the cache.
Expire(p) ==
  /\ cache[p] # NoPage
  /\ cache' = [cache EXCEPT ![p] = NoPage]
  /\ UNCHANGED <<driver, tables, step, tx, log, eventIds, history>>

\* ON DELETE CASCADE: what remains of the rows when that of the endpoint goes.
Cascaded(rows) == {}

\* DeleteAllEndpointStatusesNotInKeys at the start of a configuration without
\* the endpoint: the rows go with that of the endpoint, the cache is wiped.
DeleteEndpoint ==
  /\ exists /\ \A p \in Procs : step[p] = "idle"
  /\ exists' = FALSE /\ results' = Cascaded(results) /\ events' = Cascaded(events)
  /\ cache' = [p \in Pages |-> NoPage]
  /\ memory' = NewStatus /\ accepted' = {} /\ stale' = FALSE /\ gap' = FALSE
  /\ UNCHANGED <<driver, step, tx, log, eventIds, faults>>

Write(w) ==
  \/ \E success \in BOOLEAN : BeginInsert(w, success)
  \/ InsertEndpoint(w) \/ InsertEvents(w) \/ InsertEventsFails(w)
  \/ InsertResult(w) \/ InsertResultFails(w) \/ RefreshCache(w) \/ RefreshFails(w)
  \/ CommitInsert(w) \/ CommitFails(w)

Show(r) == Read(r) \/ ReadFails(r) \/ FillCache(r) \/ \E p \in Pages : BeginRead(r, p)

Next ==
  \/ \E w \in Writers : Write(w)
  \/ \E r \in Readers : Show(r)
  \/ \E p \in Pages : Expire(p)
  \/ DeleteEndpoint

Spec == Init /\ [][Next]_vars
-----------------------------------------------------------------------------
(* Properties *)

Idle == \A p \in Procs : step[p] = "idle"

\* The tables stay bounded although rows are deleted only above a threshold, in
\* statements that may fail and that do not see what others insert (Insert): what
\* each of them leaves behind is one result or two events.  So does the store in
\* memory, although its first event is not cut (AddResult).
Bounded ==
  LET unseen == faults + (IF gap THEN Cardinality(Writers) - 1 ELSE 0) IN
  /\ Cardinality(results) <= MaxResults + CleanUpThreshold + unseen
  /\ Cardinality(events) <= (IF MaxEvents < 2 THEN 2 ELSE MaxEvents) + 1
                             + CleanUpThreshold + 2 * unseen
  /\ Len(memory.results) <= MaxResults
  /\ Len(memory.events) <= (IF MaxEvents < 2 THEN 2 ELSE MaxEvents)

\* Whatever the clean-ups of concurrent inserts delete, the newest results that
\* Insert accepted, as many as the configuration promises, are there.
NewestAreKept == ToSet(Newest(ById(accepted), MaxResults)) \subseteq results

\* Unless two inserts overlapped or a statement about events failed, the events
\* tell the story of the results: the last one is about the newest result and
\* healthy and unhealthy alternate, across clean-ups and rolled back inserts.
\* An endpoint that was deleted leaves neither behind for one of its name.
EventsTellTheStory ==
  LET types == [i \in 1..Cardinality(events) |-> EventsById(events)[i][2]] IN
  /\ exists /\ ~gap =>
       /\ Last(types) = EventOf(log[Max(results)])
       /\ \A i \in 1..(Len(types) - 1) : types[i] # types[i + 1]
  /\ ~exists => results = {} /\ events = {}

\* When nothing is going on, a cached page is the page of the database.  With
\* SQLite only a commit that fails and a query for a page that fails, and is only
\* logged, can change that; with PostgreSQL transactions that overlap can too.
\* In all cases the next Insert that runs alone, and whose own queries succeed,
\* repairs every page.
CacheIsCommitted ==
  Idle /\ (~stale \/ (driver = "sqlite" /\ faults = 0)) =>
    \A p \in Pages, w \in Writers :
      cache[p] # NoPage => exists /\ cache[p] = PageSeen(w, p)

\* Both stores show the same results on every page within the maximum that both
\* keep (getEndpointResultsByEndpointID, ShallowCopyEndpointStatus), as long as
\* inserts commit in the order of their identifiers.
StoresAgree ==
  ~gap => \A p \in Pages : p[1] * p[2] <= MaxResults =>
    ResultsPage(results, p) = PageOf(memory.results, p[1], p[2])
=============================================================================
