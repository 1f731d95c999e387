--------------------------- MODULE SQLStoreProofs ---------------------------
(***************************************************************************)
(* Proofs about the module SQLStore, for any number of writers, readers,     *)
(* pages, results, events and faults, on both drivers: the write-through     *)
(* cache is coherent, and the rows of results and events are what they       *)
(* should be.                                                                *)
(*                                                                           *)
(* The rows that ORDER BY ... LIMIT selects are characterised by how many    *)
(* rows come after them, so that what a clean-up deletes is a fact about     *)
(* cardinalities (NewestOf).  Every step is one of five effects on the rows  *)
(* (StepKinds): the statements about events, the insertion of the result,    *)
(* the commit, the deletion of the endpoint, or none.  On that rest          *)
(*   RowInv:    what a transaction has not committed is its own, and what it *)
(*              deletes is replaced by newer results;                        *)
(*   Counts:    whichever transactions commit, there are not too many rows;  *)
(*   Story:     what a transaction sees of the events is the story of the    *)
(*              results and of its own;                                      *)
(*   Agreement: the store in memory has the newest of the accepted results.  *)
(***************************************************************************)
EXTENDS SQLStore, Counting, SequenceTheorems, TLAPS
-----------------------------------------------------------------------------
(* The cache *)

Steps == {"idle", "create", "events", "result", "refresh", "commit", "lookup", "fill"}

\* A transaction is a record of its own fields.
IsTx(t) ==
  /\ t = [success |-> t.success, page |-> t.page, creates |-> t.creates,
          aborted |-> t.aborted, alone |-> t.alone, id |-> t.id,
          addedResults |-> t.addedResults, deletedResults |-> t.deletedResults,
          addedEvents |-> t.addedEvents, deletedEvents |-> t.deletedEvents,
          copy |-> t.copy]
  /\ t.alone \in BOOLEAN /\ t.aborted \in BOOLEAN

\* Whose transaction wrote nothing sees what is committed.
WroteNothing(t) ==
  /\ t.addedResults = {} /\ t.deletedResults = {}
  /\ t.addedEvents = {} /\ t.deletedEvents = {}

Committed(p) == [results |-> ResultsPage(results, p), events |-> EventsPage(events, p)]

Shapes ==
  /\ step \in [Procs -> Steps]
  /\ tx = [p \in Procs |-> tx[p]] /\ \A p \in Procs : IsTx(tx[p])
  /\ cache = [p \in Pages |-> cache[p]]
  /\ faults \in Nat /\ stale \in BOOLEAN /\ exists \in BOOLEAN

\* What has not begun, or only reads, wrote nothing.
Clean ==
  /\ \A p \in Procs : step[p] = "idle" => tx[p] = NoTx
  /\ \A r \in Readers : WroteNothing(tx[r])

\* A transaction that believes it is alone is; unless the cache may be stale,
\* every transaction is.
Exclusive ==
  /\ \A p \in Procs : step[p] # "idle" /\ tx[p].alone => Alone(p)
  /\ \A p \in Procs : step[p] # "idle" /\ ~stale => tx[p].alone

\* Between the refresh and the commit of a lonely Insert the cache shows what
\* it is about to commit, between the statements and the end of a lonely reader
\* its copy shows what is committed.
PendingWrites ==
  \A w \in Writers : step[w] = "commit" /\ tx[w].alone =>
    \A p \in Pages : cache[p] # NoPage => cache[p] = PageSeen(w, p)

PendingReads ==
  \A r \in Readers : step[r] = "fill" /\ tx[r].alone =>
    exists /\ tx[r].copy = Committed(tx[r].page)

\* Otherwise the cache shows what is committed.
Coherent ==
  ~stale /\ (\A w \in Writers : step[w] # "commit") =>
    \A p \in Pages : cache[p] # NoPage => exists /\ cache[p] = Committed(p)

\* With one connection only something that fails makes the cache stale.
OneConnection ==
  driver = "sqlite" =>
    /\ \A p \in Procs : ~tx[p].aborted
    /\ faults = 0 => ~stale

CacheInv == Shapes /\ Clean /\ Exclusive /\ PendingWrites /\ PendingReads
            /\ Coherent /\ OneConnection
-----------------------------------------------------------------------------
LEMMA Parts ==
  /\ Writers \subseteq Procs /\ Readers \subseteq Procs
  /\ \A w \in Writers, r \in Readers : w # r
  BY SQLAssumption DEF Procs

LEMMA NoTxIsTx == IsTx(NoTx) /\ WroteNothing(NoTx) /\ NoTx.alone /\ ~NoTx.aborted
  BY DEF IsTx, NoTx, WroteNothing

LEMMA SeesCommitted ==
  ASSUME NEW w, NEW p, WroteNothing(tx[w])
  PROVE  PageSeen(w, p) = Committed(p)
<1>1. ResultsSeen(w) = results /\ EventsSeen(w) = events
  BY DEF WroteNothing, ResultsSeen, EventsSeen
<1> QED
  BY <1>1 DEF PageSeen, Committed

LEMMA SameSeen ==
  ASSUME NEW w, NEW p, tx'[w] = tx[w], UNCHANGED <<results, events>>
  PROVE  PageSeen(w, p)' = PageSeen(w, p) /\ Committed(p)' = Committed(p)
  BY DEF PageSeen, Committed, ResultsSeen, EventsSeen

LEMMA InitCacheInv == Init => CacheInv
<1> SUFFICES ASSUME Init PROVE CacheInv
  OBVIOUS
<1>1. \A p \in Procs : step[p] = "idle" /\ tx[p] = NoTx
  BY DEF Init
<1>2. \A p \in Pages : cache[p] = NoPage
  BY DEF Init
<1>3. Shapes
  BY NoTxIsTx, <1>1 DEF Init, Shapes, Steps
<1>4. Clean /\ Exclusive /\ PendingWrites /\ PendingReads
  BY NoTxIsTx, Parts, <1>1 DEF Clean, Exclusive, PendingWrites, PendingReads
<1>5. Coherent
  BY <1>2 DEF Coherent
<1>6. OneConnection
  BY NoTxIsTx, <1>1 DEF Init, OneConnection
<1> QED
  BY <1>3, <1>4, <1>5, <1>6 DEF CacheInv

-----------------------------------------------------------------------------
(* What the actions do to one process, in the terms of the invariant. *)

Others(p) ==
  \A q \in Procs \ {p} : step'[q] = step[q] /\ tx'[q] = tx[q]

Tables == UNCHANGED <<exists, results, events>>

\* A statement between the first and the refresh, or the one of a reader.
Works(p) ==
  /\ step[p] # "idle" /\ step[p] # "commit" /\ Others(p) /\ Tables /\ UNCHANGED <<driver, cache, stale>>
  /\ step' \in [Procs -> Steps] /\ step'[p] # "idle"
  /\ tx' = [q \in Procs |-> tx'[q]] /\ IsTx(tx'[p])
  /\ tx'[p].alone = tx[p].alone
  /\ driver = "sqlite" /\ ~tx[p].aborted => ~tx'[p].aborted
  /\ faults' \in Nat /\ (faults' = 0 => faults = 0)

WorksAsWriter(w) == Works(w) /\ step'[w] # "commit"

WorksAsReader(r) ==
  /\ Works(r) /\ step[r] = "lookup" /\ step'[r] = "fill" /\ exists
  /\ tx'[r].copy = Committed(tx'[r].page) /\ WroteNothing(tx'[r])

\* A transaction ends without a commit.
Leaves(p) ==
  /\ Others(p) /\ Tables /\ UNCHANGED <<driver, cache>>
  /\ step' \in [Procs -> Steps] /\ step'[p] = "idle"
  /\ tx' = [q \in Procs |-> tx'[q]] /\ tx'[p] = NoTx
  /\ faults' \in Nat /\ (faults' = 0 => faults = 0)

\* A query behind a page failed: whatever is cached now is known to be doubtful.
Loses(p) ==
  /\ step[p] # "idle" /\ Others(p) /\ Tables /\ UNCHANGED driver
  /\ cache' = [q \in Pages |-> cache'[q]] /\ stale' = TRUE
  /\ step' \in [Procs -> Steps] /\ step'[p] # "idle"
  /\ tx' = [q \in Procs |-> tx'[q]] /\ IsTx(tx'[p]) /\ ~tx'[p].alone
  /\ WroteNothing(tx[p]) => WroteNothing(tx'[p])
  /\ driver = "sqlite" => ~tx'[p].aborted
  /\ faults' \in Nat /\ faults' # 0

LEMMA RollBackLeaves ==
  ASSUME Shapes, NEW p \in Procs, RollBack(p)
  PROVE  /\ Others(p) /\ step' \in [Procs -> Steps] /\ step'[p] = "idle"
         /\ tx' = [q \in Procs |-> tx'[q]] /\ tx'[p] = NoTx
  BY DEF RollBack, Goto, Shapes, Others, Steps

LEMMA FailsCount == ASSUME Shapes, NEW w, Fails(w) PROVE faults' \in Nat /\ faults' # 0
  BY SMT DEF Fails, Shapes

LEMMA InsertEndpointCases ==
  ASSUME Shapes, NEW w \in Writers, InsertEndpoint(w)
  PROVE  WorksAsWriter(w) \/ (Leaves(w) /\ UNCHANGED stale)
<1>0. w \in Procs
  BY Parts
<1>1. CASE exists
  BY <1>0, <1>1, RollBackLeaves DEF InsertEndpoint, Leaves, Shapes, Tables, tables, history
<1>2. CASE ~exists
  <2>1. tx' = [tx EXCEPT ![w].creates = TRUE] /\ step' = [step EXCEPT ![w] = "events"]
    BY <1>2 DEF InsertEndpoint, Goto
  <2>2. /\ tx'[w] = [tx[w] EXCEPT !.creates = TRUE]
        /\ \A q \in Procs \ {w} : tx'[q] = tx[q] /\ step'[q] = step[q]
        /\ tx' = [q \in Procs |-> tx'[q]]
    BY <1>0, <2>1 DEF Shapes
  <2>3. IsTx(tx'[w]) /\ tx'[w].alone = tx[w].alone /\ tx'[w].aborted = tx[w].aborted
    BY <1>0, <2>2 DEF Shapes, IsTx
  <2>4. step' \in [Procs -> Steps] /\ step'[w] = "events" /\ step[w] = "create"
    BY <1>0, <2>1 DEF InsertEndpoint, Shapes, Steps
  <2> QED
    BY <2>2, <2>3, <2>4 DEF WorksAsWriter, Works, Others, InsertEndpoint, Tables, tables, history, Shapes
<1> QED
  BY <1>1, <1>2

\* The part of Works that is about the transaction.
Keeps(w) ==
  /\ \A q \in Procs \ {w} : tx'[q] = tx[q]
  /\ tx' = [q \in Procs |-> tx'[q]] /\ IsTx(tx'[w])
  /\ tx'[w].alone = tx[w].alone

LEMMA WithEventsKeeps ==
  ASSUME Shapes, NEW w \in Procs, NEW added, NEW deleted, WithEvents(w, added, deleted)
  PROVE  Keeps(w) /\ tx'[w].aborted = tx[w].aborted
<1>1. /\ tx'[w] = [tx[w] EXCEPT !.addedEvents = (@ \union added) \ deleted,
                                !.deletedEvents = @ \union (deleted \intersect events)]
      /\ \A q \in Procs \ {w} : tx'[q] = tx[q]
      /\ tx' = [q \in Procs |-> tx'[q]]
  BY DEF WithEvents, Shapes
<1> QED
  BY <1>1 DEF Keeps, IsTx, Shapes

LEMMA WithResultKeeps ==
  ASSUME Shapes, NEW w \in Procs, NEW id, NEW deleted, NEW aborted \in BOOLEAN,
         WithResult(w, id, deleted, aborted)
  PROVE  Keeps(w) /\ tx'[w].aborted = aborted
<1>1. /\ tx'[w] = [tx[w] EXCEPT !.id = id, !.addedResults = {id} \ deleted,
                                !.deletedResults = deleted \intersect results,
                                !.aborted = aborted]
      /\ \A q \in Procs \ {w} : tx'[q] = tx[q]
      /\ tx' = [q \in Procs |-> tx'[q]]
  BY DEF WithResult, Shapes
<1> QED
  BY <1>1 DEF Keeps, IsTx, Shapes

LEMMA AbortedKeeps ==
  ASSUME Shapes, NEW w \in Procs, tx' = [tx EXCEPT ![w].aborted = TRUE]
  PROVE  Keeps(w)
<1>1. /\ tx'[w] = [tx[w] EXCEPT !.aborted = TRUE]
      /\ \A q \in Procs \ {w} : tx'[q] = tx[q]
      /\ tx' = [q \in Procs |-> tx'[q]]
  BY DEF Shapes
<1>2. IsTx(tx[w])
  BY DEF Shapes
<1>3. IsTx(tx'[w]) /\ tx'[w].alone = tx[w].alone
  BY <1>1, <1>2 DEF IsTx
<1> QED
  BY <1>1, <1>3 DEF Keeps

LEMMA GotoMoves ==
  ASSUME Shapes, NEW w \in Procs, NEW s \in Steps, Goto(w, s)
  PROVE  /\ \A q \in Procs \ {w} : step'[q] = step[q]
         /\ step' \in [Procs -> Steps] /\ step'[w] = s
  BY DEF Goto, Shapes

LEMMA InsertEventsWorks ==
  ASSUME Shapes, NEW w \in Writers, InsertEvents(w)
  PROVE  WorksAsWriter(w)
<1>0. w \in Procs /\ "result" \in Steps
  BY Parts DEF Steps
<1>1. PICK added, deleted : WithEvents(w, added, deleted)
  BY DEF InsertEvents
<1>2. Keeps(w) /\ tx'[w].aborted = tx[w].aborted
  BY <1>0, <1>1, WithEventsKeeps
<1>3. step[w] = "events" /\ Goto(w, "result")
  BY DEF InsertEvents
<1>4. /\ \A q \in Procs \ {w} : step'[q] = step[q]
      /\ step' \in [Procs -> Steps] /\ step'[w] = "result"
  BY <1>0, <1>3, GotoMoves
<1>5. Tables /\ UNCHANGED <<driver, cache, stale, faults>> /\ faults \in Nat
  BY DEF InsertEvents, Tables, tables, history, Shapes
<1> QED
  BY <1>2, <1>3, <1>4, <1>5 DEF WorksAsWriter, Works, Keeps, Others

LEMMA InsertEventsFailsWorks ==
  ASSUME Shapes, NEW w \in Writers, InsertEventsFails(w)
  PROVE  WorksAsWriter(w)
<1>0. w \in Procs /\ "result" \in Steps
  BY Parts DEF Steps
<1>1. Keeps(w) /\ (driver = "sqlite" => tx'[w].aborted = tx[w].aborted)
  <2>1. CASE AfterFailure
    <3>1. tx' = [tx EXCEPT ![w].aborted = TRUE]
      BY <2>1 DEF InsertEventsFails
    <3> QED
      BY <1>0, <2>1, <3>1, AbortedKeeps DEF AfterFailure
  <2>2. CASE ~AfterFailure
    <3>1. PICK added, deleted : WithEvents(w, added, deleted)
      BY <2>2 DEF InsertEventsFails
    <3> QED
      BY <1>0, <3>1, WithEventsKeeps
  <2> QED
    BY <2>1, <2>2
<1>2. step[w] = "events" /\ Goto(w, "result") /\ Fails(w)
  BY DEF InsertEventsFails
<1>3. /\ \A q \in Procs \ {w} : step'[q] = step[q]
      /\ step' \in [Procs -> Steps] /\ step'[w] = "result"
  BY <1>0, <1>2, GotoMoves
<1>4. Tables /\ UNCHANGED <<driver, cache, stale>> /\ faults' \in Nat /\ faults' # 0
  BY <1>2, FailsCount DEF InsertEventsFails, Tables, tables
<1> QED
  BY <1>1, <1>2, <1>3, <1>4 DEF WorksAsWriter, Works, Keeps, Others

LEMMA InsertResultWorks ==
  ASSUME Shapes, NEW w \in Writers, InsertResult(w)
  PROVE  WorksAsWriter(w)
<1>0. w \in Procs /\ "refresh" \in Steps
  BY Parts DEF Steps
<1>1. /\ Keeps(w) /\ (driver = "sqlite" => ~tx'[w].aborted)
      /\ faults' \in Nat /\ (faults' = 0 => faults = 0)
  <2> DEFINE id == Len(log) + 1
  <2>1. CASE WithResult(w, id, ResultsToDelete(w, id), FALSE) /\ UNCHANGED faults
    BY <1>0, <2>1, WithResultKeeps DEF Shapes
  <2>2. CASE WithResult(w, id, {}, AfterFailure) /\ Fails(w)
    <3>1. AfterFailure \in BOOLEAN /\ (driver = "sqlite" => ~AfterFailure)
      BY DEF AfterFailure
    <3>2. Keeps(w) /\ tx'[w].aborted = AfterFailure
      BY <1>0, <2>2, <3>1, WithResultKeeps
    <3> QED
      BY <2>2, <3>1, <3>2, FailsCount
  <2> QED
    BY <2>1, <2>2 DEF InsertResult
<1>2. step[w] = "result" /\ Goto(w, "refresh")
  BY DEF InsertResult
<1>3. /\ \A q \in Procs \ {w} : step'[q] = step[q]
      /\ step' \in [Procs -> Steps] /\ step'[w] = "refresh"
  BY <1>0, <1>2, GotoMoves
<1>4. Tables /\ UNCHANGED <<driver, cache, stale>>
  BY DEF InsertResult, Tables, tables
<1> QED
  BY <1>1, <1>2, <1>3, <1>4 DEF WorksAsWriter, Works, Keeps, Others

LEMMA InsertResultFailsLeaves ==
  ASSUME Shapes, NEW w \in Writers, InsertResultFails(w)
  PROVE  Leaves(w) /\ UNCHANGED stale
<1>1. w \in Procs /\ RollBack(w)
  BY Parts DEF InsertResultFails
<1>2. faults' \in Nat /\ (faults' = 0 => faults = 0)
  BY FailsCount DEF InsertResultFails, Shapes
<1> QED
  BY <1>1, <1>2, RollBackLeaves DEF InsertResultFails, Leaves, Tables, tables

LEMMA CommitFailsLeaves ==
  ASSUME Shapes, OneConnection, NEW w \in Writers, CommitFails(w)
  PROVE  Leaves(w) /\ stale' = TRUE /\ (driver = "sqlite" => faults' # 0)
<1>1. w \in Procs /\ RollBack(w)
  BY Parts DEF CommitFails
<1>2. faults' \in Nat /\ (faults' = 0 => faults = 0) /\ (driver = "sqlite" => faults' # 0)
  BY <1>1, FailsCount DEF CommitFails, Shapes, OneConnection
<1> QED
  BY <1>1, <1>2, RollBackLeaves DEF CommitFails, Leaves, Tables, tables

LEMMA ReadCases ==
  ASSUME Shapes, Clean, NEW r \in Readers, Read(r)
  PROVE  WorksAsReader(r) \/ (Leaves(r) /\ UNCHANGED stale)
<1> DEFINE p == tx[r].page
<1>0. r \in Procs /\ "fill" \in Steps
  BY Parts DEF Steps
<1>1. CASE cache[p] # NoPage \/ ~exists
  BY <1>0, <1>1, RollBackLeaves DEF Read, Leaves, Shapes, Tables, tables, history
<1>2. CASE ~(cache[p] # NoPage \/ ~exists)
  <2>1. /\ tx' = [tx EXCEPT ![r].copy = PageSeen(r, p)] /\ Goto(r, "fill")
        /\ step[r] = "lookup" /\ exists
    BY <1>2 DEF Read
  <2>2. /\ tx'[r] = [tx[r] EXCEPT !.copy = PageSeen(r, p)]
        /\ \A q \in Procs \ {r} : tx'[q] = tx[q]
        /\ tx' = [q \in Procs |-> tx'[q]]
    BY <1>0, <2>1 DEF Shapes
  <2>3. WroteNothing(tx[r]) /\ IsTx(tx[r])
    BY <1>0 DEF Clean, Shapes
  <2>4. /\ IsTx(tx'[r]) /\ WroteNothing(tx'[r]) /\ tx'[r].alone = tx[r].alone
        /\ tx'[r].aborted = tx[r].aborted
        /\ tx'[r].copy = PageSeen(r, p) /\ tx'[r].page = p
    BY <2>2, <2>3 DEF IsTx, WroteNothing
  <2>5. PageSeen(r, p) = Committed(p)
    BY <2>3, SeesCommitted
  <2>6. /\ \A q \in Procs \ {r} : step'[q] = step[q]
        /\ step' \in [Procs -> Steps] /\ step'[r] = "fill"
    BY <1>0, <2>1, GotoMoves
  <2>7. Tables /\ UNCHANGED <<driver, cache, stale, faults>> /\ faults \in Nat
    BY DEF Read, Tables, tables, history, Shapes
  <2> QED
    BY <2>1, <2>2, <2>4, <2>5, <2>6, <2>7 DEF WorksAsReader, Works, Others
<1> QED
  BY <1>1, <1>2

LEMMA ReadFailsCases ==
  ASSUME Shapes, OneConnection, NEW r \in Readers, ReadFails(r)
  PROVE  Loses(r) \/ (Leaves(r) /\ UNCHANGED stale)
<1>0. r \in Procs /\ "fill" \in Steps
  BY Parts DEF Steps
<1>1. faults' \in Nat /\ faults' # 0
  BY FailsCount DEF ReadFails
<1>2. CASE RollBack(r) /\ UNCHANGED stale
  BY <1>0, <1>1, <1>2, RollBackLeaves DEF ReadFails, Leaves, Tables, tables
<1>3. ASSUME NEW lost,
             tx' = [tx EXCEPT ![r].copy = Partial(PageSeen(r, tx[r].page), lost), ![r].alone = FALSE],
             Goto(r, "fill"), stale' = TRUE
      PROVE  Loses(r)
  <2> DEFINE copy == Partial(PageSeen(r, tx[r].page), lost)
  <2> HIDE DEF copy
  <2>1. /\ tx'[r] = [tx[r] EXCEPT !.copy = copy, !.alone = FALSE]
        /\ \A q \in Procs \ {r} : tx'[q] = tx[q]
        /\ tx' = [q \in Procs |-> tx'[q]]
    BY <1>0, <1>3 DEF Shapes, copy
  <2>2. IsTx(tx[r])
    BY <1>0 DEF Shapes
  <2>3. /\ IsTx(tx'[r]) /\ ~tx'[r].alone /\ tx'[r].aborted = tx[r].aborted
        /\ WroteNothing(tx[r]) => WroteNothing(tx'[r])
    BY <2>1, <2>2 DEF IsTx, WroteNothing
  <2>4. /\ \A q \in Procs \ {r} : step'[q] = step[q]
        /\ step' \in [Procs -> Steps] /\ step'[r] = "fill"
    BY <1>0, <1>3, GotoMoves
  <2>5. Tables /\ UNCHANGED <<driver, cache>> /\ step[r] = "lookup"
    BY DEF ReadFails, Tables, tables
  <2>6. driver = "sqlite" => ~tx[r].aborted
    BY <1>0 DEF OneConnection
  <2>7. cache' = [q \in Pages |-> cache'[q]]
    BY <2>5 DEF Shapes
  <2> QED
    BY <1>1, <1>3, <2>1, <2>3, <2>4, <2>5, <2>6, <2>7 DEF Loses, Others
<1> QED
  BY <1>2, <1>3 DEF ReadFails

LEMMA RefreshFailsLoses ==
  ASSUME Shapes, NEW w \in Writers, RefreshFails(w)
  PROVE  /\ Loses(w) /\ step[w] = "refresh" /\ step'[w] = "commit"
         /\ tx'[w] = [tx[w] EXCEPT !.aborted = AfterFailure, !.alone = FALSE]
<1>0. w \in Procs /\ "commit" \in Steps
  BY Parts DEF Steps
<1>1. faults' \in Nat /\ faults' # 0
  BY FailsCount DEF RefreshFails
<1>2. /\ tx'[w] = [tx[w] EXCEPT !.aborted = AfterFailure, !.alone = FALSE]
      /\ \A q \in Procs \ {w} : tx'[q] = tx[q]
      /\ tx' = [q \in Procs |-> tx'[q]]
  BY <1>0 DEF RefreshFails, Shapes
<1>3. IsTx(tx[w])
  BY <1>0 DEF Shapes
<1>4. AfterFailure \in BOOLEAN /\ (driver = "sqlite" => ~AfterFailure)
  BY DEF AfterFailure
<1>5. /\ IsTx(tx'[w]) /\ ~tx'[w].alone /\ tx'[w].aborted = AfterFailure
      /\ WroteNothing(tx[w]) => WroteNothing(tx'[w])
  BY <1>2, <1>3, <1>4 DEF IsTx, WroteNothing
<1>6. /\ \A q \in Procs \ {w} : step'[q] = step[q]
      /\ step' \in [Procs -> Steps] /\ step'[w] = "commit"
  BY <1>0, GotoMoves DEF RefreshFails
<1>7. Tables /\ UNCHANGED driver /\ step[w] = "refresh" /\ stale' = TRUE
  BY DEF RefreshFails, Tables, tables
<1>8. cache' = [q \in Pages |-> cache'[q]]
  BY DEF RefreshFails
<1> QED
  BY <1>1, <1>2, <1>4, <1>5, <1>6, <1>7, <1>8 DEF Loses, Others

-----------------------------------------------------------------------------
(* Every kind of step preserves the invariant. *)

LEMMA LosesKeeps ==
  ASSUME CacheInv, NEW p \in Procs, Loses(p)
  PROVE  CacheInv'
<1>1. /\ \A q \in Procs : q # p => step'[q] = step[q] /\ tx'[q] = tx[q]
      /\ step[p] # "idle" /\ step'[p] # "idle" /\ stale' = TRUE
      /\ IsTx(tx'[p]) /\ ~tx'[p].alone
      /\ UNCHANGED <<exists, results, events, driver>>
  BY DEF Loses, Others, Tables
<1>2. \A q \in Procs : step'[q] = "idle" <=> step[q] = "idle"
  BY <1>1
<1>3. Shapes'
  BY <1>1 DEF CacheInv, Shapes, Loses
<1>4. Clean'
  <2>1. \A r \in Readers : WroteNothing(tx[r])'
    BY <1>1, Parts DEF CacheInv, Clean, WroteNothing, Loses
  <2>2. \A q \in Procs : step'[q] = "idle" => tx'[q] = NoTx
    BY <1>1 DEF CacheInv, Clean
  <2> QED
    BY <2>1, <2>2 DEF Clean
\* Whoever else is in a transaction does not run alone, because this one is.
<1>5. \A q \in Procs : step'[q] # "idle" => ~tx'[q].alone
  <2>1. TAKE q \in Procs
  <2>2. HAVE step'[q] # "idle"
  <2>3. CASE q = p
    BY <1>1, <2>3
  <2>4. CASE q # p
    BY <1>1, <2>2, <2>4 DEF CacheInv, Exclusive, Alone
  <2> QED
    BY <2>3, <2>4
<1>6. Exclusive' /\ PendingWrites' /\ PendingReads'
  BY <1>1, <1>5, Parts DEF Exclusive, PendingWrites, PendingReads
<1>7. Coherent'
  BY <1>1 DEF Coherent
<1>8. OneConnection'
  BY <1>1 DEF CacheInv, OneConnection, Loses
<1> QED
  BY <1>3, <1>4, <1>6, <1>7, <1>8 DEF CacheInv

LEMMA WorksAsWriterKeeps ==
  ASSUME CacheInv, NEW w \in Writers, WorksAsWriter(w)
  PROVE  CacheInv'
<1>0. w \in Procs /\ w \notin Readers
  BY Parts
<1>1. /\ \A q \in Procs : q # w => step'[q] = step[q] /\ tx'[q] = tx[q]
      /\ step[w] # "idle" /\ step[w] # "commit"
      /\ step'[w] # "idle" /\ step'[w] # "commit"
      /\ tx'[w].alone = tx[w].alone /\ IsTx(tx'[w])
      /\ UNCHANGED <<exists, results, events, driver, cache, stale>>
  BY DEF WorksAsWriter, Works, Others, Tables
<1>2. \A q \in Procs : (step'[q] = "idle" <=> step[q] = "idle") /\ tx'[q].alone = tx[q].alone
  BY <1>0, <1>1
<1>3. Shapes'
  BY <1>1, <1>0 DEF CacheInv, Shapes, WorksAsWriter, Works
<1>4. Clean'
  BY <1>0, <1>1, <1>2, Parts DEF CacheInv, Clean, WroteNothing
<1>5. Exclusive'
  BY <1>1, <1>2 DEF CacheInv, Exclusive, Alone
<1>6. PendingWrites' /\ PendingReads'
  <2>1. \A v \in Writers : step'[v] = "commit" => v # w /\ v \in Procs
    BY <1>1, Parts
  <2>2. \A v \in Procs : v # w => \A p \in Pages : PageSeen(v, p)' = PageSeen(v, p)
    BY <1>1, SameSeen
  <2>3. PendingWrites'
    BY <1>1, <2>1, <2>2 DEF CacheInv, PendingWrites
  <2>4. \A r \in Readers : r \in Procs /\ r # w
    BY <1>0, Parts
  <2>5. PendingReads'
    BY <1>1, <2>4 DEF CacheInv, PendingReads, Committed
  <2> QED
    BY <2>3, <2>5
<1>7. Coherent'
  <2>1. ASSUME ~stale', \A v \in Writers : step'[v] # "commit"
        PROVE  \A p \in Pages : cache'[p] # NoPage => exists' /\ cache'[p] = Committed(p)'
    <3>1. \A v \in Writers : step[v] # "commit"
      BY <1>1, <2>1, Parts
    <3> QED
      BY <1>1, <2>1, <3>1 DEF CacheInv, Coherent, Committed
  <2> QED
    BY <2>1 DEF Coherent
<1>8. OneConnection'
  BY <1>0, <1>1 DEF CacheInv, OneConnection, WorksAsWriter, Works
<1> QED
  BY <1>3, <1>4, <1>5, <1>6, <1>7, <1>8 DEF CacheInv

LEMMA WorksAsReaderKeeps ==
  ASSUME CacheInv, NEW r \in Readers, WorksAsReader(r)
  PROVE  CacheInv'
<1>0. r \in Procs /\ r \notin Writers
  BY Parts
<1>1. /\ \A q \in Procs : q # r => step'[q] = step[q] /\ tx'[q] = tx[q]
      /\ step[r] # "idle" /\ step'[r] = "fill" /\ exists
      /\ tx'[r].alone = tx[r].alone /\ IsTx(tx'[r]) /\ WroteNothing(tx'[r])
      /\ tx'[r].copy = Committed(tx'[r].page)
      /\ UNCHANGED <<exists, results, events, driver, cache, stale>>
  BY DEF WorksAsReader, Works, Others, Tables
<1>2. \A q \in Procs : (step'[q] = "idle" <=> step[q] = "idle") /\ tx'[q].alone = tx[q].alone
  BY <1>0, <1>1
<1>3. Shapes'
  BY <1>1, <1>0 DEF CacheInv, Shapes, WorksAsReader, Works
<1>4. Clean'
  BY <1>0, <1>1, <1>2, Parts DEF CacheInv, Clean, WroteNothing
<1>5. Exclusive'
  BY <1>1, <1>2 DEF CacheInv, Exclusive, Alone
<1>6. \A v \in Writers : v \in Procs /\ v # r
  BY <1>0, Parts
<1>7. PendingWrites'
  <2>1. \A v \in Procs : v # r => \A p \in Pages : PageSeen(v, p)' = PageSeen(v, p)
    BY <1>1, SameSeen
  <2> QED
    BY <1>1, <1>6, <2>1 DEF CacheInv, PendingWrites
<1>8. PendingReads'
  <2>1. \A q \in Readers : q \in Procs
    BY Parts
  <2> QED
    BY <1>1, <2>1 DEF CacheInv, PendingReads, Committed
<1>9. Coherent'
  BY <1>1, <1>6 DEF CacheInv, Coherent, Committed
<1>10. OneConnection'
  BY <1>0, <1>1 DEF CacheInv, OneConnection, WorksAsReader, Works
<1> QED
  BY <1>3, <1>4, <1>5, <1>7, <1>8, <1>9, <1>10 DEF CacheInv

LEMMA LeavesKeeps ==
  ASSUME CacheInv, NEW p \in Procs, Leaves(p),
         \/ stale' = TRUE /\ (driver = "sqlite" => faults' # 0)
         \/ stale' = stale /\ step[p] # "commit"
  PROVE  CacheInv'
<1>1. /\ \A q \in Procs : q # p => step'[q] = step[q] /\ tx'[q] = tx[q]
      /\ step'[p] = "idle" /\ tx'[p] = NoTx
      /\ UNCHANGED <<exists, results, events, driver, cache>>
  BY DEF Leaves, Others, Tables
<1>2. stale' \in BOOLEAN /\ (~stale' => ~stale /\ step[p] # "commit")
  BY DEF CacheInv, Shapes
<1>3. Shapes'
  BY <1>1, <1>2, NoTxIsTx DEF CacheInv, Shapes, Leaves
<1>4. Clean'
  BY <1>1, NoTxIsTx, Parts DEF CacheInv, Clean, WroteNothing
<1>5. Exclusive'
  BY <1>1, <1>2 DEF CacheInv, Exclusive, Alone
<1>6. PendingWrites'
  <2>1. \A v \in Procs : v # p => \A g \in Pages : PageSeen(v, g)' = PageSeen(v, g)
    BY <1>1, SameSeen
  <2> QED
    BY <1>1, <2>1, Parts DEF CacheInv, PendingWrites
<1>7. PendingReads'
  <2>1. \A q \in Readers : q \in Procs
    BY Parts
  <2> QED
    BY <1>1, <2>1 DEF CacheInv, PendingReads, Committed
<1>8. Coherent'
  <2>1. SUFFICES ASSUME ~stale', \A v \in Writers : step'[v] # "commit"
                 PROVE  \A v \in Writers : step[v] # "commit"
    BY <1>1, <1>2 DEF CacheInv, Coherent, Committed
  <2> QED
    BY <1>1, <1>2, <2>1, Parts
<1>9. OneConnection'
  <2>1. \A q \in Procs : driver = "sqlite" => ~tx'[q].aborted
    BY <1>1, NoTxIsTx DEF CacheInv, OneConnection
  <2>2. driver = "sqlite" /\ faults' = 0 => ~stale'
    BY DEF CacheInv, OneConnection, Leaves
  <2> QED
    BY <1>1, <2>1, <2>2 DEF OneConnection
<1> QED
  BY <1>3, <1>4, <1>5, <1>6, <1>7, <1>8, <1>9 DEF CacheInv

\* A transaction begins, with the arguments of the call.
Begins(p) ==
  /\ step[p] = "idle" /\ Connection(p) /\ Tables
  /\ UNCHANGED <<driver, cache, faults>>
  /\ stale' = (stale \/ ~Alone(p))
  /\ \A q \in Procs \ {p} : step'[q] = step[q]
  /\ step' \in [Procs -> Steps] /\ step'[p] \in {"create", "events", "lookup"}
  /\ tx' = [q \in Procs |-> tx'[q]]
  /\ IsTx(tx'[p]) /\ WroteNothing(tx'[p])
  /\ tx'[p].alone = Alone(p) /\ ~tx'[p].aborted
  /\ \A q \in Procs \ {p} :
       tx'[q] = IF step[q] = "idle" THEN NoTx ELSE [tx[q] EXCEPT !.alone = FALSE]

LEMMA BeginBegins ==
  ASSUME Shapes, NEW p \in Procs, NEW args, NEW s \in {"create", "events", "lookup"},
         IsTx(args), WroteNothing(args), ~args.aborted,
         Begin(p, args), Goto(p, s), UNCHANGED <<driver, tables, cache, faults>>
  PROVE  Begins(p)
<1>1. /\ \A q \in Procs \ {p} : step'[q] = step[q]
      /\ step' \in [Procs -> Steps] /\ step'[p] = s
  <2>1. s \in Steps
    BY DEF Steps
  <2> QED
    BY <2>1, GotoMoves
<1>2. tx'[p] = [args EXCEPT !.alone = Alone(p)]
  BY DEF Begin
<1>3. Alone(p) \in BOOLEAN
  BY DEF Alone
<1>4. /\ IsTx(tx'[p]) /\ WroteNothing(tx'[p])
      /\ tx'[p].alone = Alone(p) /\ ~tx'[p].aborted
  BY <1>2, <1>3 DEF IsTx, WroteNothing
<1>5. /\ tx' = [q \in Procs |-> tx'[q]]
      /\ \A q \in Procs \ {p} :
           tx'[q] = IF step[q] = "idle" THEN NoTx ELSE [tx[q] EXCEPT !.alone = FALSE]
  BY DEF Begin
<1>6. /\ step[p] = "idle" /\ Connection(p) /\ Tables
      /\ stale' = (stale \/ ~Alone(p))
  BY DEF Begin, Tables, tables
<1> QED
  BY <1>1, <1>4, <1>5, <1>6 DEF Begins

LEMMA ArgumentsAreTx ==
  ASSUME NEW t, NEW x, IsTx(t), WroteNothing(t), ~t.aborted
  PROVE  /\ LET args == [t EXCEPT !.success = x]
            IN IsTx(args) /\ WroteNothing(args) /\ ~args.aborted
         /\ LET args == [t EXCEPT !.page = x]
            IN IsTx(args) /\ WroteNothing(args) /\ ~args.aborted
  BY DEF IsTx, WroteNothing

LEMMA BeginInsertBegins ==
  ASSUME Shapes, NEW w \in Writers, NEW success, BeginInsert(w, success)
  PROVE  Begins(w)
<1> DEFINE args == [NoTx EXCEPT !.success = success]
<1>1. w \in Procs
  BY Parts
<1>2. IsTx(args) /\ WroteNothing(args) /\ ~args.aborted
  BY NoTxIsTx, ArgumentsAreTx
<1>3. PICK s \in {"create", "events", "lookup"} : Goto(w, s)
  BY DEF BeginInsert
<1>4. Begin(w, args) /\ UNCHANGED <<driver, tables, cache, faults>>
  BY DEF BeginInsert
<1> HIDE DEF args
<1> QED
  BY <1>1, <1>2, <1>3, <1>4, BeginBegins

LEMMA BeginReadBegins ==
  ASSUME Shapes, NEW r \in Readers, NEW p, BeginRead(r, p)
  PROVE  Begins(r)
<1> DEFINE args == [NoTx EXCEPT !.page = p]
<1>1. r \in Procs
  BY Parts
<1>2. IsTx(args) /\ WroteNothing(args) /\ ~args.aborted
  BY NoTxIsTx, ArgumentsAreTx
<1>3. Goto(r, "lookup") /\ Begin(r, args) /\ UNCHANGED <<driver, tables, cache, faults>>
  BY DEF BeginRead
<1> HIDE DEF args
<1> QED
  BY <1>1, <1>2, <1>3, BeginBegins

LEMMA BeginsKeeps ==
  ASSUME CacheInv, NEW p \in Procs, Begins(p)
  PROVE  CacheInv'
<1>1. /\ \A q \in Procs : q # p => step'[q] = step[q]
      /\ step[p] = "idle" /\ step'[p] \in {"create", "events", "lookup"}
      /\ tx'[p].alone = Alone(p) /\ IsTx(tx'[p]) /\ WroteNothing(tx'[p])
      /\ ~tx'[p].aborted
      /\ stale' = (stale \/ ~Alone(p))
      /\ UNCHANGED <<exists, results, events, driver, cache, faults>>
  BY DEF Begins, Tables
<1>2. \A q \in Procs : q # p =>
        /\ step[q] = "idle" => tx'[q] = NoTx
        /\ step[q] # "idle" => tx'[q] = [tx[q] EXCEPT !.alone = FALSE]
  BY DEF Begins
<1>3. \A q \in Procs : q # p /\ step[q] # "idle" =>
        IsTx(tx'[q]) /\ ~tx'[q].alone /\ tx'[q].aborted = tx[q].aborted
        /\ (WroteNothing(tx[q]) => WroteNothing(tx'[q]))
  <2>1. TAKE q \in Procs
  <2>2. HAVE q # p /\ step[q] # "idle"
  <2>3. IsTx(tx[q]) /\ tx'[q] = [tx[q] EXCEPT !.alone = FALSE]
    BY <1>2, <2>2 DEF CacheInv, Shapes
  <2> QED
    BY <2>3 DEF IsTx, WroteNothing
<1>4. \A q \in Procs : IsTx(tx'[q])
  BY <1>1, <1>2, <1>3, NoTxIsTx
<1>5. Shapes'
  <2>1. stale' \in BOOLEAN
    BY <1>1 DEF CacheInv, Shapes, Alone
  <2> QED
    BY <1>1, <1>4, <2>1 DEF CacheInv, Shapes, Begins
<1>6. Clean'
  <2>1. \A q \in Procs : step'[q] = "idle" => tx'[q] = NoTx
    BY <1>1, <1>2
  <2>2. \A r \in Readers : WroteNothing(tx'[r])
    BY <1>1, <1>2, <1>3, NoTxIsTx, Parts DEF CacheInv, Clean
  <2>3. \A r \in Readers : WroteNothing(tx[r])'
    BY <2>2 DEF WroteNothing
  <2> QED
    BY <2>1, <2>3 DEF Clean
<1>7. Exclusive'
  <2>1. \A q \in Procs : step'[q] # "idle" /\ tx'[q].alone => q = p /\ Alone(p)
    BY <1>1, <1>3
  <2>2. Alone(p) => Alone(p)'
    BY <1>1 DEF Alone
  <2>3. \A q \in Procs : step'[q] # "idle" /\ ~stale' => tx'[q].alone
    BY <1>1 DEF Alone
  <2> QED
    BY <2>1, <2>2, <2>3 DEF Exclusive
<1>8. \A v \in Writers : step'[v] = "commit" => v \in Procs /\ v # p /\ step[v] = "commit"
  BY <1>1, Parts
<1>9. PendingWrites'
  BY <1>3, <1>8 DEF PendingWrites
<1>10. PendingReads'
  <2>1. \A r \in Readers : step'[r] = "fill" => ~tx'[r].alone
    BY <1>1, <1>3, Parts
  <2> QED
    BY <2>1 DEF PendingReads
<1>11. Coherent'
  <2>1. SUFFICES ASSUME ~stale', \A v \in Writers : step'[v] # "commit"
                 PROVE  ~stale /\ \A v \in Writers : step[v] # "commit"
    BY <1>1 DEF CacheInv, Coherent, Committed
  <2> QED
    BY <1>1, <2>1, Parts
<1>12. OneConnection'
  <2>1. driver = "sqlite" => \A q \in Procs : ~tx'[q].aborted
    BY <1>1, <1>2, <1>3, NoTxIsTx DEF CacheInv, OneConnection
  <2>2. driver = "sqlite" /\ faults = 0 => ~stale'
    BY <1>1 DEF CacheInv, OneConnection, Begins, Connection
  <2> QED
    BY <1>1, <2>1, <2>2 DEF OneConnection
<1> QED
  BY <1>5, <1>6, <1>7, <1>9, <1>10, <1>11, <1>12 DEF CacheInv

LEMMA RefreshCacheKeeps ==
  ASSUME CacheInv, NEW w \in Writers, RefreshCache(w)
  PROVE  CacheInv'
<1>0. w \in Procs
  BY Parts
<1>1. /\ \A q \in Procs : q # w => step'[q] = step[q]
      /\ step' \in [Procs -> Steps] /\ step'[w] = "commit"
  <2>1. "commit" \in Steps
    BY DEF Steps
  <2> QED
    BY <1>0, <2>1, GotoMoves DEF CacheInv, RefreshCache
<1>2. /\ step[w] = "refresh"
      /\ cache' = [p \in Pages |-> IF cache[p] = NoPage THEN NoPage ELSE RefreshedPage(w, p)]
      /\ UNCHANGED <<driver, exists, results, events, tx, faults, stale>>
  BY DEF RefreshCache, tables, history
<1>3. \A q \in Procs : step'[q] = "idle" <=> step[q] = "idle"
  BY <1>0, <1>1, <1>2
<1>4. Shapes'
  BY <1>1, <1>2 DEF CacheInv, Shapes
<1>5. Clean'
  BY <1>2, <1>3 DEF CacheInv, Clean, WroteNothing
<1>6. Exclusive'
  BY <1>2, <1>3 DEF CacheInv, Exclusive, Alone
<1>7. tx[w].alone => \A q \in Procs : q # w => step'[q] = "idle"
  BY <1>0, <1>1, <1>2 DEF CacheInv, Exclusive, Alone
<1>8. PendingWrites'
  <2>1. ASSUME NEW v \in Writers, step'[v] = "commit", tx'[v].alone,
               NEW p \in Pages, cache'[p] # NoPage
        PROVE  cache'[p] = PageSeen(v, p)'
    <3>1. v \in Procs /\ tx[v].alone
      BY <1>2, <2>1, Parts
    <3>2. v = w
      <4>1. CASE step[v] = "commit"
        BY <1>0, <1>2, <3>1, <4>1 DEF CacheInv, Exclusive, Alone
      <4> QED
        BY <1>1, <2>1, <3>1, <4>1
    <3>3. cache'[p] = RefreshedPage(w, p)
      BY <1>2, <2>1
    <3>4. cache'[p] = PageSeen(w, p)
      BY <2>1, <3>3 DEF RefreshedPage
    <3> QED
      BY <1>2, <3>2, <3>4, SameSeen
  <2> QED
    BY <2>1 DEF PendingWrites
<1>9. PendingReads'
  <2>1. \A r \in Readers : step'[r] = "fill" => step[r] = "fill"
    BY <1>1, Parts
  <2> QED
    BY <1>2, <2>1 DEF CacheInv, PendingReads, Committed
<1>10. Coherent'
  BY <1>1 DEF Coherent
<1>11. OneConnection'
  BY <1>2 DEF CacheInv, OneConnection
<1> QED
  BY <1>4, <1>5, <1>6, <1>8, <1>9, <1>10, <1>11 DEF CacheInv

LEMMA CommitInsertKeeps ==
  ASSUME CacheInv, NEW w \in Writers, CommitInsert(w)
  PROVE  CacheInv'
<1>0. w \in Procs /\ w \notin Readers
  BY Parts
<1>1. /\ \A q \in Procs : q # w => step'[q] = step[q] /\ tx'[q] = tx[q]
      /\ step' \in [Procs -> Steps] /\ step'[w] = "idle"
      /\ tx' = [q \in Procs |-> tx'[q]] /\ tx'[w] = NoTx
  BY <1>0, RollBackLeaves DEF CommitInsert, CacheInv, Others
<1>2. /\ step[w] = "commit" /\ exists' = TRUE
      /\ results' = ResultsSeen(w) /\ events' = EventsSeen(w)
      /\ stale' = (stale /\ ~tx[w].alone)
      /\ UNCHANGED <<driver, cache, faults>>
  BY DEF CommitInsert
<1>3. IsTx(tx[w]) /\ stale \in BOOLEAN
  BY <1>0 DEF CacheInv, Shapes
<1>4. Shapes'
  <2>1. stale' \in BOOLEAN
    BY <1>2, <1>3 DEF IsTx
  <2> QED
    BY <1>1, <1>2, <2>1, NoTxIsTx DEF CacheInv, Shapes
<1>5. Clean'
  BY <1>0, <1>1, NoTxIsTx, Parts DEF CacheInv, Clean, WroteNothing
\* When it ran alone, nothing else is going on.
<1>6. tx[w].alone => \A q \in Procs : step'[q] = "idle"
  BY <1>0, <1>1, <1>2 DEF CacheInv, Exclusive, Alone
<1>7. ~stale' => tx[w].alone
  BY <1>0, <1>2 DEF CacheInv, Exclusive
<1>8. Exclusive'
  <2>1. \A q \in Procs : step'[q] # "idle" /\ tx'[q].alone => q # w /\ Alone(q) /\ step[q] # "idle"
    BY <1>1 DEF CacheInv, Exclusive
  <2>2. \A q \in Procs : step'[q] # "idle" /\ tx'[q].alone => FALSE
    BY <1>0, <1>2, <2>1 DEF Alone
  <2> QED
    BY <1>6, <1>7, <2>2 DEF Exclusive
<1>9. \A q \in Procs : step'[q] # "idle" => ~tx'[q].alone
  <2>1. TAKE q \in Procs
  <2>2. HAVE step'[q] # "idle"
  <2>3. q # w /\ step[q] # "idle" /\ tx'[q] = tx[q]
    BY <1>1, <2>2
  <2> QED
    BY <1>0, <1>2, <2>3 DEF CacheInv, Exclusive, Alone
<1>10. PendingWrites' /\ PendingReads'
  BY <1>9, Parts DEF PendingWrites, PendingReads
<1>11. Coherent'
  <2>1. ASSUME tx[w].alone, NEW p \in Pages, cache'[p] # NoPage
        PROVE  cache'[p] = Committed(p)'
    <3>1. cache[p] = PageSeen(w, p)
      BY <1>2, <2>1 DEF CacheInv, PendingWrites
    <3>2. PageSeen(w, p) = Committed(p)'
      BY <1>2 DEF PageSeen, Committed
    <3> QED
      BY <1>2, <3>1, <3>2
  <2> QED
    BY <1>2, <1>7, <2>1 DEF Coherent
<1>12. OneConnection'
  BY <1>1, <1>2, NoTxIsTx DEF CacheInv, OneConnection
<1> QED
  BY <1>4, <1>5, <1>8, <1>10, <1>11, <1>12 DEF CacheInv

LEMMA FillCacheKeeps ==
  ASSUME CacheInv, NEW r \in Readers, FillCache(r)
  PROVE  CacheInv'
<1>0. r \in Procs
  BY Parts
<1>1. /\ \A q \in Procs : q # r => step'[q] = step[q] /\ tx'[q] = tx[q]
      /\ step' \in [Procs -> Steps] /\ step'[r] = "idle"
      /\ tx' = [q \in Procs |-> tx'[q]] /\ tx'[r] = NoTx
  BY <1>0, RollBackLeaves DEF FillCache, CacheInv, Others
<1>2. /\ step[r] = "fill" /\ cache' = [cache EXCEPT ![tx[r].page] = tx[r].copy]
      /\ UNCHANGED <<driver, exists, results, events, faults, stale>>
  BY DEF FillCache, tables, history
<1>3. Shapes'
  BY <1>1, <1>2, NoTxIsTx DEF CacheInv, Shapes
<1>4. Clean'
  BY <1>1, NoTxIsTx, Parts DEF CacheInv, Clean, WroteNothing
<1>5. Exclusive'
  BY <1>1, <1>2 DEF CacheInv, Exclusive, Alone
\* Whoever else is in a transaction does not run alone.
<1>6. \A q \in Procs : step'[q] # "idle" => ~tx'[q].alone
  <2>1. TAKE q \in Procs
  <2>2. HAVE step'[q] # "idle"
  <2>3. q # r /\ step[q] # "idle" /\ tx'[q] = tx[q]
    BY <1>1, <2>2
  <2> QED
    BY <1>0, <1>2, <2>3 DEF CacheInv, Exclusive, Alone
<1>7. PendingWrites' /\ PendingReads'
  BY <1>6, Parts DEF PendingWrites, PendingReads
<1>8. Coherent'
  <2>1. SUFFICES ASSUME ~stale, NEW p \in Pages, cache'[p] # NoPage
                 PROVE  exists /\ cache'[p] = Committed(p)
    BY <1>2 DEF Coherent, Committed
  <2>2. tx[r].alone
    BY <1>0, <1>2, <2>1 DEF CacheInv, Exclusive
  <2>3. exists /\ tx[r].copy = Committed(tx[r].page)
    BY <1>2, <2>2 DEF CacheInv, PendingReads
  <2>4. \A v \in Writers : step[v] # "commit"
    BY <1>0, <1>2, <2>2, Parts DEF CacheInv, Exclusive, Alone
  <2>5. cache[p] # NoPage => cache[p] = Committed(p)
    BY <2>1, <2>4 DEF CacheInv, Coherent
  <2>6. cache'[p] = IF p = tx[r].page THEN tx[r].copy ELSE cache[p]
    BY <1>2 DEF CacheInv, Shapes
  <2> QED
    BY <2>1, <2>3, <2>5, <2>6
<1>9. OneConnection'
  BY <1>1, <1>2, NoTxIsTx DEF CacheInv, OneConnection
<1> QED
  BY <1>3, <1>4, <1>5, <1>7, <1>8, <1>9 DEF CacheInv

LEMMA ExpireKeeps ==
  ASSUME CacheInv, NEW p \in Pages, Expire(p)
  PROVE  CacheInv'
<1>1. /\ cache' = [cache EXCEPT ![p] = NoPage]
      /\ UNCHANGED <<driver, exists, results, events, step, tx, faults, stale>>
  BY DEF Expire, tables, history
<1>2. \A g \in Pages : cache'[g] # NoPage => cache[g] # NoPage /\ cache'[g] = cache[g]
  BY <1>1 DEF CacheInv, Shapes
<1>3. Shapes' /\ Clean' /\ Exclusive' /\ PendingReads' /\ OneConnection'
  <2>1. Shapes'
    BY <1>1 DEF CacheInv, Shapes
  <2>2. Clean' /\ Exclusive' /\ OneConnection'
    BY <1>1 DEF CacheInv, Clean, WroteNothing, Exclusive, Alone, OneConnection
  <2>3. PendingReads'
    BY <1>1 DEF CacheInv, PendingReads, Committed
  <2> QED
    BY <2>1, <2>2, <2>3
<1>4. PendingWrites'
  <2>1. \A v \in Writers : \A g \in Pages : PageSeen(v, g)' = PageSeen(v, g)
    BY <1>1, SameSeen
  <2> QED
    BY <1>1, <1>2, <2>1 DEF CacheInv, PendingWrites
<1>5. Coherent'
  BY <1>1, <1>2 DEF CacheInv, Coherent, Committed
<1> QED
  BY <1>3, <1>4, <1>5 DEF CacheInv

LEMMA DeleteEndpointKeeps ==
  ASSUME CacheInv, DeleteEndpoint
  PROVE  CacheInv'
<1>1. /\ \A q \in Procs : step[q] = "idle"
      /\ UNCHANGED <<driver, step, tx, faults>>
      /\ exists' = FALSE /\ stale' = FALSE
      /\ cache' = [p \in Pages |-> NoPage]
  BY DEF DeleteEndpoint
<1>2. Shapes'
  BY <1>1 DEF CacheInv, Shapes
<1>3. Clean' /\ Exclusive' /\ OneConnection'
  BY <1>1 DEF CacheInv, Clean, WroteNothing, Exclusive, Alone, OneConnection
<1>4. PendingWrites' /\ PendingReads' /\ Coherent'
  BY <1>1, Parts DEF PendingWrites, PendingReads, Coherent
<1> QED
  BY <1>2, <1>3, <1>4 DEF CacheInv

LEMMA StutterKeeps ==
  ASSUME CacheInv, UNCHANGED vars
  PROVE  CacheInv'
<1>1. UNCHANGED <<driver, exists, results, events, cache, step, tx, faults, stale>>
  BY DEF vars, tables, history
<1>2. Shapes' /\ Clean' /\ Exclusive' /\ OneConnection'
  BY <1>1 DEF CacheInv, Shapes, Clean, WroteNothing, Exclusive, Alone, OneConnection
<1>3. PendingWrites' /\ PendingReads' /\ Coherent'
  BY <1>1, SameSeen DEF CacheInv, PendingWrites, PendingReads, Coherent, Committed
<1> QED
  BY <1>2, <1>3 DEF CacheInv

-----------------------------------------------------------------------------
LEMMA NextKeeps ==
  ASSUME CacheInv, Next
  PROVE  CacheInv'
<1>1. Shapes /\ Clean /\ OneConnection
  BY DEF CacheInv
<1>2. ASSUME NEW w \in Writers, Write(w) PROVE CacheInv'
  <2>0. w \in Procs
    BY Parts
  <2>1. ASSUME NEW success \in BOOLEAN, BeginInsert(w, success) PROVE CacheInv'
    BY <1>1, <2>0, <2>1, BeginInsertBegins, BeginsKeeps
  <2>2. CASE InsertEndpoint(w)
    <3>1. step[w] # "commit"
      BY <2>2 DEF InsertEndpoint
    <3> QED
      BY <1>1, <2>0, <2>2, <3>1, InsertEndpointCases, WorksAsWriterKeeps, LeavesKeeps
  <2>3. CASE InsertEvents(w)
    BY <1>1, <2>3, InsertEventsWorks, WorksAsWriterKeeps
  <2>4. CASE InsertEventsFails(w)
    BY <1>1, <2>4, InsertEventsFailsWorks, WorksAsWriterKeeps
  <2>5. CASE InsertResult(w)
    BY <1>1, <2>5, InsertResultWorks, WorksAsWriterKeeps
  <2>6. CASE InsertResultFails(w)
    <3>1. step[w] # "commit"
      BY <2>6 DEF InsertResultFails
    <3> QED
      BY <1>1, <2>0, <2>6, <3>1, InsertResultFailsLeaves, LeavesKeeps
  <2>7. CASE RefreshCache(w)
    BY <2>7, RefreshCacheKeeps
  <2>8. CASE CommitInsert(w)
    BY <2>8, CommitInsertKeeps
  <2>10. CASE RefreshFails(w)
    BY <1>1, <2>0, <2>10, RefreshFailsLoses, LosesKeeps
  <2>9. CASE CommitFails(w)
    BY <1>1, <2>0, <2>9, CommitFailsLeaves, LeavesKeeps
  <2> QED
    BY <1>2, <2>1, <2>2, <2>3, <2>4, <2>5, <2>6, <2>7, <2>8, <2>9, <2>10 DEF Write
<1>3. ASSUME NEW r \in Readers, Show(r) PROVE CacheInv'
  <2>0. r \in Procs
    BY Parts
  <2>1. CASE Read(r)
    <3>1. step[r] # "commit"
      BY <2>1 DEF Read
    <3> QED
      BY <1>1, <2>0, <2>1, <3>1, ReadCases, WorksAsReaderKeeps, LeavesKeeps
  <2>4. CASE ReadFails(r)
    <3>1. step[r] # "commit"
      BY <2>4 DEF ReadFails
    <3> QED
      BY <1>1, <2>0, <2>4, <3>1, ReadFailsCases, LosesKeeps, LeavesKeeps
  <2>2. CASE FillCache(r)
    BY <2>2, FillCacheKeeps
  <2>3. ASSUME NEW p \in Pages, BeginRead(r, p) PROVE CacheInv'
    BY <1>1, <2>0, <2>3, BeginReadBegins, BeginsKeeps
  <2> QED
    BY <1>3, <2>1, <2>2, <2>3, <2>4 DEF Show
<1>4. ASSUME NEW p \in Pages, Expire(p) PROVE CacheInv'
  BY <1>4, ExpireKeeps
<1> QED
  BY <1>2, <1>3, <1>4, DeleteEndpointKeeps DEF Next

\* The strengthening that makes the coherence of the cache inductive: who is
\* alone, and what is pending between a refresh and its commit or between the
\* statements of a reader and the write of its copy.
THEOREM CacheInvHolds == Spec => []CacheInv
<1>1. Init => CacheInv
  BY InitCacheInv
<1>2. CacheInv /\ [Next]_vars => CacheInv'
  BY NextKeeps, StutterKeeps
<1> QED
  BY <1>1, <1>2, PTL DEF Spec

\* Whenever nothing is going on, every cached page is the page of the database
\* (sql.go, Insert and GetEndpointStatusByKey): with SQLite as long as no
\* statement or commit failed, and in general since the last Insert that ran
\* alone, whose own queries for the pages succeeded and that committed, for any
\* number of goroutines, pages and faults.  A page that is cached without the rows
\* of a query that failed (getEndpointStatusByKey) lasts until then.
THEOREM CacheIsCoherent == Spec => []CacheIsCommitted
<1>1. CacheInv => CacheIsCommitted
  <2>1. SUFFICES ASSUME CacheInv, Idle, ~stale \/ (driver = "sqlite" /\ faults = 0),
                        NEW p \in Pages, NEW w \in Writers, cache[p] # NoPage
                 PROVE  exists /\ cache[p] = PageSeen(w, p)
    BY DEF CacheIsCommitted
  <2>2. ~stale
    BY <2>1 DEF CacheInv, OneConnection
  <2>3. \A v \in Writers : step[v] # "commit"
    BY <2>1, Parts DEF Idle
  <2>4. exists /\ cache[p] = Committed(p)
    BY <2>1, <2>2, <2>3 DEF CacheInv, Coherent
  <2>5. WroteNothing(tx[w])
    BY <2>1, Parts, NoTxIsTx DEF CacheInv, Clean, Idle
  <2> QED
    BY <2>4, <2>5, SeesCommitted
<1> QED
  BY <1>1, CacheInvHolds, PTL
-----------------------------------------------------------------------------
(* Rows in the order of a key *)

Keyed(S, key) ==
  /\ IsFiniteSet(S) /\ key \in [S -> Nat]
  /\ \A x, y \in S : key[x] = key[y] => x = y

LEMMA InOrderLists ==
  ASSUME NEW S, NEW key, Keyed(S, key)
  PROVE  LET n == Cardinality(S)
             list == InOrder(S, key)
         IN /\ n \in Nat
            /\ list \in Seq(S) /\ Len(list) = n
            /\ \A i, j \in 1..n : key[list[i]] < key[list[j]] <=> i < j
            /\ \A i \in 1..n : Cardinality(After(S, key, list[i])) = n - i
            /\ \A x \in S : Cardinality(After(S, key, x)) \in 0..(n - 1)
                            /\ list[n - Cardinality(After(S, key, x))] = x
<1> DEFINE n == Cardinality(S)
           before(x) == Cardinality(Before(S, key, x))
           after(x) == Cardinality(After(S, key, x))
           pick(i) == CHOOSE x \in S : before(x) = i - 1
           list == InOrder(S, key)
<1>1. /\ n \in Nat
      /\ \A x \in S : before(x) \in 0..(n - 1) /\ after(x) = n - 1 - before(x)
      /\ \A x, y \in S : key[x] < key[y] <=> before(x) < before(y)
      /\ \A i \in 0..(n - 1) : \E x \in S : before(x) = i
  BY Numbered DEF Keyed
<1>2. list = [i \in 1..n |-> pick(i)]
  BY DEF InOrder, Before
<1>3. \A x, y \in S : key[x] \in Nat /\ key[y] \in Nat /\ (key[x] = key[y] => x = y)
  BY DEF Keyed
<1>4. ASSUME NEW i \in 1..n PROVE pick(i) \in S /\ before(pick(i)) = i - 1
  <2>1. i - 1 \in 0..(n - 1)
    BY <1>1
  <2> HIDE DEF before
  <2>2. \E x \in S : before(x) = i - 1
    BY <1>1, <2>1
  <2> QED
    BY <2>2
<1> HIDE DEF before, after, pick, list, n
<1>10. n \in Nat
  BY <1>1
<1>5. \A i \in 1..n : list[i] \in S /\ before(list[i]) = i - 1
  BY <1>2, <1>4
<1>6. list \in Seq(S) /\ Len(list) = n
  BY <1>1, <1>2, <1>4
<1>7. ASSUME NEW i \in 1..n, NEW j \in 1..n
      PROVE  key[list[i]] < key[list[j]] <=> i < j
  <2>1. before(list[i]) = i - 1 /\ before(list[j]) = j - 1 /\ list[i] \in S /\ list[j] \in S
    BY <1>5
  <2>2. key[list[i]] < key[list[j]] <=> before(list[i]) < before(list[j])
    BY <1>1, <2>1
  <2>3. i - 1 < j - 1 <=> i < j
    BY <1>1
  <2> QED
    BY <2>1, <2>2, <2>3
<1>8. ASSUME NEW i \in 1..n PROVE after(list[i]) = n - i
  <2>1. list[i] \in S /\ before(list[i]) = i - 1 /\ after(list[i]) = n - 1 - before(list[i])
    BY <1>1, <1>5
  <2> QED
    BY <1>1, <2>1
<1>9. ASSUME NEW x \in S PROVE after(x) \in 0..(n - 1) /\ list[n - after(x)] = x
  <2>1. before(x) \in 0..(n - 1) /\ after(x) = n - 1 - before(x)
    BY <1>1
  <2>2. /\ after(x) \in 0..(n - 1) /\ n - after(x) = before(x) + 1
        /\ before(x) + 1 \in 1..n /\ before(x) + 1 - 1 = before(x)
    BY <1>10, <2>1
  <2> DEFINE i == before(x) + 1
  <2>3. i \in 1..n /\ i - 1 = before(x) /\ i = n - after(x)
    BY <1>10, <2>1, <2>2
  <2> HIDE DEF i
  <2>4. list[i] \in S /\ before(list[i]) = before(x)
    BY <1>5, <2>3
  <2>5. ~(before(list[i]) < before(x)) /\ ~(before(x) < before(list[i]))
    BY <2>1, <2>4
  <2>6. ~(key[list[i]] < key[x]) /\ ~(key[x] < key[list[i]])
    BY <1>1, <2>4, <2>5
  <2>7. key[list[i]] \in Nat /\ key[x] \in Nat
    BY <1>3, <2>4
  <2>8. key[list[i]] = key[x]
    BY <2>6, <2>7
  <2>9. list[i] = x
    BY <1>3, <2>4, <2>8
  <2> QED
    BY <2>2, <2>3, <2>9
<1> QED
  BY <1>1, <1>6, <1>7, <1>8, <1>9 DEF n, list, after

\* The newest rows of a list are those at its end.
LEMMA NewestIsTail ==
  ASSUME NEW S, NEW s \in Seq(S), NEW n \in Nat
  PROVE  /\ Newest(s, n) \in Seq(S)
         /\ Len(Newest(s, n)) = IF Len(s) > n THEN n ELSE Len(s)
         /\ \A i \in 1..Len(Newest(s, n)) :
              Newest(s, n)[i] = s[Len(s) - Len(Newest(s, n)) + i]
         /\ NewestRows(s, n) = {s[i] : i \in {j \in 1..Len(s) : Len(s) - j < n}}
<1>1. CASE Len(s) <= n
  <2>1. Newest(s, n) = s /\ Len(s) \in Nat
    BY <1>1 DEF Newest
  <2>2. \A j \in 1..Len(s) : Len(s) - j < n /\ Len(s) - Len(s) + j = j
    BY <1>1, <2>1
  <2>3. NewestRows(s, n) = {s[i] : i \in 1..Len(s)}
    BY <2>1 DEF NewestRows, ToSet
  <2> QED
    BY <1>1, <2>1, <2>2, <2>3
<1>2. CASE Len(s) > n
  <2> DEFINE t == SubSeq(s, Len(s) - n + 1, Len(s))
  <2>1. Newest(s, n) = t /\ Len(s) \in Nat
    BY <1>2 DEF Newest
  <2>2. t \in Seq(S) /\ Len(t) = n /\ \A i \in 1..n : t[i] = s[Len(s) - n + i]
    BY <1>2, <2>1
  <2> HIDE DEF t
  <2>3. NewestRows(s, n) = {t[i] : i \in 1..n}
    BY <2>1, <2>2 DEF NewestRows, ToSet
  <2> DEFINE J == {j \in 1..Len(s) : Len(s) - j < n}
  <2>4. ASSUME NEW i \in 1..n PROVE \E j \in J : t[i] = s[j]
    <3> DEFINE j == Len(s) - n + i
    <3>1. j \in J
      BY <1>2, <2>1
    <3>2. t[i] = s[j]
      BY <2>2
    <3> HIDE DEF j
    <3> QED
      BY <3>1, <3>2
  <2>5. ASSUME NEW j \in J PROVE \E i \in 1..n : t[i] = s[j]
    <3> DEFINE i == j - (Len(s) - n)
    <3>1. i \in 1..n /\ Len(s) - n + i = j
      BY <1>2, <2>1
    <3>2. t[i] = s[Len(s) - n + i]
      BY <2>2, <3>1
    <3> HIDE DEF i
    <3> QED
      BY <3>1, <3>2
  <2> HIDE DEF J
  <2>6. {t[i] : i \in 1..n} = {s[j] : j \in J}
    BY <2>4, <2>5
  <2> USE DEF J
  <2> QED
    BY <1>2, <2>1, <2>2, <2>3, <2>6
<1> QED
  BY <1>1, <1>2

LEMMA NewestOf ==
  ASSUME NEW S, NEW key, Keyed(S, key), NEW n \in Nat
  PROVE  NewestRows(InOrder(S, key), n) = {x \in S : Cardinality(After(S, key, x)) < n}
<1> DEFINE after(x) == Cardinality(After(S, key, x))
           s == InOrder(S, key)
           N == Cardinality(S)
<1>1. /\ N \in Nat /\ Len(s) = N /\ s \in Seq(S)
      /\ \A i \in 1..N : after(s[i]) = N - i
      /\ \A x \in S : after(x) \in 0..(N - 1) /\ s[N - after(x)] = x
  BY InOrderLists
<1> HIDE DEF s, after, N
<1>2. NewestRows(s, n) = {s[i] : i \in {j \in 1..Len(s) : Len(s) - j < n}}
  <2>1. s \in Seq(S)
    BY <1>1
  <2> QED
    BY ONLY <2>1, NewestIsTail, n \in Nat
<1>3. ASSUME NEW i \in 1..Len(s), Len(s) - i < n PROVE s[i] \in S /\ after(s[i]) < n
  BY <1>1, <1>3
<1>4. ASSUME NEW x \in S, after(x) < n
      PROVE  \E i \in 1..Len(s) : Len(s) - i < n /\ s[i] = x
  <2> DEFINE i == N - after(x)
  <2>1. after(x) \in 0..(N - 1) /\ s[i] = x
    BY <1>1
  <2>2. i \in 1..Len(s) /\ Len(s) - i < n
    BY <1>1, <1>4, <2>1
  <2> HIDE DEF i
  <2> QED
    BY <2>1, <2>2
<1>5. NewestRows(s, n) = {x \in S : after(x) < n}
  BY <1>2, <1>3, <1>4
<1> QED
  BY <1>5 DEF s, after

\* The rows of results, and those of events when every one has an identifier of
\* its own.
LEMMA NewestResults ==
  ASSUME NEW S \in SUBSET Nat, IsFiniteSet(S), NEW n \in Nat
  PROVE  /\ Keyed(S, [x \in S |-> x])
         /\ NewestRows(ById(S), n) = {x \in S : Cardinality({y \in S : y > x}) < n}
<1> DEFINE key == [x \in S |-> x]
<1>1. Keyed(S, key)
  BY DEF Keyed
<1>2. \A x \in S : After(S, key, x) = {y \in S : y > x}
  BY DEF After
<1>3. NewestRows(InOrder(S, key), n) = {x \in S : Cardinality(After(S, key, x)) < n}
  BY <1>1, NewestOf
<1> QED
  BY <1>1, <1>2, <1>3 DEF ById

Distinct(S) == S \subseteq Nat \X EventTypes /\ \A e, f \in S : e[1] = f[1] => e = f

LEMMA NewestEvents ==
  ASSUME NEW S, Distinct(S), IsFiniteSet(S), NEW n \in Nat
  PROVE  /\ Keyed(S, [x \in S |-> x[1]])
         /\ NewestRows(EventsById(S), n) = {x \in S : Cardinality({y \in S : y[1] > x[1]}) < n}
<1> DEFINE key == [x \in S |-> x[1]]
<1>1. Keyed(S, key)
  <2>1. \A x \in S : x[1] \in Nat
    BY DEF Distinct
  <2> QED
    BY <2>1 DEF Keyed, Distinct
<1>2. \A x \in S : After(S, key, x) = {y \in S : y[1] > x[1]}
  BY DEF After
<1>3. NewestRows(InOrder(S, key), n) = {x \in S : Cardinality(After(S, key, x)) < n}
  BY <1>1, NewestOf
<1> QED
  BY <1>1, <1>2, <1>3 DEF EventsById

-----------------------------------------------------------------------------
(* What the rows of results and of events have to do with the transactions *)

\* Where the transaction of a writer has its result, and where it has its events.
Late(w) == step[w] \in {"refresh", "commit"}
Told(w) == step[w] \in {"result", "refresh", "commit"}

RowTypes ==
  /\ log \in Seq(BOOLEAN) /\ eventIds \in Nat /\ faults \in Nat /\ gap \in BOOLEAN
  /\ accepted \subseteq 1..Len(log) /\ results \subseteq accepted
  /\ events \subseteq (1..eventIds) \X EventTypes

\* What a transaction has not committed yet: at most one result, which is nobody
\* else's, and at most two events.
Pending(w) ==
  /\ tx[w].success \in BOOLEAN
  /\ Late(w) =>
       /\ tx[w].id \in 1..Len(log) /\ tx[w].id \notin accepted
       /\ log[tx[w].id] = tx[w].success
       /\ tx[w].addedResults \subseteq {tx[w].id}
  /\ ~Late(w) => tx[w].addedResults = {} /\ tx[w].deletedResults = {}
  /\ Told(w) =>
       /\ tx[w].addedEvents \subseteq (1..eventIds) \X EventTypes
       /\ \E e, f : tx[w].addedEvents \subseteq {e, f}
  /\ ~Told(w) => tx[w].addedEvents = {} /\ tx[w].deletedEvents = {}

Writing == \A w \in Writers : Pending(w)

\* No identifier is given out twice.
OwnIds ==
  /\ \A v, w \in Writers : Late(v) /\ Late(w) /\ v # w => tx[v].id # tx[w].id
  /\ \A e, f \in events : e[1] = f[1] => e = f
  /\ \A v \in Writers : \A e \in tx[v].addedEvents : \A f \in events : e[1] # f[1]
  /\ \A v, w \in Writers : \A e \in tx[v].addedEvents : \A f \in tx[w].addedEvents :
       e[1] = f[1] => v = w /\ e = f

OneWriter ==
  ~gap => \A v, w \in Writers : step[v] # "idle" /\ step[w] # "idle" => v = w

\* As many newer rows as are kept.
Replaced(x, S) == Cardinality({y \in S : y > x}) >= MaxResults

\* Whatever was or is about to be deleted has been replaced, by results that were
\* accepted or that are committed with it.
KeptByTx(w) ==
  Late(w) => \A x \in (tx[w].deletedResults \union {tx[w].id}) \ tx[w].addedResults :
               x \in Nat /\ Replaced(x, accepted \union {tx[w].id})

Kept ==
  /\ \A x \in accepted \ results : Replaced(x, accepted)
  /\ \A w \in Writers : KeptByTx(w)

RowInv == RowTypes /\ Writing /\ OwnIds /\ OneWriter /\ Kept
-----------------------------------------------------------------------------
(* What the actions do to the rows *)

\* The rows of a transaction stay as they are.
Unmoved(w) ==
  /\ tx'[w].success = tx[w].success /\ tx'[w].id = tx[w].id
  /\ tx[w].aborted => tx'[w].aborted
  /\ tx'[w].addedResults = tx[w].addedResults /\ tx'[w].deletedResults = tx[w].deletedResults
  /\ tx'[w].addedEvents = tx[w].addedEvents /\ tx'[w].deletedEvents = tx[w].deletedEvents
  /\ Late(w)' = Late(w) /\ Told(w)' = Told(w)

\* There is no such row: the transaction begins, or it ended.
Fresh(w) ==
  /\ ~Told(w)' /\ ~Late(w)' /\ tx'[w].success \in BOOLEAN
  /\ tx'[w].addedResults = {} /\ tx'[w].deletedResults = {}
  /\ tx'[w].addedEvents = {} /\ tx'[w].deletedEvents = {}

\* Faults are counted, and the overlap of two writers is remembered.
Counters ==
  /\ faults' \in Nat /\ faults' >= faults
  /\ gap' \in BOOLEAN /\ (gap => gap') /\ (gap' => gap \/ Writers # {})

\* A step that no row takes part in.
Quiet ==
  /\ UNCHANGED <<exists, results, events, log, eventIds, memory, accepted>>
  /\ Counters
  /\ \A w \in Writers : Unmoved(w) \/ Fresh(w)

\* The rows of events that are inserted when no statement fails.
RowsOf(types) == {<<eventIds + i, types[i]>> : i \in 1..Len(types)}

\* The statements about events.  One of them may fail: the events may then not be
\* the ones to add, or nothing is deleted.
AddsEvents(w, added, deleted) ==
  /\ step[w] = "events" /\ step'[w] = "result"
  /\ UNCHANGED <<exists, results, events, log, memory, accepted>>
  /\ Counters
  /\ \A v \in Writers \ {w} : Unmoved(v)
  /\ tx'[w].success = tx[w].success
  /\ tx'[w].addedResults = tx[w].addedResults /\ tx'[w].deletedResults = tx[w].deletedResults
  /\ eventIds' \in Nat /\ eventIds' >= eventIds
  /\ added \subseteq ((eventIds + 1)..eventIds') \X EventTypes
  /\ \E e, f : added \subseteq {e, f}
  /\ \A e, f \in added : e[1] = f[1] => e = f
  /\ tx'[w].addedEvents = added \ deleted
  /\ tx'[w].deletedEvents = deleted \intersect events
  /\ \/ added \subseteq RowsOf(EventsToAdd(w)) /\ deleted = EventsToDelete(w, added)
     \/ deleted = {} /\ faults' = faults + 1
  /\ ~gap' /\ ~tx'[w].aborted =>
       added = RowsOf(EventsToAdd(w)) /\ deleted \in {{}, EventsToDelete(w, added)}

\* The insertion of the result, and the clean-up.
AddsResult(w, deleted) ==
  /\ step[w] = "result" /\ step'[w] = "refresh" /\ ~tx[w].aborted
  /\ UNCHANGED <<exists, results, events, eventIds, memory, accepted, gap>>
  /\ Counters
  /\ \A v \in Writers \ {w} : Unmoved(v)
  /\ tx'[w].success = tx[w].success
  /\ tx'[w].addedEvents = tx[w].addedEvents /\ tx'[w].deletedEvents = tx[w].deletedEvents
  /\ log' = Append(log, tx[w].success) /\ tx'[w].id = Len(log) + 1
  /\ tx'[w].addedResults = {Len(log) + 1} \ deleted
  /\ tx'[w].deletedResults = deleted \intersect results
  /\ \/ deleted = ResultsToDelete(w, Len(log) + 1) /\ faults' = faults
     \/ deleted = {} /\ faults' = faults + 1

\* The commit.
Commits(w) ==
  /\ step[w] = "commit" /\ step'[w] = "idle" /\ ~tx[w].aborted
  /\ UNCHANGED <<log, eventIds, gap>>
  /\ Counters
  /\ \A v \in Writers \ {w} : Unmoved(v)
  /\ Fresh(w)
  /\ exists' = TRUE /\ results' = ResultsSeen(w) /\ events' = EventsSeen(w)
  /\ accepted' = accepted \union {tx[w].id}
  /\ memory' = AddResult(memory, tx[w].id, log[tx[w].id],
                         IF memory.results = <<>> THEN TRUE ELSE log[Last(memory.results)])

\* The deletion of the endpoint.
Deletes ==
  /\ UNCHANGED <<log, eventIds, faults>>
  /\ \A w \in Writers : Fresh(w) /\ step'[w] = "idle"
  /\ exists' = FALSE /\ results' = {} /\ events' = {}
  /\ memory' = NewStatus /\ accepted' = {} /\ gap' = FALSE

LEMMA SameIsUnmoved ==
  ASSUME NEW w, tx'[w] = tx[w], step'[w] = step[w]
  PROVE  Unmoved(w)
  BY DEF Unmoved, Late, Told

LEMMA NoTxIsFresh ==
  ASSUME NEW w, tx'[w] = NoTx, step'[w] = "idle"
  PROVE  Fresh(w)
<1>1. ~Told(w)' /\ ~Late(w)'
  BY DEF Told, Late
<1> QED
  BY <1>1 DEF Fresh, NoTx

LEMMA LeavesIsQuiet ==
  ASSUME NEW p \in Procs, Leaves(p), UNCHANGED <<log, eventIds, memory, accepted>>, Counters
  PROVE  Quiet
<1>1. \A w \in Writers : Unmoved(w) \/ Fresh(w)
  BY Parts, SameIsUnmoved, NoTxIsFresh DEF Leaves, Others
<1> QED
  BY <1>1 DEF Quiet, Leaves, Tables

LEMMA WorksIsQuiet ==
  ASSUME NEW r \in Readers, Others(r), Tables,
         UNCHANGED <<log, eventIds, memory, accepted>>, Counters
  PROVE  Quiet
<1>1. \A w \in Writers : Unmoved(w)
  BY Parts, SameIsUnmoved DEF Others
<1> QED
  BY <1>1 DEF Quiet, Tables

LEMMA BeginsIsQuiet ==
  ASSUME Shapes, Clean, NEW p \in Procs, Begins(p), p \in Writers => tx'[p].success \in BOOLEAN,
         UNCHANGED <<log, eventIds, memory, accepted>>, Counters
  PROVE  Quiet
<1>1. ASSUME NEW w \in Writers PROVE Unmoved(w) \/ Fresh(w)
  <2>0. w \in Procs
    BY Parts
  <2>1. CASE w = p
    <3>1. ~Told(w)' /\ ~Late(w)'
      BY <2>1 DEF Begins, Told, Late
    <3>2. WroteNothing(tx'[w]) /\ tx'[w].success \in BOOLEAN
      BY <2>1 DEF Begins
    <3> QED
      BY <3>1, <3>2 DEF Fresh, WroteNothing
  <2>2. CASE w # p /\ step[w] = "idle"
    <3>1. tx'[w] = NoTx /\ step'[w] = "idle"
      BY <2>0, <2>2 DEF Begins
    <3> QED
      BY <3>1, NoTxIsFresh
  <2>3. CASE w # p /\ step[w] # "idle"
    <3>1. tx'[w] = [tx[w] EXCEPT !.alone = FALSE] /\ step'[w] = step[w] /\ IsTx(tx[w])
      BY <2>0, <2>3 DEF Begins, Shapes
    <3>2. Late(w)' = Late(w) /\ Told(w)' = Told(w)
      BY <3>1 DEF Late, Told
    <3>3. /\ tx'[w].success = tx[w].success /\ tx'[w].id = tx[w].id
          /\ tx'[w].aborted = tx[w].aborted
          /\ tx'[w].addedResults = tx[w].addedResults /\ tx'[w].deletedResults = tx[w].deletedResults
          /\ tx'[w].addedEvents = tx[w].addedEvents /\ tx'[w].deletedEvents = tx[w].deletedEvents
      BY <3>1 DEF IsTx
    <3> QED
      BY <3>2, <3>3 DEF Unmoved
  <2> QED
    BY <2>1, <2>2, <2>3
<1> QED
  BY <1>1 DEF Quiet, Begins, Tables

LEMMA FailsAdds == ASSUME Shapes, NEW w, Fails(w) PROVE faults' = faults + 1 /\ faults' \in Nat /\ faults' >= faults
  BY SMT DEF Fails, Shapes

LEMMA WithEventsAdds ==
  ASSUME Shapes, NEW w \in Procs, NEW added, NEW deleted, WithEvents(w, added, deleted),
         tx[w].addedEvents = {}, tx[w].deletedEvents = {}
  PROVE  /\ \A q \in Procs \ {w} : tx'[q] = tx[q]
         /\ tx'[w].success = tx[w].success /\ tx'[w].aborted = tx[w].aborted
         /\ tx'[w].addedResults = tx[w].addedResults /\ tx'[w].deletedResults = tx[w].deletedResults
         /\ tx'[w].addedEvents = added \ deleted /\ tx'[w].deletedEvents = deleted \intersect events
<1>1. /\ tx'[w] = [tx[w] EXCEPT !.addedEvents = (@ \union added) \ deleted,
                                !.deletedEvents = @ \union (deleted \intersect events)]
      /\ \A q \in Procs \ {w} : tx'[q] = tx[q]
      /\ IsTx(tx[w])
  BY DEF WithEvents, Shapes
<1>2. /\ tx'[w].success = tx[w].success /\ tx'[w].aborted = tx[w].aborted
      /\ tx'[w].addedResults = tx[w].addedResults /\ tx'[w].deletedResults = tx[w].deletedResults
      /\ tx'[w].addedEvents = (tx[w].addedEvents \union added) \ deleted
      /\ tx'[w].deletedEvents = tx[w].deletedEvents \union (deleted \intersect events)
  BY <1>1 DEF IsTx
<1> QED
  BY <1>1, <1>2

\* One or two events with identifiers of their own, up to a new last one.
NewRows(rows, last) ==
  /\ rows \subseteq ((eventIds + 1)..last) \X EventTypes
  /\ \E e, f : rows \subseteq {e, f}
  /\ \A e, f \in rows : e[1] = f[1] => e = f

LEMMA RowsAreNew ==
  ASSUME RowTypes, NEW s, NEW types \in {<<>>, <<EventOf(s)>>, <<"START", EventOf(s)>>}
  PROVE  Len(types) \in 0..2 /\ NewRows(RowsOf(types), eventIds + Len(types))
<1>1. EventOf(s) \in EventTypes /\ "START" \in EventTypes /\ eventIds \in Nat
  BY DEF EventOf, EventTypes, RowTypes
<1>2. Len(types) \in 0..2 /\ \A i \in 1..Len(types) : types[i] \in EventTypes
  BY <1>1
<1>3. RowsOf(types) \subseteq {<<eventIds + 1, types[1]>>, <<eventIds + 2, types[2]>>}
  BY <1>2 DEF RowsOf
<1>4. \A i \in 1..Len(types) : eventIds + i \in (eventIds + 1)..(eventIds + Len(types))
  BY <1>1, <1>2
<1>5. RowsOf(types) \subseteq ((eventIds + 1)..(eventIds + Len(types))) \X EventTypes
  BY <1>2, <1>4 DEF RowsOf
<1>6. \A e, f \in RowsOf(types) : e[1] = f[1] => e = f
  <2>1. ASSUME NEW i \in 1..Len(types), NEW j \in 1..Len(types), eventIds + i = eventIds + j PROVE i = j
    BY <1>1, <1>2, <2>1
  <2>2. ASSUME NEW e \in RowsOf(types), NEW f \in RowsOf(types), e[1] = f[1] PROVE e = f
    <3>1. PICK i \in 1..Len(types) : e = <<eventIds + i, types[i]>>
      BY DEF RowsOf
    <3>2. PICK j \in 1..Len(types) : f = <<eventIds + j, types[j]>>
      BY DEF RowsOf
    <3>3. i = j
      BY <2>1, <2>2, <3>1, <3>2
    <3> QED
      BY <3>1, <3>2, <3>3
  <2> QED
    BY <2>2
<1> QED
  BY <1>2, <1>3, <1>5, <1>6 DEF NewRows

LEMMA EventsToAddIs ==
  ASSUME NEW w
  PROVE  EventsToAdd(w) \in {<<>>, <<EventOf(tx[w].success)>>, <<"START", EventOf(tx[w].success)>>}
  BY DEF EventsToAdd

LEMMA InsertEventsAdds ==
  ASSUME Shapes, RowTypes, Writing, NEW w \in Writers, InsertEvents(w)
  PROVE  \E added, deleted : AddsEvents(w, added, deleted)
<1> DEFINE types == EventsToAdd(w)
           added == RowsOf(types)
           deleted == EventsToDelete(w, added)
<1>0. w \in Procs /\ "result" \in Steps
  BY Parts DEF Steps
<1>1. /\ step[w] = "events" /\ Goto(w, "result") /\ WithEvents(w, added, deleted)
      /\ eventIds' = eventIds + Len(types)
      /\ UNCHANGED <<exists, results, events, log, memory, accepted, faults, gap>>
  BY DEF InsertEvents, RowsOf, tables, history
<1>2. /\ Len(types) \in 0..2
      /\ added \subseteq ((eventIds + 1)..(eventIds + Len(types))) \X EventTypes
      /\ \E e, f : added \subseteq {e, f}
      /\ \A e, f \in added : e[1] = f[1] => e = f
  <2>1. types \in {<<>>, <<EventOf(tx[w].success)>>, <<"START", EventOf(tx[w].success)>>}
    BY EventsToAddIs
  <2> HIDE DEF types
  <2> QED
    <3>1. Len(types) \in 0..2 /\ NewRows(RowsOf(types), eventIds + Len(types))
      BY <2>1, RowsAreNew
    <3> QED
      BY <3>1 DEF NewRows
<1>3. tx[w].addedEvents = {} /\ tx[w].deletedEvents = {}
  BY <1>1 DEF Writing, Pending, Told
<1> HIDE DEF types, added, deleted
<1>4. /\ \A q \in Procs \ {w} : tx'[q] = tx[q]
      /\ tx'[w].success = tx[w].success /\ tx'[w].aborted = tx[w].aborted
      /\ tx'[w].addedResults = tx[w].addedResults /\ tx'[w].deletedResults = tx[w].deletedResults
      /\ tx'[w].addedEvents = added \ deleted /\ tx'[w].deletedEvents = deleted \intersect events
  BY <1>0, <1>1, <1>3, WithEventsAdds
<1>5. step'[w] = "result" /\ \A q \in Procs \ {w} : step'[q] = step[q]
  BY <1>0, <1>1, GotoMoves
<1>6. \A v \in Writers \ {w} : Unmoved(v)
  BY <1>4, <1>5, Parts, SameIsUnmoved
<1>7. Counters /\ eventIds' \in Nat /\ eventIds' >= eventIds
  BY <1>1, <1>2 DEF Counters, RowTypes, Shapes
<1>8. added \subseteq RowsOf(EventsToAdd(w)) /\ added = RowsOf(EventsToAdd(w)) /\ deleted = EventsToDelete(w, added)
  BY DEF added, deleted, types
<1>9. AddsEvents(w, added, deleted)
  BY <1>1, <1>2, <1>4, <1>5, <1>6, <1>7, <1>8 DEF AddsEvents
<1> QED
  BY <1>9

LEMMA InsertEventsFailsAdds ==
  ASSUME Shapes, RowTypes, Writing, NEW w \in Writers, InsertEventsFails(w)
  PROVE  \E added, deleted : AddsEvents(w, added, deleted)
<1> DEFINE all == RowsOf(EventsToAdd(w))
           first == RowsOf(<<"START", EventOf(tx[w].success)>>)
<1>0. w \in Procs /\ "result" \in Steps
  BY Parts DEF Steps
<1>1. /\ step[w] = "events" /\ Goto(w, "result") /\ Fails(w)
      /\ eventIds' = eventIds + 2
      /\ UNCHANGED <<exists, results, events, log, memory, accepted>>
  BY DEF InsertEventsFails, tables
<1>2. \/ tx' = [tx EXCEPT ![w].aborted = TRUE] /\ gap' = gap
      \/ (\E lost : WithEvents(w, all \ {lost}, EventsToDelete(w, all \ {lost}))) /\ gap' = TRUE
      \/ WithEvents(w, all, {}) /\ gap' = gap
      \/ WithEvents(w, first, {}) /\ gap' = TRUE
  BY DEF InsertEventsFails, RowsOf
<1>3. /\ faults' = faults + 1 /\ Counters /\ eventIds' \in Nat /\ eventIds' >= eventIds
      /\ eventIds + 1 \in Nat /\ eventIds' = eventIds + 2
  <2>1. faults' = faults + 1 /\ faults' \in Nat /\ faults' >= faults
    BY <1>1, FailsAdds
  <2>2. gap \in BOOLEAN /\ eventIds \in Nat
    BY DEF RowTypes
  <2>3. gap' \in BOOLEAN /\ (gap => gap')
    BY <1>2, <2>2
  <2> QED
    BY <1>1, <2>1, <2>2, <2>3 DEF Counters
<1>4. step'[w] = "result" /\ \A q \in Procs \ {w} : step'[q] = step[q]
  BY <1>0, <1>1, GotoMoves
<1>5. tx[w].addedEvents = {} /\ tx[w].deletedEvents = {}
  BY <1>1 DEF Writing, Pending, Told
<1>6. ASSUME NEW types \in {EventsToAdd(w), <<"START", EventOf(tx[w].success)>>}
      PROVE  /\ RowsOf(types) \subseteq ((eventIds + 1)..eventIds') \X EventTypes
             /\ \E e, f : RowsOf(types) \subseteq {e, f}
             /\ \A e, f \in RowsOf(types) : e[1] = f[1] => e = f
  <2>1. types \in {<<>>, <<EventOf(tx[w].success)>>, <<"START", EventOf(tx[w].success)>>}
    BY EventsToAddIs
  <2>2. Len(types) \in 0..2 /\ NewRows(RowsOf(types), eventIds + Len(types))
    BY <2>1, RowsAreNew
  <2>3. \A i \in (eventIds + 1)..(eventIds + Len(types)) : i \in (eventIds + 1)..eventIds'
    <3> DEFINE k == Len(types)
    <3>1. k \in 0..2 /\ eventIds \in Nat
      BY <2>2 DEF RowTypes
    <3> HIDE DEF k
    <3>2. \A i \in (eventIds + 1)..(eventIds + k) : i \in (eventIds + 1)..(eventIds + 2)
      BY <3>1
    <3> QED
      BY <1>3, <3>2 DEF k
  <2> QED
    BY <2>2, <2>3 DEF NewRows
<1> HIDE DEF all, first
\* What is the same in all cases in which the transaction goes on.
<1>7. ASSUME NEW added, NEW deleted, WithEvents(w, added, deleted),
             added \subseteq all \/ added \subseteq first,
             deleted = {} \/ (added \subseteq all /\ deleted = EventsToDelete(w, added)),
             ~gap' => added = all
      PROVE  AddsEvents(w, added, deleted)
  <2>1. /\ \A q \in Procs \ {w} : tx'[q] = tx[q]
        /\ tx'[w].success = tx[w].success /\ tx'[w].aborted = tx[w].aborted
        /\ tx'[w].addedResults = tx[w].addedResults /\ tx'[w].deletedResults = tx[w].deletedResults
        /\ tx'[w].addedEvents = added \ deleted /\ tx'[w].deletedEvents = deleted \intersect events
    BY <1>0, <1>5, <1>7, WithEventsAdds
  <2>2. \A v \in Writers \ {w} : Unmoved(v)
    BY <1>4, <2>1, Parts, SameIsUnmoved
  <2>3. PICK types \in {EventsToAdd(w), <<"START", EventOf(tx[w].success)>>} : added \subseteq RowsOf(types)
    BY <1>7 DEF all, first
  <2>4. /\ added \subseteq ((eventIds + 1)..eventIds') \X EventTypes
        /\ \E e, f : added \subseteq {e, f}
        /\ \A e, f \in added : e[1] = f[1] => e = f
    <3>1. PICK e, f : RowsOf(types) \subseteq {e, f}
      BY <1>6
    <3>2. added \subseteq {e, f}
      BY <2>3, <3>1
    <3> QED
      BY <1>6, <2>3, <3>2
  <2>5. ~gap' /\ ~tx'[w].aborted =>
          added = RowsOf(EventsToAdd(w)) /\ deleted \in {{}, EventsToDelete(w, added)}
    BY <1>7 DEF all
  <2>6. \/ added \subseteq RowsOf(EventsToAdd(w)) /\ deleted = EventsToDelete(w, added)
        \/ deleted = {} /\ faults' = faults + 1
    BY <1>3, <1>7 DEF all
  <2> QED
    BY <1>1, <1>3, <1>4, <2>1, <2>2, <2>4, <2>5, <2>6 DEF AddsEvents
<1>8. CASE tx' = [tx EXCEPT ![w].aborted = TRUE]
  <2>1. tx'[w] = [tx[w] EXCEPT !.aborted = TRUE] /\ IsTx(tx[w]) /\ \A q \in Procs \ {w} : tx'[q] = tx[q]
    BY <1>0, <1>8 DEF Shapes
  <2>2. /\ tx'[w].success = tx[w].success /\ tx'[w].aborted = TRUE
        /\ tx'[w].addedResults = tx[w].addedResults /\ tx'[w].deletedResults = tx[w].deletedResults
        /\ tx'[w].addedEvents = {} /\ tx'[w].deletedEvents = {}
    BY <1>5, <2>1 DEF IsTx
  <2>3. \A v \in Writers \ {w} : Unmoved(v)
    BY <1>4, <2>1, Parts, SameIsUnmoved
  <2>4. AddsEvents(w, {}, {})
    BY <1>1, <1>3, <1>4, <2>2, <2>3 DEF AddsEvents
  <2> QED
    BY <2>4
<1>9. ASSUME NEW lost, WithEvents(w, all \ {lost}, EventsToDelete(w, all \ {lost})), gap' = TRUE
      PROVE  AddsEvents(w, all \ {lost}, EventsToDelete(w, all \ {lost}))
  BY <1>7, <1>9
<1>10. CASE WithEvents(w, all, {})
  BY <1>7, <1>10
<1>11. CASE WithEvents(w, first, {}) /\ gap' = TRUE
  BY <1>7, <1>11
<1> QED
  BY <1>2, <1>8, <1>9, <1>10, <1>11

LEMMA InsertResultAdds ==
  ASSUME Shapes, RowTypes, NEW w \in Writers, InsertResult(w)
  PROVE  \E deleted : AddsResult(w, deleted)
<1> DEFINE id == Len(log) + 1
<1>0. w \in Procs /\ "refresh" \in Steps
  BY Parts DEF Steps
<1>1. /\ step[w] = "result" /\ ~tx[w].aborted /\ Goto(w, "refresh") /\ log' = Append(log, tx[w].success)
      /\ UNCHANGED <<exists, results, events, eventIds, memory, accepted, gap>>
  BY DEF InsertResult, tables
<1>2. step'[w] = "refresh" /\ \A q \in Procs \ {w} : step'[q] = step[q]
  BY <1>0, <1>1, GotoMoves
<1>3. ASSUME NEW deleted, NEW aborted, WithResult(w, id, deleted, aborted), Counters,
             \/ deleted = ResultsToDelete(w, id) /\ faults' = faults
             \/ deleted = {} /\ faults' = faults + 1
      PROVE  AddsResult(w, deleted)
  <2>1. /\ tx'[w] = [tx[w] EXCEPT !.id = id, !.addedResults = {id} \ deleted,
                                  !.deletedResults = deleted \intersect results,
                                  !.aborted = aborted]
        /\ \A q \in Procs \ {w} : tx'[q] = tx[q]
        /\ IsTx(tx[w])
    BY <1>0, <1>3 DEF WithResult, Shapes
  <2>2. /\ tx'[w].success = tx[w].success /\ tx'[w].id = id
        /\ tx'[w].addedResults = {id} \ deleted /\ tx'[w].deletedResults = deleted \intersect results
        /\ tx'[w].addedEvents = tx[w].addedEvents /\ tx'[w].deletedEvents = tx[w].deletedEvents
    BY <2>1 DEF IsTx
  <2>3. \A v \in Writers \ {w} : Unmoved(v)
    BY <1>2, <2>1, Parts, SameIsUnmoved
  <2> QED
    BY <1>1, <1>2, <1>3, <2>2, <2>3 DEF AddsResult
<1>4. CASE WithResult(w, id, ResultsToDelete(w, id), FALSE) /\ UNCHANGED faults
  <2>1. Counters
    BY <1>1, <1>4 DEF Counters, Shapes, RowTypes
  <2> QED
    BY <1>3, <1>4, <2>1
<1>5. CASE WithResult(w, id, {}, AfterFailure) /\ Fails(w)
  <2>1. faults' = faults + 1 /\ Counters
    BY <1>1, <1>5, FailsAdds DEF Counters, RowTypes
  <2> QED
    BY <1>3, <1>5, <2>1
<1> QED
  BY <1>4, <1>5 DEF InsertResult

LEMMA CommitInsertCommits ==
  ASSUME Shapes, RowTypes, NEW w \in Writers, CommitInsert(w)
  PROVE  Commits(w)
<1>0. w \in Procs
  BY Parts
<1>1. /\ step[w] = "commit" /\ ~tx[w].aborted /\ RollBack(w)
      /\ UNCHANGED <<log, eventIds, faults, gap>>
      /\ exists' = TRUE /\ results' = ResultsSeen(w) /\ events' = EventsSeen(w)
      /\ accepted' = accepted \union {tx[w].id}
      /\ memory' = AddResult(memory, tx[w].id, log[tx[w].id],
                             IF memory.results = <<>> THEN TRUE ELSE log[Last(memory.results)])
  BY DEF CommitInsert
<1>2. Others(w) /\ step'[w] = "idle" /\ tx'[w] = NoTx
  BY <1>0, <1>1, RollBackLeaves
<1>3. Fresh(w) /\ \A v \in Writers \ {w} : Unmoved(v)
  BY <1>2, NoTxIsFresh, SameIsUnmoved, Parts DEF Others
<1>4. Counters
  BY <1>1 DEF Counters, Shapes, RowTypes
<1> QED
  BY <1>1, <1>2, <1>3, <1>4 DEF Commits

LEMMA DeleteEndpointDeletes ==
  ASSUME Clean, DeleteEndpoint
  PROVE  Deletes
<1>1. /\ \A p \in Procs : step[p] = "idle" /\ step'[p] = "idle" /\ tx'[p] = NoTx
      /\ UNCHANGED <<log, eventIds, faults>>
      /\ exists' = FALSE /\ results' = {} /\ events' = {}
      /\ memory' = NewStatus /\ accepted' = {} /\ gap' = FALSE
  BY DEF DeleteEndpoint, Cascaded, Clean
<1>2. \A w \in Writers : Fresh(w) /\ step'[w] = "idle"
  BY <1>1, NoTxIsFresh, Parts
<1> QED
  BY <1>1, <1>2 DEF Deletes

\* Every step is of one of these kinds, in the terms of the rows.
LEMMA StepKinds ==
  ASSUME CacheInv, RowTypes, Writing, [Next]_vars
  PROVE  \/ Quiet
         \/ \E w \in Writers : \E added, deleted : AddsEvents(w, added, deleted)
         \/ \E w \in Writers : \E deleted : AddsResult(w, deleted)
         \/ \E w \in Writers : Commits(w)
         \/ Deletes
<1>0. Shapes /\ Clean /\ OneConnection
  BY DEF CacheInv
<1>1. ASSUME UNCHANGED <<faults, gap>> PROVE Counters
  BY <1>0, <1>1 DEF Counters, Shapes, RowTypes
<1>2. ASSUME NEW w, Fails(w), gap' = gap PROVE Counters
  BY <1>0, <1>2, FailsAdds DEF Counters, RowTypes
<1>3. ASSUME NEW p \in Procs, NEW args, Begin(p, args), UNCHANGED faults PROVE Counters
  BY <1>0, <1>3 DEF Counters, Begin, Shapes, RowTypes
<1>4. ASSUME NEW w \in Writers, NEW success \in BOOLEAN, BeginInsert(w, success) PROVE Quiet
  <2>1. /\ w \in Procs /\ Begin(w, [NoTx EXCEPT !.success = success])
        /\ UNCHANGED <<log, eventIds, memory, accepted, faults>>
    BY <1>4, Parts DEF BeginInsert
  <2>2. tx'[w].success = success
    BY <2>1 DEF Begin, NoTx
  <2>3. Begins(w) /\ Counters
    BY <1>0, <1>3, <1>4, <2>1, BeginInsertBegins
  <2> QED
    BY <1>0, <2>1, <2>2, <2>3, BeginsIsQuiet
<1>5. ASSUME NEW w \in Writers, InsertEndpoint(w) PROVE Quiet
  <2>0. /\ w \in Procs /\ step[w] = "create"
        /\ UNCHANGED <<exists, results, events, log, eventIds, memory, accepted, faults, gap>>
    BY <1>5, Parts DEF InsertEndpoint, tables, history
  <2>1. CASE RollBack(w)
    <3>1. Others(w) /\ step'[w] = "idle" /\ tx'[w] = NoTx
      BY <1>0, <2>0, <2>1, RollBackLeaves
    <3>2. \A v \in Writers : Unmoved(v) \/ Fresh(v)
      BY <3>1, SameIsUnmoved, NoTxIsFresh, Parts DEF Others
    <3> QED
      BY <1>1, <2>0, <3>2 DEF Quiet
  <2>2. CASE Goto(w, "events") /\ tx' = [tx EXCEPT ![w].creates = TRUE]
    <3>1. /\ tx'[w] = [tx[w] EXCEPT !.creates = TRUE] /\ IsTx(tx[w])
          /\ step'[w] = "events"
          /\ \A q \in Procs \ {w} : tx'[q] = tx[q] /\ step'[q] = step[q]
      BY <1>0, <2>0, <2>2 DEF Shapes, Goto
    <3>2. Late(w)' = Late(w) /\ Told(w)' = Told(w)
      BY <2>0, <3>1 DEF Late, Told
    <3>3. /\ tx'[w].success = tx[w].success /\ tx'[w].id = tx[w].id
          /\ tx'[w].aborted = tx[w].aborted
          /\ tx'[w].addedResults = tx[w].addedResults /\ tx'[w].deletedResults = tx[w].deletedResults
          /\ tx'[w].addedEvents = tx[w].addedEvents /\ tx'[w].deletedEvents = tx[w].deletedEvents
      BY <3>1 DEF IsTx
    <3>4. \A v \in Writers : Unmoved(v)
      BY <3>1, <3>2, <3>3, SameIsUnmoved, Parts DEF Unmoved
    <3> QED
      BY <1>1, <2>0, <3>4 DEF Quiet
  <2> QED
    BY <1>5, <2>1, <2>2 DEF InsertEndpoint
<1>6. ASSUME NEW w \in Writers, InsertResultFails(w) \/ CommitFails(w) PROVE Quiet
  <2>1. /\ w \in Procs /\ Leaves(w)
        /\ UNCHANGED <<log, eventIds, memory, accepted, gap>>
        /\ UNCHANGED faults \/ Fails(w)
    BY <1>0, <1>6, Parts, InsertResultFailsLeaves, CommitFailsLeaves DEF InsertResultFails, CommitFails
  <2>2. Counters
    BY <1>1, <1>2, <2>1
  <2> QED
    BY <2>1, <2>2, LeavesIsQuiet
<1>7. ASSUME NEW w \in Writers, RefreshCache(w) PROVE Quiet
  <2>1. /\ w \in Procs /\ step[w] = "refresh" /\ Goto(w, "commit") /\ "commit" \in Steps /\ UNCHANGED tx
        /\ UNCHANGED <<exists, results, events, log, eventIds, memory, accepted, faults, gap>>
    BY <1>7, Parts DEF RefreshCache, tables, history, Steps
  <2>2. step'[w] = "commit" /\ \A q \in Procs \ {w} : step'[q] = step[q]
    BY <1>0, <2>1, GotoMoves
  <2>3. Late(w)' = Late(w) /\ Told(w)' = Told(w)
    BY <2>1, <2>2 DEF Late, Told
  <2>4. \A v \in Writers : Unmoved(v)
    BY <2>1, <2>2, <2>3, SameIsUnmoved, Parts DEF Unmoved
  <2> QED
    BY <1>1, <2>1, <2>4 DEF Quiet
<1>14. ASSUME NEW w \in Writers, RefreshFails(w) PROVE Quiet
  <2>1. /\ w \in Procs /\ Loses(w) /\ step[w] = "refresh" /\ step'[w] = "commit"
        /\ tx'[w] = [tx[w] EXCEPT !.aborted = AfterFailure, !.alone = FALSE]
        /\ IsTx(tx[w]) /\ ~tx[w].aborted
    BY <1>0, <1>14, Parts, RefreshFailsLoses DEF Shapes, RefreshFails
  <2>2. UNCHANGED <<exists, results, events, log, eventIds, memory, accepted, gap>>
    BY <1>14 DEF RefreshFails, tables
  <2>3. Counters
    BY <1>2, <1>14, <2>2 DEF RefreshFails
  <2>4. Late(w)' = Late(w) /\ Told(w)' = Told(w)
    BY <2>1 DEF Late, Told
  <2>5. /\ tx'[w].success = tx[w].success /\ tx'[w].id = tx[w].id
        /\ tx'[w].addedResults = tx[w].addedResults /\ tx'[w].deletedResults = tx[w].deletedResults
        /\ tx'[w].addedEvents = tx[w].addedEvents /\ tx'[w].deletedEvents = tx[w].deletedEvents
    BY <2>1 DEF IsTx
  <2>6. \A v \in Writers : Unmoved(v)
    BY <2>1, <2>4, <2>5, SameIsUnmoved, Parts DEF Unmoved, Loses, Others
  <2> QED
    BY <2>2, <2>3, <2>6 DEF Quiet
<1>8. ASSUME NEW r \in Readers, Show(r) PROVE Quiet
  <2>0. r \in Procs /\ r \notin Writers
    BY Parts
  <2>1. ASSUME NEW p, BeginRead(r, p) PROVE Quiet
    <3>1. /\ Begins(r) /\ Begin(r, [NoTx EXCEPT !.page = p])
          /\ UNCHANGED <<log, eventIds, memory, accepted, faults>>
      BY <1>0, <2>1, BeginReadBegins DEF BeginRead
    <3>2. Counters
      BY <1>3, <2>0, <3>1
    <3> QED
      BY <1>0, <2>0, <3>1, <3>2, BeginsIsQuiet
  <2>2. ASSUME Read(r) \/ FillCache(r) PROVE Quiet
    <3>1. UNCHANGED <<exists, results, events, log, eventIds, memory, accepted, faults, gap>>
      BY <2>2 DEF Read, FillCache, tables, history
    <3>2. Others(r)
      <4>1. CASE Read(r)
        BY <1>0, <4>1, ReadCases DEF WorksAsReader, Works, Leaves
      <4>2. CASE FillCache(r)
        BY <1>0, <2>0, <4>2, RollBackLeaves DEF FillCache
      <4> QED
        BY <2>2, <4>1, <4>2
    <3> QED
      BY <1>1, <3>1, <3>2, WorksIsQuiet DEF Tables
  <2>3. ASSUME ReadFails(r) PROVE Quiet
    <3>1. UNCHANGED <<exists, results, events, log, eventIds, memory, accepted, gap>>
      BY <2>3 DEF ReadFails, tables
    <3>2. Counters
      BY <1>2, <2>3, <3>1 DEF ReadFails
    <3>3. Others(r)
      BY <1>0, <2>3, ReadFailsCases DEF Loses, Leaves
    <3> QED
      BY <2>0, <3>1, <3>2, <3>3, WorksIsQuiet DEF Tables
  <2> QED
    BY <1>8, <2>1, <2>2, <2>3 DEF Show
<1>9. ASSUME UNCHANGED <<exists, results, events, log, eventIds, memory, accepted, faults, gap, step, tx>>
      PROVE  Quiet
  <2>1. \A v \in Writers : Unmoved(v)
    BY <1>9, SameIsUnmoved
  <2> QED
    BY <1>1, <1>9, <2>1 DEF Quiet
<1>10. ASSUME NEW p, Expire(p) PROVE Quiet
  BY <1>9, <1>10 DEF Expire, tables, history
<1>11. CASE UNCHANGED vars
  BY <1>9, <1>11 DEF vars, tables, history
<1>12. ASSUME NEW w \in Writers, Write(w)
       PROVE  \/ Quiet
              \/ \E added, deleted : AddsEvents(w, added, deleted)
              \/ \E deleted : AddsResult(w, deleted)
              \/ Commits(w)
  BY <1>0, <1>4, <1>5, <1>6, <1>7, <1>12, <1>14, InsertEventsAdds, InsertEventsFailsAdds,
     InsertResultAdds, CommitInsertCommits DEF Write
<1>13. CASE DeleteEndpoint
  BY <1>0, <1>13, DeleteEndpointDeletes
<1> QED
  BY <1>8, <1>10, <1>11, <1>12, <1>13 DEF Next

LEMMA NextOneWriter ==
  ASSUME CacheInv, RowTypes, OneWriter, [Next]_vars
  PROVE  OneWriter'
<1>0. Shapes /\ Clean
  BY DEF CacheInv
<1>1. ASSUME gap => gap', \A w \in Writers : step'[w] # "idle" => step[w] # "idle" PROVE OneWriter'
  BY <1>1 DEF OneWriter, RowTypes
<1>2. ASSUME NEW p \in Procs, NEW s \in Steps, Goto(p, s), gap => gap', step[p] # "idle" PROVE OneWriter'
  <2>1. \A q \in Procs \ {p} : step'[q] = step[q]
    BY <1>0, <1>2, GotoMoves
  <2> QED
    BY <1>1, <1>2, <2>1, Parts
<1>3. ASSUME NEW p \in Procs, NEW args, NEW s \in Steps, Begin(p, args), Goto(p, s) PROVE OneWriter'
  <2>1. \A q \in Procs \ {p} : step'[q] = step[q]
    BY <1>0, <1>3, GotoMoves
  <2>2. gap' = (gap \/ (p \in Writers /\ \E w \in Writers \ {p} : step[w] # "idle"))
    BY <1>3 DEF Begin
  <2>3. CASE p \in Writers
    <3>1. ASSUME ~gap' PROVE \A w \in Writers : step'[w] # "idle" => w = p
      BY <2>1, <2>2, <2>3, <3>1, Parts
    <3> QED
      BY <3>1 DEF OneWriter
  <2>4. CASE p \notin Writers
    BY <1>1, <2>1, <2>2, <2>4, Parts
  <2> QED
    BY <2>3, <2>4
<1>4. "idle" \in Steps /\ "events" \in Steps /\ "create" \in Steps /\ "result" \in Steps
      /\ "refresh" \in Steps /\ "commit" \in Steps /\ "lookup" \in Steps /\ "fill" \in Steps
  BY DEF Steps
<1>5. ASSUME NEW w \in Writers, Write(w) PROVE OneWriter'
  <2>0. w \in Procs
    BY Parts
  <2>1. ASSUME NEW success, BeginInsert(w, success) PROVE OneWriter'
    <3>1. (IF exists THEN "events" ELSE "create") \in Steps
      BY <1>4
    <3> QED
      BY <1>3, <2>0, <2>1, <3>1 DEF BeginInsert
  <2>2. CASE InsertEndpoint(w)
    <3>1. step[w] = "create" /\ gap' = gap /\ (Goto(w, "idle") \/ Goto(w, "events"))
      BY <2>2 DEF InsertEndpoint, RollBack, history
    <3> QED
      BY <1>2, <1>4, <2>0, <3>1
  <2>3. CASE InsertEvents(w) \/ InsertEventsFails(w)
    <3>1. step[w] = "events" /\ (gap => gap') /\ Goto(w, "result")
      BY <2>3 DEF InsertEvents, InsertEventsFails, history
    <3> QED
      BY <1>2, <1>4, <2>0, <3>1
  <2>4. CASE InsertResult(w)
    BY <1>2, <1>4, <2>0, <2>4 DEF InsertResult
  <2>5. CASE InsertResultFails(w) \/ CommitFails(w) \/ CommitInsert(w)
    <3>1. step[w] # "idle" /\ (gap => gap') /\ Goto(w, "idle")
      <4>1. CASE InsertResultFails(w)
        BY <4>1 DEF InsertResultFails, RollBack
      <4>2. CASE CommitFails(w)
        BY <4>2 DEF CommitFails, RollBack
      <4>3. CASE CommitInsert(w)
        BY <4>3 DEF CommitInsert, RollBack
      <4> QED
        BY <2>5, <4>1, <4>2, <4>3
    <3> QED
      BY <1>2, <1>4, <2>0, <3>1
  <2>6. CASE RefreshCache(w) \/ RefreshFails(w)
    <3>1. step[w] = "refresh" /\ gap' = gap /\ Goto(w, "commit")
      BY <2>6 DEF RefreshCache, RefreshFails, history
    <3> QED
      BY <1>2, <1>4, <2>0, <3>1
  <2> QED
    BY <1>5, <2>1, <2>2, <2>3, <2>4, <2>5, <2>6 DEF Write
<1>6. ASSUME NEW r \in Readers, Show(r) PROVE OneWriter'
  <2>0. r \in Procs
    BY Parts
  <2>1. ASSUME NEW p, BeginRead(r, p) PROVE OneWriter'
    BY <1>3, <1>4, <2>0, <2>1 DEF BeginRead
  <2>2. CASE Read(r) \/ ReadFails(r) \/ FillCache(r)
    <3>1. step[r] # "idle" /\ gap' = gap /\ (Goto(r, "idle") \/ Goto(r, "fill"))
      BY <2>2 DEF Read, ReadFails, FillCache, RollBack, history
    <3> QED
      BY <1>2, <1>4, <2>0, <3>1
  <2> QED
    BY <1>6, <2>1, <2>2 DEF Show
<1>7. CASE DeleteEndpoint
  BY <1>7, Parts DEF DeleteEndpoint, OneWriter
<1>8. CASE UNCHANGED vars \/ \E p \in Pages : Expire(p)
  BY <1>1, <1>8 DEF vars, history, Expire
<1> QED
  BY <1>5, <1>6, <1>7, <1>8 DEF Next

-----------------------------------------------------------------------------
(* Rows are of those that were inserted, and nobody else's *)

LEMMA NewestFinite ==
  ASSUME NEW S, NEW n \in Nat, S \subseteq 1..n
  PROVE  IsFiniteSet(S) /\ S \in SUBSET Nat
<1>1. IsFiniteSet(1..n)
  BY FS_Interval
<1>2. IsFiniteSet(S)
  BY <1>1, FS_Subset
<1> QED
  BY <1>2

LEMMA PendingUnmoved ==
  ASSUME NEW w, Pending(w), Unmoved(w), RowTypes,
         Len(log') \in Nat, Len(log') >= Len(log), \A i \in 1..Len(log) : log'[i] = log[i],
         Late(w) => tx[w].id \notin accepted',
         eventIds' \in Nat, eventIds' >= eventIds
  PROVE  Pending(w)'
<1>0. eventIds \in Nat /\ Len(log) \in Nat
  BY DEF RowTypes
<1>1. /\ 1..Len(log) \subseteq 1..Len(log') /\ 1..eventIds \subseteq 1..eventIds'
  BY <1>0
<1>2. Late(w)' <=> Late(w)
  BY DEF Unmoved
<1>3. Told(w)' <=> Told(w)
  BY DEF Unmoved
<1>4. tx'[w].success \in BOOLEAN
  BY DEF Unmoved, Pending
<1>5. Late(w)' => /\ tx'[w].id \in 1..Len(log') /\ tx'[w].id \notin accepted'
                  /\ log'[tx'[w].id] = tx'[w].success
                  /\ tx'[w].addedResults \subseteq {tx'[w].id}
  BY <1>1, <1>2 DEF Unmoved, Pending
<1>6. ~Late(w)' => tx'[w].addedResults = {} /\ tx'[w].deletedResults = {}
  BY <1>2 DEF Unmoved, Pending
<1>7. Told(w)' => /\ tx'[w].addedEvents \subseteq (1..eventIds') \X EventTypes
                  /\ \E e, f : tx'[w].addedEvents \subseteq {e, f}
  <2>1. Told(w)' => /\ tx[w].addedEvents \subseteq (1..eventIds) \X EventTypes
                    /\ \E e, f : tx[w].addedEvents \subseteq {e, f}
    BY <1>3 DEF Pending
  <2>2. tx'[w].addedEvents = tx[w].addedEvents
    BY DEF Unmoved
  <2>3. (1..eventIds) \X EventTypes \subseteq (1..eventIds') \X EventTypes
    BY <1>1
  <2> QED
    BY <2>1, <2>2, <2>3
<1>8. ~Told(w)' => tx'[w].addedEvents = {} /\ tx'[w].deletedEvents = {}
  BY <1>3 DEF Unmoved, Pending
<1> QED
  BY <1>4, <1>5, <1>6, <1>7, <1>8 DEF Pending

LEMMA PendingFresh ==
  ASSUME NEW w, Fresh(w)
  PROVE  Pending(w)'
  BY DEF Fresh, Pending

LEMMA ResultsSeenEarly ==
  ASSUME NEW w, Pending(w), ~Late(w)
  PROVE  ResultsSeen(w) = results
  BY DEF Pending, ResultsSeen

LEMMA EventsSeenEarly ==
  ASSUME NEW w, Pending(w), ~Told(w)
  PROVE  EventsSeen(w) = events
  BY DEF Pending, EventsSeen

\* The types of rows and transactions, and whose rows are whose.
LEMMA NextRowTypes ==
  ASSUME CacheInv, RowTypes, Writing, [Next]_vars
  PROVE  RowTypes'
<1>1. CASE Quiet
  BY <1>1 DEF RowTypes, Quiet, Counters
<1>2. ASSUME NEW w, NEW added, NEW deleted, AddsEvents(w, added, deleted) PROVE RowTypes'
  <2>1. eventIds \in Nat /\ eventIds' \in Nat /\ eventIds' >= eventIds
    BY <1>2 DEF RowTypes, AddsEvents
  <2>2. 1..eventIds \subseteq 1..eventIds'
    BY <2>1
  <2> QED
    BY <1>2, <2>1, <2>2 DEF RowTypes, AddsEvents, Counters
<1>3. ASSUME NEW w \in Writers, NEW deleted, AddsResult(w, deleted) PROVE RowTypes'
  <2>1. tx[w].success \in BOOLEAN
    BY DEF Writing, Pending
  <2>2. /\ log \in Seq(BOOLEAN) /\ log' = Append(log, tx[w].success)
        /\ UNCHANGED <<results, events, eventIds, accepted, gap>>
    BY <1>3 DEF AddsResult, RowTypes
  <2>3. log' \in Seq(BOOLEAN) /\ Len(log') = Len(log) + 1 /\ Len(log) \in Nat
    BY <2>1, <2>2
  <2>4. 1..Len(log) \subseteq 1..Len(log')
    BY <2>3
  <2> QED
    BY <1>3, <2>2, <2>3, <2>4 DEF RowTypes, AddsResult, Counters
<1>4. ASSUME NEW w \in Writers, Commits(w) PROVE RowTypes'
  <2>1. Pending(w) /\ Late(w) /\ Told(w)
    BY <1>4 DEF Writing, Commits, Late, Told
  <2>2. accepted' \subseteq 1..Len(log) /\ results' \subseteq accepted'
    BY <1>4, <2>1 DEF Pending, Commits, ResultsSeen, RowTypes
  <2>3. events' \subseteq (1..eventIds) \X EventTypes
    BY <1>4, <2>1 DEF Pending, Commits, EventsSeen, RowTypes
  <2> QED
    BY <1>4, <2>2, <2>3 DEF Commits, Counters, RowTypes
<1>5. CASE Deletes
  BY <1>5 DEF Deletes, RowTypes
<1> QED
  BY <1>1, <1>2, <1>3, <1>4, <1>5, StepKinds

LEMMA NextWriting ==
  ASSUME CacheInv, RowTypes, Writing, OwnIds, [Next]_vars
  PROVE  Writing'
<1>0. log \in Seq(BOOLEAN) /\ Len(log) \in Nat /\ eventIds \in Nat
  BY DEF RowTypes
<1>1. CASE Quiet
  <2>1. ASSUME NEW w \in Writers PROVE Pending(w)'
    <3>1. CASE Fresh(w)
      BY <3>1, PendingFresh
    <3>2. CASE Unmoved(w)
      <4>1. Late(w) => tx[w].id \notin accepted'
        BY <1>1 DEF Quiet, Writing, Pending
      <4>2. log' = log /\ eventIds' = eventIds /\ Pending(w)
        BY <1>1 DEF Quiet, Writing
      <4> QED
        BY <1>0, <3>2, <4>1, <4>2, PendingUnmoved
    <3> QED
      BY <1>1, <3>1, <3>2 DEF Quiet
  <2> QED
    BY <2>1 DEF Writing
<1>2. ASSUME NEW w \in Writers, NEW added, NEW deleted, AddsEvents(w, added, deleted) PROVE Writing'
  <2>1. ASSUME NEW v \in Writers, v # w PROVE Pending(v)'
    <3>1. /\ Unmoved(v) /\ Pending(v) /\ log' = log /\ accepted' = accepted
          /\ eventIds' \in Nat /\ eventIds' >= eventIds
      BY <1>2, <2>1 DEF AddsEvents, Writing
    <3>2. Late(v) => tx[v].id \notin accepted'
      BY <3>1 DEF Pending
    <3> QED
      BY <1>0, <3>1, <3>2, PendingUnmoved
  <2>2. Pending(w)'
    <3>1. ~Late(w) /\ ~Late(w)' /\ Told(w)' /\ Pending(w)
      BY <1>2 DEF AddsEvents, Late, Told, Writing
    <3>2. eventIds' \in Nat /\ (eventIds + 1)..eventIds' \subseteq 1..eventIds'
      BY <1>0, <1>2 DEF AddsEvents
    <3>3. /\ tx'[w].addedEvents \subseteq added
          /\ added \subseteq ((eventIds + 1)..eventIds') \X EventTypes
          /\ \E e, f : added \subseteq {e, f}
      BY <1>2 DEF AddsEvents
    <3>4. tx'[w].addedEvents \subseteq (1..eventIds') \X EventTypes
      BY <3>2, <3>3
    <3>5. \E e, f : tx'[w].addedEvents \subseteq {e, f}
      BY <3>3
    <3>6. /\ tx'[w].success \in BOOLEAN
          /\ tx'[w].addedResults = {} /\ tx'[w].deletedResults = {}
      BY <1>2, <3>1 DEF AddsEvents, Pending
    <3> QED
      BY <3>1, <3>4, <3>5, <3>6 DEF Pending
  <2> QED
    BY <2>1, <2>2 DEF Writing
<1>3. ASSUME NEW w \in Writers, NEW deleted, AddsResult(w, deleted) PROVE Writing'
  <2>0. Pending(w)
    BY DEF Writing
  <2>1. /\ log' = Append(log, tx[w].success) /\ accepted' = accepted /\ eventIds' = eventIds
        /\ tx[w].success \in BOOLEAN
    BY <1>3, <2>0 DEF AddsResult, Pending
  <2>2. /\ Len(log') = Len(log) + 1 /\ log'[Len(log) + 1] = tx[w].success
        /\ \A i \in 1..Len(log) : log'[i] = log[i]
    BY <1>0, <2>1
  <2>3. ASSUME NEW v \in Writers, v # w PROVE Pending(v)'
    <3>1. Unmoved(v) /\ Pending(v)
      BY <1>3, <2>3 DEF AddsResult, Writing
    <3>2. Late(v) => tx[v].id \notin accepted'
      BY <2>1, <3>1 DEF Pending
    <3>3. Len(log') \in Nat /\ Len(log') >= Len(log) /\ eventIds' \in Nat /\ eventIds' >= eventIds
      BY <1>0, <2>1, <2>2
    <3> QED
      BY <2>2, <3>1, <3>2, <3>3, PendingUnmoved
  <2>4. Pending(w)'
    <3>1. Late(w)' /\ Told(w)' /\ Told(w)
      BY <1>3 DEF AddsResult, Late, Told
    <3>2. /\ tx'[w].success = tx[w].success /\ tx'[w].id = Len(log) + 1
          /\ tx'[w].addedResults \subseteq {Len(log) + 1}
          /\ tx'[w].addedEvents = tx[w].addedEvents
      BY <1>3 DEF AddsResult
    <3>3. Len(log) + 1 \in 1..Len(log') /\ Len(log) + 1 \notin accepted'
      BY <1>0, <2>1, <2>2 DEF RowTypes
    <3>4. /\ tx'[w].addedEvents \subseteq (1..eventIds') \X EventTypes
          /\ \E e, f : tx'[w].addedEvents \subseteq {e, f}
      BY <2>0, <2>1, <3>1, <3>2 DEF Pending
    <3> QED
      BY <2>1, <2>2, <3>1, <3>2, <3>3, <3>4 DEF Pending
  <2> QED
    BY <2>3, <2>4 DEF Writing
<1>4. ASSUME NEW w \in Writers, Commits(w) PROVE Writing'
  <2>1. ASSUME NEW v \in Writers, v # w PROVE Pending(v)'
    <3>1. Unmoved(v) /\ Pending(v) /\ log' = log /\ eventIds' = eventIds
      BY <1>4, <2>1 DEF Commits, Writing
    <3>2. Late(v) => tx[v].id \notin accepted'
      <4>1. Late(v) => tx[v].id \notin accepted /\ Late(w) /\ tx[v].id # tx[w].id
        BY <1>4, <2>1, <3>1 DEF Pending, Commits, OwnIds, Late
      <4> QED
        BY <1>4, <4>1 DEF Commits
    <3> QED
      BY <1>0, <3>1, <3>2, PendingUnmoved
  <2>2. Pending(w)'
    BY <1>4, PendingFresh DEF Commits
  <2> QED
    BY <2>1, <2>2 DEF Writing
<1>5. CASE Deletes
  BY <1>5, PendingFresh DEF Deletes, Writing
<1> QED
  BY <1>1, <1>2, <1>3, <1>4, <1>5, StepKinds

LEMMA NextOwnIds ==
  ASSUME CacheInv, RowTypes, Writing, OwnIds, [Next]_vars
  PROVE  OwnIds'
<1>0. log \in Seq(BOOLEAN) /\ Len(log) \in Nat /\ eventIds \in Nat
  BY DEF RowTypes
<1>1. CASE Quiet
  <2>1. \A w \in Writers : Late(w)' => Late(w) /\ tx'[w].id = tx[w].id
    BY <1>1 DEF Quiet, Unmoved, Fresh
  <2>2. \A w \in Writers : tx'[w].addedEvents \subseteq tx[w].addedEvents
    BY <1>1 DEF Quiet, Unmoved, Fresh
  <2>3. events' = events
    BY <1>1 DEF Quiet
  <2> QED
    BY <2>1, <2>2, <2>3 DEF OwnIds
<1>2. ASSUME NEW w \in Writers, NEW added, NEW deleted, AddsEvents(w, added, deleted) PROVE OwnIds'
  <2>1. \A v \in Writers \ {w} : Unmoved(v) /\ Pending(v)
    BY <1>2 DEF AddsEvents, Writing
  <2>2. ~Late(w)'
    BY <1>2 DEF AddsEvents, Late
  <2>3. \A v \in Writers : Late(v)' => Late(v) /\ tx'[v].id = tx[v].id
    BY <2>1, <2>2 DEF Unmoved
  <2>4. \A v \in Writers \ {w} : tx'[v].addedEvents = tx[v].addedEvents
    BY <2>1 DEF Unmoved
  <2>5. /\ tx'[w].addedEvents \subseteq added /\ events' = events
        /\ \A e, f \in added : e[1] = f[1] => e = f
        /\ added \subseteq ((eventIds + 1)..eventIds') \X EventTypes /\ eventIds' \in Nat
    BY <1>2 DEF AddsEvents
  <2>6. \A e \in added : e[1] \in Nat /\ e[1] > eventIds
    BY <1>0, <2>5
  <2>7. \A e \in events : e[1] \in Nat /\ e[1] <= eventIds
    BY <1>0 DEF RowTypes
  <2>8. \A v \in Writers \ {w} : \A e \in tx[v].addedEvents : e[1] \in Nat /\ e[1] <= eventIds
    <3>1. \A v \in Writers \ {w} : tx[v].addedEvents \subseteq (1..eventIds) \X EventTypes
      BY <2>1 DEF Pending
    <3> QED
      BY <1>0, <3>1
  <2>9. \A e \in added : /\ \A f \in events : e[1] # f[1]
                         /\ \A v \in Writers \ {w} : \A f \in tx[v].addedEvents : e[1] # f[1]
    BY <1>0, <2>6, <2>7, <2>8
  <2>10. \A v \in Writers : \A e \in tx'[v].addedEvents : \A f \in events : e[1] # f[1]
    BY <2>4, <2>5, <2>9 DEF OwnIds
  <2>11. ASSUME NEW v \in Writers, NEW u \in Writers, NEW e \in tx'[v].addedEvents,
                NEW f \in tx'[u].addedEvents, e[1] = f[1]
         PROVE  v = u /\ e = f
    <3>1. CASE v = w /\ u = w
      BY <2>5, <2>11, <3>1
    <3>2. CASE v # w /\ u # w
      BY <2>4, <2>11, <3>2 DEF OwnIds
    <3>3. CASE v = w /\ u # w
      BY <2>4, <2>5, <2>9, <2>11, <3>3
    <3>4. CASE v # w /\ u = w
      BY <2>4, <2>5, <2>9, <2>11, <3>4
    <3> QED
      BY <3>1, <3>2, <3>3, <3>4
  <2> QED
    BY <2>3, <2>5, <2>10, <2>11 DEF OwnIds
<1>3. ASSUME NEW w \in Writers, NEW deleted, AddsResult(w, deleted) PROVE OwnIds'
  <2>1. \A v \in Writers \ {w} : Unmoved(v) /\ Pending(v)
    BY <1>3 DEF AddsResult, Writing
  <2>2. \A v \in Writers : tx'[v].addedEvents = tx[v].addedEvents
    BY <1>3, <2>1 DEF Unmoved, AddsResult
  <2>3. \A v \in Writers \ {w} : Late(v)' => Late(v) /\ tx'[v].id = tx[v].id /\ tx[v].id \in 1..Len(log)
    BY <2>1 DEF Unmoved, Pending
  <2>4. tx'[w].id = Len(log) + 1 /\ events' = events
    BY <1>3 DEF AddsResult
  <2>5. Len(log) + 1 \notin 1..Len(log)
    BY <1>0
  <2>6. \A v, u \in Writers : Late(v)' /\ Late(u)' /\ v # u => tx'[v].id # tx'[u].id
    BY <2>3, <2>4, <2>5 DEF OwnIds
  <2> QED
    BY <2>2, <2>4, <2>6 DEF OwnIds
<1>4. ASSUME NEW w \in Writers, Commits(w) PROVE OwnIds'
  <2>1. \A v \in Writers : Late(v)' => Late(v) /\ tx'[v].id = tx[v].id
    BY <1>4 DEF Commits, Unmoved, Fresh
  <2>2. /\ \A v \in Writers \ {w} : tx'[v].addedEvents = tx[v].addedEvents
        /\ tx'[w].addedEvents = {}
    BY <1>4 DEF Commits, Unmoved, Fresh
  <2>3. events' \subseteq events \union tx[w].addedEvents
    BY <1>4 DEF Commits, EventsSeen
  <2>4. \A e, f \in events' : e[1] = f[1] => e = f
    BY <2>3 DEF OwnIds
  <2>5. \A v \in Writers : \A e \in tx'[v].addedEvents : \A f \in events' : e[1] # f[1]
    <3>1. ASSUME NEW v \in Writers, NEW e \in tx'[v].addedEvents, NEW f \in events'
          PROVE  e[1] # f[1]
      <4>1. v # w /\ e \in tx[v].addedEvents
        BY <2>2, <3>1
      <4>2. CASE f \in events
        BY <4>1, <4>2 DEF OwnIds
      <4>3. CASE f \in tx[w].addedEvents
        BY <4>1, <4>3 DEF OwnIds
      <4> QED
        BY <2>3, <4>2, <4>3
    <3> QED
      BY <3>1
  <2>6. \A v, u \in Writers : \A e \in tx'[v].addedEvents : \A f \in tx'[u].addedEvents :
          e[1] = f[1] => v = u /\ e = f
    <3>1. \A v \in Writers : tx'[v].addedEvents \subseteq tx[v].addedEvents
      BY <2>2
    <3> QED
      BY <3>1 DEF OwnIds
  <2> QED
    BY <2>1, <2>4, <2>5, <2>6 DEF OwnIds
<1>5. CASE Deletes
  <2>1. \A w \in Writers : ~Late(w)' /\ tx'[w].addedEvents = {}
    BY <1>5 DEF Deletes, Fresh
  <2>2. events' = {}
    BY <1>5 DEF Deletes
  <2> QED
    BY <2>1, <2>2 DEF OwnIds
<1> QED
  BY <1>1, <1>2, <1>3, <1>4, <1>5, StepKinds
-----------------------------------------------------------------------------
(* The newest results are kept *)

LEMMA ReplacedMore ==
  ASSUME NEW x, NEW S, NEW T, NEW n \in Nat, S \subseteq T, T \subseteq 1..n, Replaced(x, S)
  PROVE  Replaced(x, T)
<1> DEFINE A == {y \in S : y > x}
           B == {y \in T : y > x}
<1>1. B \subseteq 1..n /\ A \in SUBSET B
  OBVIOUS
<1> HIDE DEF A, B
<1>2. IsFiniteSet(B)
  BY <1>1, NewestFinite
<1>3. Cardinality(A) <= Cardinality(B) /\ Cardinality(A) \in Nat /\ Cardinality(B) \in Nat
  BY <1>1, <1>2, SmallerSubset
<1>4. Cardinality(A) >= MaxResults /\ MaxResults \in Nat
  BY StoreAssumption DEF A, Replaced
<1>5. Cardinality(B) >= MaxResults
  BY <1>3, <1>4
<1> QED
  BY <1>5 DEF B, Replaced

\* What the clean-up selects is replaced by what the transaction sees.
LEMMA DeletedIsReplaced ==
  ASSUME NEW w, NEW id \in Nat, NEW n \in Nat, ResultsSeen(w) \subseteq 1..n, id <= n,
         NEW x \in ResultsToDelete(w, id), id # 0
  PROVE  x \in ResultsSeen(w) \union {id} /\ Replaced(x, ResultsSeen(w) \union {id})
<1> DEFINE S == ResultsSeen(w) \union {id}
           all == ById(S)
<1>1. S \subseteq 1..n
  OBVIOUS
<1>2. MaxResults \in Nat
  BY StoreAssumption
<1>3. x \in ToSet(all) \ NewestRows(all, MaxResults)
  BY DEF ResultsToDelete
<1> HIDE DEF S
<1>4. IsFiniteSet(S) /\ S \in SUBSET Nat
  BY <1>1, NewestFinite
<1>5. /\ Keyed(S, [y \in S |-> y])
      /\ NewestRows(all, MaxResults) = {y \in S : Cardinality({z \in S : z > y}) < MaxResults}
  BY <1>2, <1>4, NewestResults
<1>6. all \in Seq(S)
  BY <1>5, InOrderLists DEF ById
<1> HIDE DEF all
<1>7. x \in S
  BY <1>3, <1>6 DEF ToSet
<1>8. ~(Cardinality({z \in S : z > x}) < MaxResults)
  BY <1>3, <1>5, <1>7
<1>9. Cardinality({z \in S : z > x}) \in Nat
  <2>1. {z \in S : z > x} \in SUBSET S
    OBVIOUS
  <2> QED
    BY <1>4, <2>1, SmallerSubset
<1> QED
  BY <1>2, <1>7, <1>8, <1>9 DEF Replaced, S

LEMMA NextKept ==
  ASSUME CacheInv, RowTypes, Writing, OwnIds, Kept, [Next]_vars
  PROVE  Kept'
<1>0. log \in Seq(BOOLEAN) /\ Len(log) \in Nat /\ accepted \subseteq 1..Len(log) /\ results \subseteq accepted
  BY DEF RowTypes
<1>1. ASSUME NEW w, Unmoved(w), KeptByTx(w), accepted' = accepted PROVE KeptByTx(w)'
  BY <1>1 DEF Unmoved, KeptByTx, Replaced
<1>2. ASSUME NEW w, ~Late(w)' PROVE KeptByTx(w)'
  BY <1>2 DEF KeptByTx
<1>3. ASSUME UNCHANGED <<accepted, results>> PROVE (\A x \in accepted \ results : Replaced(x, accepted))'
  BY <1>3 DEF Kept, Replaced
<1>4. CASE Quiet
  <2>1. \A w \in Writers : KeptByTx(w)'
    BY <1>1, <1>2, <1>4 DEF Quiet, Fresh, Kept
  <2> QED
    BY <1>3, <1>4, <2>1 DEF Quiet, Kept
<1>5. ASSUME NEW w \in Writers, NEW added, NEW deleted, AddsEvents(w, added, deleted) PROVE Kept'
  <2>1. ~Late(w)'
    BY <1>5 DEF AddsEvents, Late
  <2>2. \A v \in Writers : KeptByTx(v)'
    BY <1>1, <1>2, <1>5, <2>1 DEF AddsEvents, Kept
  <2> QED
    BY <1>3, <1>5, <2>2 DEF AddsEvents, Kept
<1>6. ASSUME NEW w \in Writers, NEW deleted, AddsResult(w, deleted) PROVE Kept'
  <2> DEFINE id == Len(log) + 1
  <2>1. \A v \in Writers \ {w} : KeptByTx(v)'
    BY <1>1, <1>6 DEF AddsResult, Kept
  <2>2. ResultsSeen(w) = results
    <3>1. ~Late(w) /\ Pending(w)
      BY <1>6 DEF AddsResult, Late, Writing
    <3> QED
      BY <3>1, ResultsSeenEarly
  <2>3. /\ tx'[w].id = id /\ tx'[w].addedResults = {id} \ deleted
        /\ tx'[w].deletedResults = deleted \intersect results
        /\ accepted' = accepted /\ (deleted = {} \/ deleted = ResultsToDelete(w, id))
    BY <1>6 DEF AddsResult
  <2>4. ASSUME NEW x \in deleted PROVE x \in Nat /\ Replaced(x, accepted \union {id})
    <3>1. x \in ResultsToDelete(w, id)
      BY <2>3, <2>4
    <3>2. ResultsSeen(w) \subseteq 1..id /\ accepted \union {id} \subseteq 1..id /\ id \in Nat /\ id # 0 /\ id <= id
      <4>1. \A i \in 1..Len(log) : i \in 1..id
        BY <1>0
      <4>2. accepted \subseteq 1..id /\ id \in 1..id /\ id \in Nat
        BY <1>0, <4>1
      <4>3. id # 0 /\ id <= id
        BY <1>0
      <4> HIDE DEF id
      <4> QED
        BY <1>0, <2>2, <4>2, <4>3
    <3>3. x \in results \union {id} /\ Replaced(x, results \union {id})
      <4> HIDE DEF id
      <4> QED
        BY <2>2, <3>1, <3>2, DeletedIsReplaced
    <3>4. results \union {id} \subseteq accepted \union {id}
      BY <1>0
    <3>5. x \in Nat
      BY <1>0, <2>2, <3>2, <3>3
    <3> HIDE DEF id
    <3> QED
      BY <3>2, <3>3, <3>4, <3>5, ReplacedMore
  <2>5. \A x \in (tx'[w].deletedResults \union {tx'[w].id}) \ tx'[w].addedResults : x \in deleted
    BY <2>3
  <2>6. KeptByTx(w)'
    BY <2>3, <2>4, <2>5 DEF KeptByTx, Replaced
  <2>7. \A v \in Writers : KeptByTx(v)'
    BY <2>1, <2>6
  <2> QED
    BY <1>3, <1>6, <2>7 DEF AddsResult, Kept
<1>7. ASSUME NEW w \in Writers, Commits(w) PROVE Kept'
  <2> DEFINE id == tx[w].id
  <2>1. Late(w) /\ Pending(w) /\ KeptByTx(w)
    BY <1>7 DEF Commits, Late, Writing, Kept
  <2>2. /\ accepted' = accepted \union {id} /\ accepted' \subseteq 1..Len(log)
        /\ results' = (results \ tx[w].deletedResults) \union tx[w].addedResults
    BY <1>0, <1>7, <2>1 DEF Commits, ResultsSeen, Pending
  <2>3. ASSUME NEW x \in accepted' \ results' PROVE Replaced(x, accepted)'
    <3>1. CASE x \in accepted \ results
      <4>1. Replaced(x, accepted)
        BY <3>1 DEF Kept
      <4> QED
        <5>1. Replaced(x, accepted')
          BY <1>0, <2>2, <4>1, ReplacedMore
        <5> QED
          BY <5>1 DEF Replaced
    <3>2. CASE ~(x \in accepted \ results)
      <4>1. x \in (tx[w].deletedResults \union {id}) \ tx[w].addedResults
        BY <2>2, <2>3, <3>2
      <4>2. Replaced(x, accepted \union {id})
        BY <2>1, <4>1 DEF KeptByTx
      <4> QED
        BY <2>2, <4>2 DEF Replaced
    <3> QED
      BY <3>1, <3>2
  <2>4. ASSUME NEW v \in Writers, v # w PROVE KeptByTx(v)'
    <3>1. Unmoved(v) /\ Pending(v) /\ KeptByTx(v)
      BY <1>7, <2>4 DEF Commits, Writing, Kept
    <3>2. ASSUME Late(v)', NEW x \in (tx'[v].deletedResults \union {tx'[v].id}) \ tx'[v].addedResults
          PROVE  x \in Nat /\ Replaced(x, accepted' \union {tx'[v].id})
      <4>1. /\ Late(v) /\ x \in (tx[v].deletedResults \union {tx[v].id}) \ tx[v].addedResults
            /\ tx'[v].id = tx[v].id
        BY <3>1, <3>2 DEF Unmoved
      <4>2. x \in Nat /\ Replaced(x, accepted \union {tx[v].id})
        BY <3>1, <4>1 DEF KeptByTx
      <4>3. /\ accepted \union {tx[v].id} \subseteq accepted' \union {tx[v].id}
            /\ accepted' \union {tx[v].id} \subseteq 1..Len(log)
        BY <2>2, <3>1, <4>1 DEF Pending
      <4> QED
        BY <1>0, <4>1, <4>2, <4>3, ReplacedMore
    <3> QED
      BY <3>2 DEF KeptByTx, Replaced
  <2>5. ~Late(w)'
    BY <1>7 DEF Commits, Late
  <2> QED
    BY <1>2, <2>3, <2>4, <2>5 DEF Kept
<1>8. CASE Deletes
  <2>1. \A w \in Writers : KeptByTx(w)'
    BY <1>2, <1>8 DEF Deletes, Fresh
  <2> QED
    BY <1>8, <2>1 DEF Deletes, Kept
<1> QED
  BY <1>4, <1>5, <1>6, <1>7, <1>8, StepKinds

LEMMA NextRows ==
  ASSUME CacheInv, RowInv, [Next]_vars
  PROVE  RowInv'
  BY NextRowTypes, NextWriting, NextOwnIds, NextOneWriter, NextKept DEF RowInv

LEMMA InitRows == Init => RowInv
<1> SUFFICES ASSUME Init PROVE RowInv
  OBVIOUS
<1>1. /\ log = <<>> /\ eventIds = 0 /\ faults = 0 /\ gap = FALSE /\ accepted = {} /\ results = {} /\ events = {}
      /\ \A w \in Writers : step[w] = "idle" /\ tx[w] = NoTx
  BY Parts DEF Init
<1>2. \A w \in Writers : ~Late(w) /\ ~Told(w)
  BY <1>1 DEF Late, Told
<1>3. RowTypes /\ OneWriter
  <2>1. log \in Seq(BOOLEAN)
    BY <1>1
  <2>2. RowTypes
    BY <1>1, <2>1 DEF RowTypes
  <2>3. OneWriter
    BY <1>1 DEF OneWriter
  <2> QED
    BY <2>2, <2>3
<1>4. Writing
  <2>1. ASSUME NEW w \in Writers
        PROVE  /\ tx[w].success \in BOOLEAN /\ tx[w].addedResults = {} /\ tx[w].deletedResults = {}
               /\ tx[w].addedEvents = {} /\ tx[w].deletedEvents = {}
    <3>1. /\ NoTx.success = FALSE /\ NoTx.addedResults = {} /\ NoTx.deletedResults = {}
          /\ NoTx.addedEvents = {} /\ NoTx.deletedEvents = {}
      BY DEF NoTx
    <3>2. tx[w] = NoTx
      BY <1>1
    <3> HIDE DEF NoTx
    <3> QED
      BY <3>1, <3>2
  <2> QED
    BY <1>2, <2>1 DEF Writing, Pending
<1>5. OwnIds
  BY <1>1, <1>2 DEF OwnIds, NoTx
<1>6. Kept
  BY <1>1, <1>2 DEF Kept, KeptByTx
<1> QED
  BY <1>3, <1>4, <1>5, <1>6 DEF RowInv

\* What holds of the rows between any two statements: identifiers are not given
\* out twice, what is not committed is of its own transaction alone, and what was
\* or is about to be deleted has been replaced (sql.go, Insert).
THEOREM RowsAreConsistent == Spec => [](CacheInv /\ RowInv)
<1>1. Init => RowInv
  BY InitRows
<1>2. CacheInv /\ RowInv /\ [Next]_vars => RowInv'
  BY NextRows
<1> QED
  BY <1>1, <1>2, CacheInvHolds, PTL DEF Spec

LEMMA AcceptedRows ==
  ASSUME RowTypes
  PROVE  /\ Len(log) \in Nat /\ accepted \in SUBSET Nat /\ IsFiniteSet(accepted)
         /\ results \in SUBSET Nat /\ IsFiniteSet(results)
<1>1. Len(log) \in Nat /\ accepted \subseteq 1..Len(log) /\ results \subseteq 1..Len(log)
  BY DEF RowTypes
<1> QED
  BY <1>1, NewestFinite

LEMMA ReplacedIsNotNew ==
  ASSUME RowTypes, NEW x, Replaced(x, accepted)
  PROVE  ~(Cardinality({y \in accepted : y > x}) < MaxResults)
<1>1. {y \in accepted : y > x} \in SUBSET accepted /\ IsFiniteSet(accepted)
  BY AcceptedRows
<1>2. Cardinality({y \in accepted : y > x}) \in Nat
  BY <1>1, SmallerSubset
<1> QED
  BY <1>2, StoreAssumption DEF Replaced

\* The newest results that Insert accepted, as many as are to be kept, are in the
\* database, whatever the clean-ups of transactions that do not see each other's
\* rows delete (sql.go, Insert and deleteOldEndpointResults): what is deleted was
\* replaced by newer results, and when it was replaced by results that are only
\* committed together with its deletion, both are or neither is.
THEOREM NewestResultsAreKept == Spec => []NewestAreKept
<1>1. RowInv => NewestAreKept
  <2> SUFFICES ASSUME RowInv PROVE NewestAreKept
    OBVIOUS
  <2>1. RowTypes /\ Kept /\ MaxResults \in Nat
    BY StoreAssumption DEF RowInv
  <2>2. accepted \in SUBSET Nat /\ IsFiniteSet(accepted)
    BY <2>1, AcceptedRows
  <2>3. NewestRows(ById(accepted), MaxResults)
          = {x \in accepted : Cardinality({y \in accepted : y > x}) < MaxResults}
    BY <2>1, <2>2, NewestResults
  <2>4. ASSUME NEW x \in accepted, Cardinality({y \in accepted : y > x}) < MaxResults PROVE x \in results
    BY <2>1, <2>4, ReplacedIsNotNew DEF Kept
  <2>5. NewestRows(ById(accepted), MaxResults) \subseteq results
    BY <2>3, <2>4
  <2> QED
    BY <2>5 DEF NewestAreKept, NewestRows
<1> QED
  BY <1>1, RowsAreConsistent, PTL

-----------------------------------------------------------------------------
(* The tables stay bounded *)

\* The rows there are when the transactions of the writers in Q have committed.
ResultsAfter(Q) == (results \ UNION {tx[q].deletedResults : q \in Q})
                     \union UNION {tx[q].addedResults : q \in Q}
EventRowsAfter(Q) == (events \ UNION {tx[q].deletedEvents : q \in Q})
                    \union UNION {tx[q].addedEvents : q \in Q}

\* Statements that failed, and writers that do not see each other's rows.
Unseen == faults + (IF gap THEN Cardinality(Writers) - 1 ELSE 0)

KeptEvents == IF MaxEvents < 2 THEN 2 ELSE MaxEvents

\* Whichever transactions commit, there are not too many rows.
Counts ==
  \A Q \in SUBSET Writers :
    /\ Cardinality(ResultsAfter(Q)) <= MaxResults + CleanUpThreshold + Unseen
    /\ Cardinality(EventRowsAfter(Q)) <= KeptEvents + 1 + CleanUpThreshold + 2 * Unseen

InMemory ==
  /\ memory.results \in Seq(accepted) /\ Len(memory.results) <= MaxResults
  /\ memory.events \in Seq(EventTypes) /\ Len(memory.events) <= KeptEvents
  /\ memory.results = <<>> => Len(memory.events) = 1

LEMMA FewWriters ==
  /\ IsFiniteSet(Writers) /\ Cardinality(Writers) \in Nat
  /\ Writers # {} => Cardinality(Writers) >= 1
  /\ \A Q \in SUBSET Writers : IsFiniteSet(Q) /\ Cardinality(Q) \in Nat
  /\ \A Q \in SUBSET Writers : \A w \in Writers \ Q : Cardinality(Q) <= Cardinality(Writers) - 1
<1>1. IsFiniteSet(Writers)
  <2>1. IsFiniteSet(Procs) /\ Writers \in SUBSET Procs
    BY SQLAssumption DEF Procs
  <2> QED
    BY <2>1, SmallerSubset
<1>2. Cardinality(Writers) \in Nat /\ (Cardinality(Writers) = 0 <=> Writers = {})
  BY <1>1, FS_CardinalityType, FS_EmptySet
<1>3. \A Q \in SUBSET Writers :
        /\ IsFiniteSet(Q) /\ Cardinality(Q) \in Nat
        /\ Q # Writers => Cardinality(Q) < Cardinality(Writers)
  BY <1>1, SmallerSubset
<1> QED
  BY <1>1, <1>2, <1>3

LEMMA EventRowsFinite ==
  ASSUME NEW n \in Nat
  PROVE  IsFiniteSet((1..n) \X EventTypes)
<1>1. IsFiniteSet(1..n)
  BY FS_Interval
<1>2. EventTypes = ({"START"} \union {"HEALTHY"}) \union {"UNHEALTHY"}
  BY DEF EventTypes
<1>3. IsFiniteSet(EventTypes)
  BY <1>2, FS_Singleton, FS_Union
<1> QED
  BY <1>1, <1>3, FS_Product

LEMMA RowsAreFinite ==
  ASSUME RowTypes, Writing, NEW Q \in SUBSET Writers
  PROVE  /\ IsFiniteSet(ResultsAfter(Q)) /\ Cardinality(ResultsAfter(Q)) \in Nat
         /\ IsFiniteSet(EventRowsAfter(Q)) /\ Cardinality(EventRowsAfter(Q)) \in Nat
<1>1. Len(log) \in Nat /\ eventIds \in Nat
  BY DEF RowTypes
<1>2. ASSUME NEW q \in Q PROVE tx[q].addedResults \subseteq 1..Len(log)
                               /\ tx[q].addedEvents \subseteq (1..eventIds) \X EventTypes
  <2>1. Pending(q)
    BY DEF Writing
  <2>2. tx[q].addedResults \subseteq 1..Len(log)
    BY <2>1 DEF Pending
  <2>3. tx[q].addedEvents \subseteq (1..eventIds) \X EventTypes
    BY <2>1 DEF Pending
  <2> QED
    BY <2>2, <2>3
<1>3. ResultsAfter(Q) \subseteq 1..Len(log) /\ EventRowsAfter(Q) \subseteq (1..eventIds) \X EventTypes
  BY <1>2 DEF RowTypes, ResultsAfter, EventRowsAfter
<1>4. IsFiniteSet((1..eventIds) \X EventTypes)
  BY <1>1, EventRowsFinite
<1>5. IsFiniteSet(ResultsAfter(Q))
  BY <1>1, <1>3, NewestFinite
<1>6. IsFiniteSet(EventRowsAfter(Q))
  BY <1>3, <1>4, FS_Subset
<1> QED
  BY <1>5, <1>6, FS_CardinalityType

\* The newest n rows are at most n.
LEMMA NewestAreFew ==
  ASSUME NEW S, NEW key, Keyed(S, key), NEW n \in Nat
  PROVE  LET T == NewestRows(InOrder(S, key), n) IN
         IsFiniteSet(T) /\ Cardinality(T) \in Nat /\ Cardinality(T) <= n
<1> DEFINE s == InOrder(S, key)
           t == Newest(s, n)
           T == NewestRows(s, n)
<1>1. s \in Seq(S)
  BY InOrderLists
<1> HIDE DEF s
<1>2. t \in Seq(S) /\ Len(t) = IF Len(s) > n THEN n ELSE Len(s)
  BY <1>1, NewestIsTail
<1>3. Len(t) \in Nat /\ Len(t) <= n
  BY <1>1, <1>2
<1>4. T = {t[i] : i \in 1..Len(t)}
  <2> HIDE DEF t
  <2>1. T = ToSet(t)
    BY DEF t, NewestRows
  <2> QED
    BY <1>2, <2>1 DEF ToSet
<1> HIDE DEF t, T
<1>5. IsFiniteSet(1..Len(t)) /\ Cardinality(1..Len(t)) = Len(t)
  <2> DEFINE k == Len(t)
  <2>1. k \in Nat
    BY <1>3
  <2> HIDE DEF k
  <2>2. IsFiniteSet(1..k) /\ Cardinality(1..k) = IF 1 > k THEN 0 ELSE k - 1 + 1
    BY <2>1, FS_Interval
  <2>3. Cardinality(1..k) = k
    BY <2>1, <2>2
  <2> QED
    BY <2>2, <2>3 DEF k
<1>6. IsFiniteSet(T) /\ Cardinality(T) <= Cardinality(1..Len(t))
  BY <1>4, <1>5, ImageIsSmaller
<1>7. Cardinality(T) \in Nat
  BY <1>6, FS_CardinalityType
<1>8. Cardinality(T) <= n
  BY <1>3, <1>5, <1>6, <1>7
<1> QED
  BY <1>6, <1>7, <1>8 DEF T, s

LEMMA ListHasAll ==
  ASSUME NEW S, NEW key, Keyed(S, key)
  PROVE  S \subseteq ToSet(InOrder(S, key))
<1> DEFINE s == InOrder(S, key)
           N == Cardinality(S)
           after(x) == Cardinality(After(S, key, x))
<1>1. /\ N \in Nat /\ Len(s) = N /\ s \in Seq(S)
      /\ \A x \in S : after(x) \in 0..(N - 1) /\ s[N - after(x)] = x
  BY InOrderLists
<1> HIDE DEF s, N, after
<1>2. ASSUME NEW x \in S PROVE \E i \in 1..Len(s) : s[i] = x
  <2>1. after(x) \in 0..(N - 1) /\ s[N - after(x)] = x
    BY <1>1
  <2>2. N - after(x) \in 1..Len(s)
    BY <1>1, <2>1
  <2> QED
    BY <2>1, <2>2
<1>3. S \subseteq ToSet(s)
  BY <1>2 DEF ToSet
<1> QED
  BY <1>3 DEF s

\* What a clean-up leaves.
LEMMA CleanedUp ==
  ASSUME NEW S, NEW key, Keyed(S, key), NEW n \in Nat,
         NEW T, T = S \ (ToSet(InOrder(S, key)) \ NewestRows(InOrder(S, key), n))
  PROVE  IsFiniteSet(T) /\ Cardinality(T) \in Nat /\ Cardinality(T) <= n
<1> DEFINE new == NewestRows(InOrder(S, key), n)
<1>1. IsFiniteSet(new) /\ Cardinality(new) \in Nat /\ Cardinality(new) <= n
  BY NewestAreFew
<1>2. T \in SUBSET new
  BY ListHasAll
<1> HIDE DEF new
<1>3. Cardinality(T) \in Nat /\ IsFiniteSet(T) /\ Cardinality(T) <= Cardinality(new)
  BY <1>1, <1>2, SmallerSubset
<1> QED
  BY <1>1, <1>3

\* The bounds never sink.
LEMMA Rises ==
  ASSUME NEW N \in Nat, NEW F \in Nat, NEW G \in Nat, G >= F, NEW U, NEW V,
         \/ U = F /\ V = G
         \/ U = F + (N - 1) /\ V = G + (N - 1)
         \/ U = F /\ V = G + (N - 1) /\ N >= 1
  PROVE  /\ U \in Int /\ V \in Int /\ V >= U
         /\ G = F + 1 => V >= U + 1
         /\ N >= 1 => V >= 0
         /\ V = G + (N - 1) => V >= N - 1
  OBVIOUS

LEMMA BoundsRise ==
  ASSUME RowTypes, Counters
  PROVE  /\ Unseen \in Int /\ Unseen' \in Int /\ Unseen' >= Unseen
         /\ faults' = faults + 1 => Unseen' >= Unseen + 1
         /\ Writers # {} => Unseen' >= 0
         /\ gap' => Unseen' >= Cardinality(Writers) - 1
<1> DEFINE N == Cardinality(Writers)
           V == Unseen'
<1>0. PICK G \in Nat : faults' = G
  BY DEF Counters
<1>1. N \in Nat /\ (Writers # {} => N >= 1)
  BY FewWriters
<1>2. gap \in BOOLEAN /\ faults \in Nat /\ G >= faults
  BY <1>0 DEF RowTypes, Counters
<1>3. (gap => Unseen = faults + (N - 1)) /\ (~gap => Unseen = faults)
  BY <1>1, <1>2 DEF Unseen
<1>4. (gap' => V = G + (N - 1)) /\ (~gap' => V = G)
  BY <1>0, <1>1, <1>2 DEF Unseen
<1>5. (gap => gap') /\ (gap' => gap \/ N >= 1)
  BY <1>1 DEF Counters
<1> HIDE DEF N, V
<1>6. \/ Unseen = faults /\ V = G
      \/ Unseen = faults + (N - 1) /\ V = G + (N - 1)
      \/ Unseen = faults /\ V = G + (N - 1) /\ N >= 1
  BY <1>3, <1>4, <1>5
<1>7. /\ Unseen \in Int /\ V \in Int /\ V >= Unseen
      /\ G = faults + 1 => V >= Unseen + 1
      /\ N >= 1 => V >= 0
      /\ V = G + (N - 1) => V >= N - 1
  BY <1>1, <1>2, <1>6, Rises
<1> QED
  BY <1>0, <1>1, <1>4, <1>7 DEF N, V

LEMMA Limits ==
  /\ MaxResults \in Nat /\ MaxResults >= 1 /\ CleanUpThreshold \in Nat
  /\ MaxEvents \in Nat /\ KeptEvents \in Nat /\ KeptEvents >= 2 /\ KeptEvents >= MaxEvents
<1>1. MaxResults \in Nat /\ MaxResults >= 1 /\ MaxEvents \in Nat /\ MaxEvents >= 1
  BY StoreAssumption
<1>2. CleanUpThreshold \in Nat
  BY SQLAssumption
<1>3. KeptEvents \in Nat /\ KeptEvents >= 2 /\ KeptEvents >= MaxEvents
  BY <1>1 DEF KeptEvents
<1> QED
  BY <1>1, <1>2, <1>3

LEMMA EmptyUnless ==
  ASSUME OneWriter, gap \in BOOLEAN, Writing, NEW w \in Writers, step[w] # "idle", ~gap,
         NEW q \in Writers, q # w
  PROVE  /\ ~Late(q) /\ ~Told(q)
         /\ tx[q].addedResults = {} /\ tx[q].deletedResults = {}
         /\ tx[q].addedEvents = {} /\ tx[q].deletedEvents = {}
<1>1. step[q] = "idle"
  BY DEF OneWriter
<1>2. ~Late(q) /\ ~Told(q) /\ Pending(q)
  BY <1>1 DEF Late, Told, Writing
<1> QED
  BY <1>2 DEF Pending

\* Results: no more than before, one more after a fault, or those that a
\* transaction sees and those that it does not see.
LEMMA KeepsResults ==
  ASSUME RowTypes, Writing, Counts, Counters, NEW Q \in SUBSET Writers,
         NEW S \in SUBSET ResultsAfter(Q)
  PROVE  Cardinality(S) <= MaxResults + CleanUpThreshold + Unseen'
<1> DEFINE A == ResultsAfter(Q)
           V == Unseen'
<1>1. IsFiniteSet(A) /\ Cardinality(A) <= MaxResults + CleanUpThreshold + Unseen
  BY RowsAreFinite DEF Counts
<1>2. Unseen \in Int /\ V \in Int /\ V >= Unseen
  BY BoundsRise
<1> HIDE DEF A, V
<1>3. Cardinality(S) \in Nat /\ Cardinality(A) \in Nat /\ Cardinality(S) <= Cardinality(A)
  BY <1>1, SmallerSubset DEF A
<1>4. Cardinality(S) <= MaxResults + CleanUpThreshold + V
  BY <1>1, <1>2, <1>3, Limits
<1> QED
  BY <1>4 DEF V

LEMMA OneMoreResult ==
  ASSUME RowTypes, Writing, Counts, Counters, faults' = faults + 1,
         NEW Q \in SUBSET Writers, NEW x, NEW S \in SUBSET (ResultsAfter(Q) \union {x})
  PROVE  Cardinality(S) <= MaxResults + CleanUpThreshold + Unseen'
<1> DEFINE A == ResultsAfter(Q)
           B == A \union {x}
           V == Unseen'
<1>1. IsFiniteSet(A) /\ Cardinality(A) <= MaxResults + CleanUpThreshold + Unseen
  BY RowsAreFinite DEF Counts
<1>2. Unseen \in Int /\ V \in Int /\ V >= Unseen + 1
  BY BoundsRise
<1>3. IsFiniteSet({x}) /\ Cardinality({x}) = 1
  BY FS_Singleton
<1> HIDE DEF A, V
<1>4. IsFiniteSet(B) /\ Cardinality(B) \in Nat /\ Cardinality(A) \in Nat
      /\ Cardinality(B) <= Cardinality(A) + 1
  BY <1>1, <1>3, UnionOfTwo, FS_CardinalityType
<1>5. S \in SUBSET B
  BY DEF A
<1> HIDE DEF B
<1>6. Cardinality(S) \in Nat /\ Cardinality(S) <= Cardinality(B)
  BY <1>4, <1>5, SmallerSubset
<1>7. Cardinality(S) <= MaxResults + CleanUpThreshold + V
  BY <1>1, <1>2, <1>4, <1>6, Limits
<1> QED
  BY <1>7 DEF V

LEMMA SeenAndUnseen ==
  ASSUME NEW N \in Nat, NEW k \in Nat, NEW bound \in Nat, NEW V \in Int, NEW g \in BOOLEAN,
         NEW own, IsFiniteSet(own), Cardinality(own) <= bound,
         NEW U, IsFiniteSet(U), g \/ U = {}, g => V >= N - 1, V >= 0, N >= 1,
         Cardinality(U) <= k * (N - 1),
         NEW S \in SUBSET (own \union U)
  PROVE  Cardinality(S) <= bound + k * V
<1>1. /\ Cardinality(own) \in Nat /\ Cardinality(U) \in Nat
      /\ IsFiniteSet(own \union U) /\ Cardinality(own \union U) \in Nat
      /\ Cardinality(own \union U) <= Cardinality(own) + Cardinality(U)
  BY UnionOfTwo, FS_CardinalityType
<1>2. Cardinality(S) \in Nat /\ Cardinality(S) <= Cardinality(own \union U)
  BY <1>1, SmallerSubset
<1>3. Cardinality(U) <= k * V
  <2>1. CASE g
    <3>1. N - 1 <= V /\ N - 1 \in Nat
      BY <2>1
    <3>2. k * (N - 1) <= k * V /\ k * (N - 1) \in Int /\ k * V \in Int
      BY <3>1
    <3> QED
      BY <1>1, <3>2
  <2>2. CASE ~g
    <3>1. Cardinality(U) = 0
      BY <2>2, FS_EmptySet
    <3>2. k * V >= 0
      OBVIOUS
    <3> QED
      BY <3>1, <3>2
  <2> QED
    BY <2>1, <2>2
<1>4. k * V \in Int
  OBVIOUS
<1> HIDE DEF IsFiniteSet
<1> QED
  BY <1>1, <1>2, <1>3, <1>4

\* What the transactions of the others in Q add, which w does not see.
OtherResults(Q, w) == UNION {tx[q].addedResults : q \in Q \ {w}}
OtherEvents(Q, w) == UNION {tx[q].addedEvents : q \in Q \ {w}}

LEMMA OthersAreFew ==
  ASSUME RowTypes, Writing, OneWriter, NEW w \in Writers, step[w] # "idle", NEW Q \in SUBSET Writers
  PROVE  /\ IsFiniteSet(OtherResults(Q, w)) /\ (gap \/ OtherResults(Q, w) = {})
         /\ Cardinality(OtherResults(Q, w)) <= Cardinality(Writers) - 1
         /\ IsFiniteSet(OtherEvents(Q, w)) /\ (gap \/ OtherEvents(Q, w) = {})
         /\ Cardinality(OtherEvents(Q, w)) <= 2 * (Cardinality(Writers) - 1)
         /\ Cardinality(Writers) \in Nat /\ Cardinality(Writers) >= 1
<1> DEFINE O == Q \ {w}
           F == [q \in O |-> tx[q].addedResults]
           G == [q \in O |-> tx[q].addedEvents]
<1>1. O \in SUBSET Writers /\ w \in Writers \ O
  OBVIOUS
<1>2. /\ IsFiniteSet(O) /\ Cardinality(O) \in Nat /\ Cardinality(O) <= Cardinality(Writers) - 1
      /\ Cardinality(Writers) \in Nat /\ Cardinality(Writers) >= 1
  <2> HIDE DEF O
  <2> QED
    BY <1>1, FewWriters
<1>3. ASSUME NEW q \in O PROVE (\E e : F[q] \subseteq {e}) /\ (\E e, f : G[q] \subseteq {e, f})
  <2>1. Pending(q) /\ F[q] = tx[q].addedResults /\ G[q] = tx[q].addedEvents
    BY <1>1 DEF Writing
  <2> HIDE DEF F, G
  <2>2. \E e : F[q] \subseteq {e}
    BY <2>1 DEF Pending
  <2>3. \E e, f : G[q] \subseteq {e, f}
    BY <2>1 DEF Pending
  <2> QED
    BY <2>2, <2>3
<1>4. /\ OtherResults(Q, w) = UNION {F[q] : q \in O}
      /\ OtherEvents(Q, w) = UNION {G[q] : q \in O}
  BY DEF OtherResults, OtherEvents
<1>5. ~gap => OtherResults(Q, w) = {} /\ OtherEvents(Q, w) = {}
  <2>1. ASSUME ~gap, NEW q \in Q \ {w} PROVE tx[q].addedResults = {} /\ tx[q].addedEvents = {}
    BY <2>1, EmptyUnless DEF RowTypes
  <2> QED
    BY <2>1 DEF OtherResults, OtherEvents
<1>6. gap \in BOOLEAN
  BY DEF RowTypes
<1> HIDE DEF F, G, O
<1>7. /\ IsFiniteSet(OtherResults(Q, w)) /\ Cardinality(OtherResults(Q, w)) \in Nat
      /\ Cardinality(OtherResults(Q, w)) <= Cardinality(O)
  <2>1. \A q \in O : \E e : F[q] \subseteq {e}
    BY <1>3
  <2> QED
    <3> DEFINE U == UNION {F[q] : q \in O}
    <3>1. IsFiniteSet(U) /\ Cardinality(U) \in Nat /\ Cardinality(U) <= Cardinality(O)
      BY <1>2, <2>1, UnionOfSingles
    <3>2. OtherResults(Q, w) = U
      BY <1>4
    <3> HIDE DEF U
    <3> QED
      BY <3>1, <3>2
<1>8. /\ IsFiniteSet(OtherEvents(Q, w)) /\ Cardinality(OtherEvents(Q, w)) \in Nat
      /\ Cardinality(OtherEvents(Q, w)) <= 2 * Cardinality(O)
  <2>1. \A q \in O : \E e, f : G[q] \subseteq {e, f}
    BY <1>3
  <2> QED
    <3> DEFINE U == UNION {G[q] : q \in O}
    <3>1. IsFiniteSet(U) /\ Cardinality(U) \in Nat /\ Cardinality(U) <= 2 * Cardinality(O)
      BY <1>2, <2>1, UnionOfPairs
    <3>2. OtherEvents(Q, w) = U
      BY <1>4
    <3> HIDE DEF U
    <3> QED
      BY <3>1, <3>2
<1>9. /\ Cardinality(OtherResults(Q, w)) <= Cardinality(Writers) - 1
      /\ Cardinality(OtherEvents(Q, w)) <= 2 * (Cardinality(Writers) - 1)
  BY <1>2, <1>7, <1>8
<1> QED
  BY <1>2, <1>5, <1>6, <1>7, <1>8, <1>9

LEMMA OwnResults ==
  ASSUME RowTypes, Writing, OneWriter, Counters, NEW w \in Writers, step[w] # "idle",
         NEW Q \in SUBSET Writers, NEW own, IsFiniteSet(own),
         Cardinality(own) <= MaxResults + CleanUpThreshold,
         NEW S \in SUBSET (own \union OtherResults(Q, w))
  PROVE  Cardinality(S) <= MaxResults + CleanUpThreshold + Unseen'
<1> DEFINE N == Cardinality(Writers)
           U == OtherResults(Q, w)
           V == Unseen'
<1>1. /\ IsFiniteSet(U) /\ (gap \/ U = {}) /\ Cardinality(U) <= N - 1 /\ N \in Nat /\ N >= 1
  BY OthersAreFew
<1>2. V \in Int /\ V >= 0 /\ (gap' => V >= N - 1) /\ gap' \in BOOLEAN /\ (gap => gap')
  BY BoundsRise DEF Counters
<1>3. S \in SUBSET (own \union U)
  OBVIOUS
<1> HIDE DEF N, U, V
<1>4. /\ MaxResults + CleanUpThreshold \in Nat /\ 1 \in Nat
      /\ Cardinality(own) <= MaxResults + CleanUpThreshold
      /\ Cardinality(U) <= 1 * (N - 1) /\ (gap' \/ U = {})
  BY <1>1, <1>2, Limits
<1>5. Cardinality(S) <= MaxResults + CleanUpThreshold + 1 * V
  BY <1>1, <1>2, <1>3, <1>4, SeenAndUnseen
<1>6. 1 * V = V
  BY <1>2
<1> QED
  BY <1>5, <1>6 DEF V

LEMMA OwnEvents ==
  ASSUME RowTypes, Writing, OneWriter, Counters, NEW w \in Writers, step[w] # "idle",
         NEW Q \in SUBSET Writers, NEW own, IsFiniteSet(own),
         Cardinality(own) <= KeptEvents + 1 + CleanUpThreshold,
         NEW S \in SUBSET (own \union OtherEvents(Q, w))
  PROVE  Cardinality(S) <= KeptEvents + 1 + CleanUpThreshold + 2 * Unseen'
<1> DEFINE N == Cardinality(Writers)
           U == OtherEvents(Q, w)
           V == Unseen'
<1>1. /\ IsFiniteSet(U) /\ (gap \/ U = {}) /\ Cardinality(U) <= 2 * (N - 1) /\ N \in Nat /\ N >= 1
  BY OthersAreFew
<1>2. V \in Int /\ V >= 0 /\ (gap' => V >= N - 1) /\ gap' \in BOOLEAN /\ (gap => gap')
  BY BoundsRise DEF Counters
<1>3. S \in SUBSET (own \union U)
  OBVIOUS
<1> HIDE DEF N, U, V
<1>4. /\ KeptEvents + 1 + CleanUpThreshold \in Nat /\ 2 \in Nat /\ (gap' \/ U = {})
  BY <1>1, <1>2, Limits
<1>5. Cardinality(S) <= KeptEvents + 1 + CleanUpThreshold + 2 * V
  BY <1>1, <1>2, <1>3, <1>4, SeenAndUnseen
<1> QED
  BY <1>5 DEF V

\* Events: no more than before, or two more after a fault.
LEMMA KeepsEvents ==
  ASSUME RowTypes, Writing, Counts, Counters, NEW Q \in SUBSET Writers,
         NEW S \in SUBSET EventRowsAfter(Q)
  PROVE  Cardinality(S) <= KeptEvents + 1 + CleanUpThreshold + 2 * Unseen'
<1> DEFINE A == EventRowsAfter(Q)
           V == Unseen'
<1>1. IsFiniteSet(A) /\ Cardinality(A) <= KeptEvents + 1 + CleanUpThreshold + 2 * Unseen
  BY RowsAreFinite DEF Counts
<1>2. Unseen \in Int /\ V \in Int /\ V >= Unseen
  BY BoundsRise
<1> HIDE DEF A, V
<1>3. Cardinality(S) \in Nat /\ Cardinality(A) \in Nat /\ Cardinality(S) <= Cardinality(A)
  BY <1>1, SmallerSubset DEF A
<1>4. Cardinality(S) <= KeptEvents + 1 + CleanUpThreshold + 2 * V
  BY <1>1, <1>2, <1>3, Limits
<1> QED
  BY <1>4 DEF V

LEMMA TwoMoreEvents ==
  ASSUME RowTypes, Writing, Counts, Counters, faults' = faults + 1,
         NEW Q \in SUBSET Writers, NEW T, \E e, f : T \subseteq {e, f},
         NEW S \in SUBSET (EventRowsAfter(Q) \union T)
  PROVE  Cardinality(S) <= KeptEvents + 1 + CleanUpThreshold + 2 * Unseen'
<1> DEFINE A == EventRowsAfter(Q)
           B == A \union T
           V == Unseen'
<1>1. IsFiniteSet(A) /\ Cardinality(A) <= KeptEvents + 1 + CleanUpThreshold + 2 * Unseen
  BY RowsAreFinite DEF Counts
<1>2. Unseen \in Int /\ V \in Int /\ V >= Unseen + 1
  BY BoundsRise
<1>3. IsFiniteSet(T) /\ Cardinality(T) \in Nat /\ Cardinality(T) <= 2
  <2>1. PICK e, f : T \subseteq {e} \union {f}
    OBVIOUS
  <2>2. IsFiniteSet({e}) /\ IsFiniteSet({f}) /\ Cardinality({e}) = 1 /\ Cardinality({f}) = 1
    BY FS_Singleton
  <2>3. IsFiniteSet({e} \union {f}) /\ Cardinality({e} \union {f}) <= 1 + 1
        /\ Cardinality({e} \union {f}) \in Nat
    BY <2>2, UnionOfTwo
  <2>4. IsFiniteSet(T) /\ Cardinality(T) \in Nat /\ Cardinality(T) <= Cardinality({e} \union {f})
    BY <2>1, <2>3, SmallerSubset
  <2> QED
    BY <2>3, <2>4
<1> HIDE DEF A, V
<1>4. IsFiniteSet(B) /\ Cardinality(B) \in Nat /\ Cardinality(A) \in Nat
      /\ Cardinality(B) <= Cardinality(A) + Cardinality(T)
  BY <1>1, <1>3, UnionOfTwo, FS_CardinalityType
<1>5. S \in SUBSET B
  BY DEF A
<1> HIDE DEF B
<1>6. Cardinality(S) \in Nat /\ Cardinality(S) <= Cardinality(B)
  BY <1>4, <1>5, SmallerSubset
<1>7. Cardinality(S) <= KeptEvents + 1 + CleanUpThreshold + 2 * V
  BY <1>1, <1>2, <1>3, <1>4, <1>6, Limits
<1> QED
  BY <1>7 DEF V

LEMMA NextResultCounts ==
  ASSUME CacheInv, RowInv, Counts, [Next]_vars, ~Deletes, NEW Q \in SUBSET Writers
  PROVE  Cardinality(ResultsAfter(Q)') <= MaxResults + CleanUpThreshold + Unseen'
<1>0. RowTypes /\ Writing /\ OneWriter
  BY DEF RowInv
<1>1. CASE Quiet
  <2> DEFINE P == {q \in Q : Unmoved(q)}
  <2>1. P \in SUBSET Writers
    OBVIOUS
  <2>2. /\ \A q \in P : tx'[q].addedResults = tx[q].addedResults
                        /\ tx'[q].deletedResults = tx[q].deletedResults
        /\ \A q \in Q \ P : tx'[q].addedResults = {} /\ tx'[q].deletedResults = {}
        /\ results' = results /\ Counters
    BY <1>1 DEF Quiet, Unmoved, Fresh
  <2> HIDE DEF P
  <2>3. P \subseteq Q
    BY DEF P
  <2>4. ResultsAfter(Q)' \in SUBSET ResultsAfter(P)
    BY <2>2, <2>3 DEF ResultsAfter
  <2> QED
    BY <1>0, <2>1, <2>2, <2>4, KeepsResults
<1>2. ASSUME NEW w \in Writers, NEW added, NEW deleted, AddsEvents(w, added, deleted)
      PROVE  Cardinality(ResultsAfter(Q)') <= MaxResults + CleanUpThreshold + Unseen'
  <2>1. /\ \A q \in Writers : tx'[q].addedResults = tx[q].addedResults
                              /\ tx'[q].deletedResults = tx[q].deletedResults
        /\ results' = results /\ Counters
    BY <1>2 DEF AddsEvents, Unmoved
  <2>2. ResultsAfter(Q)' \in SUBSET ResultsAfter(Q)
    BY <2>1 DEF ResultsAfter
  <2> QED
    BY <1>0, <2>1, <2>2, KeepsResults
<1>3. ASSUME NEW w \in Writers, NEW deleted, AddsResult(w, deleted)
      PROVE  Cardinality(ResultsAfter(Q)') <= MaxResults + CleanUpThreshold + Unseen'
  <2> DEFINE id == Len(log) + 1
  <2>1. /\ \A q \in Writers \ {w} : tx'[q].addedResults = tx[q].addedResults
                                    /\ tx'[q].deletedResults = tx[q].deletedResults
        /\ results' = results /\ Counters /\ step[w] = "result"
        /\ tx'[w].addedResults = {id} \ deleted
        /\ tx'[w].deletedResults = deleted \intersect results
        /\ \/ deleted = ResultsToDelete(w, id) /\ faults' = faults
           \/ deleted = {} /\ faults' = faults + 1
    BY <1>3 DEF AddsResult, Unmoved
  <2>2. Pending(w) /\ ~Late(w)
    BY <1>0, <2>1 DEF Writing, Late
  <2>3. tx[w].addedResults = {} /\ tx[w].deletedResults = {} /\ ResultsSeen(w) = results
    BY <2>2, ResultsSeenEarly DEF Pending
  <2>4. CASE w \notin Q
    <3>1. \A q \in Q : tx'[q].addedResults = tx[q].addedResults
                       /\ tx'[q].deletedResults = tx[q].deletedResults
      BY <2>1, <2>4
    <3>2. ResultsAfter(Q)' \in SUBSET ResultsAfter(Q)
      BY <2>1, <3>1 DEF ResultsAfter
    <3> QED
      BY <1>0, <2>1, <3>2, KeepsResults
  <2>5. CASE w \in Q /\ deleted = {} /\ faults' = faults + 1
    <3>1. /\ \A q \in Q : tx'[q].deletedResults = tx[q].deletedResults
          /\ \A q \in Q : tx'[q].addedResults \subseteq tx[q].addedResults \union {id}
      BY <2>1, <2>3, <2>5
    <3> HIDE DEF id
    <3>2. ResultsAfter(Q)' \in SUBSET (ResultsAfter(Q) \union {id})
      BY <2>1, <3>1 DEF ResultsAfter
    <3> QED
      BY <1>0, <2>1, <2>5, <3>2, OneMoreResult
  <2>6. CASE w \in Q /\ deleted = ResultsToDelete(w, id)
    <3> DEFINE all == results \union {id}
               own == all \ deleted
    <3>1. id \in Nat /\ results \in SUBSET Nat /\ IsFiniteSet(results)
      BY <1>0, AcceptedRows
    <3>2. ResultsAfter(Q)' \in SUBSET (own \union OtherResults(Q, w))
      <4>1. \A q \in Q \ {w} : tx'[q].addedResults = tx[q].addedResults
        BY <2>1
      <4>2. \A x \in ResultsAfter(Q)' :
              \/ x \in results /\ x \notin deleted
              \/ \E q \in Q : x \in tx'[q].addedResults
        <5>1. \A x \in ResultsAfter(Q)' :
                \/ x \in results' /\ x \notin tx'[w].deletedResults
                \/ \E q \in Q : x \in tx'[q].addedResults
          BY <2>6 DEF ResultsAfter
        <5> QED
          BY <2>1, <5>1
      <4>3. tx'[w].addedResults \subseteq own
        BY <2>1
      <4> HIDE DEF id
      <4> QED
        BY <4>1, <4>2, <4>3 DEF OtherResults
    <3> HIDE DEF id
    <3>3. /\ all \in SUBSET Nat /\ IsFiniteSet(all)
          /\ IsFiniteSet({id})
      BY <3>1, FS_Singleton, UnionOfTwo
    <3>4. Keyed(all, [y \in all |-> y])
      <4> HIDE DEF all
      <4> QED
        BY <3>3 DEF Keyed
    <3>5. Len(ById(all)) = Cardinality(all) /\ Cardinality(all) \in Nat
      <4> DEFINE key == [y \in all |-> y]
                 list == InOrder(all, key)
                 n == Cardinality(all)
      <4> HIDE DEF all, key
      <4>1. list \in Seq(all) /\ Len(list) = n /\ n \in Nat
        BY <3>4, InOrderLists DEF key
      <4>2. ById(all) = list
        BY DEF ById, key
      <4> HIDE DEF list, n
      <4> QED
        BY <4>1, <4>2 DEF n
    <3>6. deleted = IF TooMany(Len(ById(all)), MaxResults)
                    THEN ToSet(ById(all)) \ NewestRows(ById(all), MaxResults) ELSE {}
      BY <2>3, <2>6 DEF ResultsToDelete
    <3>7. IsFiniteSet(own) /\ Cardinality(own) \in Nat /\ Cardinality(own) <= MaxResults + CleanUpThreshold
      <4>1. CASE TooMany(Len(ById(all)), MaxResults)
        <5> DEFINE key == [y \in all |-> y]
        <5>1. own = all \ (ToSet(InOrder(all, key)) \ NewestRows(InOrder(all, key), MaxResults))
          BY <3>6, <4>1 DEF ById
        <5> HIDE DEF own, all
        <5>2. Keyed(all, key)
          BY <3>4
        <5> HIDE DEF key
        <5>3. IsFiniteSet(own) /\ Cardinality(own) \in Nat /\ Cardinality(own) <= MaxResults
          BY <5>1, <5>2, CleanedUp, Limits
        <5> QED
          BY <5>3, Limits
      <4>2. CASE ~TooMany(Len(ById(all)), MaxResults)
        <5>1. Cardinality(all) <= MaxResults + CleanUpThreshold
          <6> HIDE DEF all
          <6> QED
            BY <3>5, <4>2, Limits DEF TooMany
        <5>2. own \in SUBSET all
          OBVIOUS
        <5> HIDE DEF own, all
        <5>3. IsFiniteSet(own) /\ Cardinality(own) \in Nat /\ Cardinality(own) <= Cardinality(all)
          BY <3>3, <5>2, SmallerSubset
        <5> QED
          BY <3>5, <5>1, <5>3, Limits
      <4> QED
        BY <4>1, <4>2
    <3> HIDE DEF own
    <3>8. step[w] # "idle"
      BY <2>1
    <3> QED
      BY <1>0, <2>1, <3>2, <3>7, <3>8, OwnResults
  <2> QED
    BY <2>1, <2>4, <2>5, <2>6
<1>4. ASSUME NEW w \in Writers, Commits(w)
      PROVE  Cardinality(ResultsAfter(Q)') <= MaxResults + CleanUpThreshold + Unseen'
  <2> DEFINE P == Q \union {w}
  <2>1. /\ \A q \in Writers \ {w} : tx'[q].addedResults = tx[q].addedResults
                                    /\ tx'[q].deletedResults = tx[q].deletedResults
        /\ tx'[w].addedResults = {} /\ tx'[w].deletedResults = {}
        /\ results' = (results \ tx[w].deletedResults) \union tx[w].addedResults /\ Counters
    BY <1>4 DEF Commits, Unmoved, Fresh, ResultsSeen
  <2>2. ASSUME NEW x \in ResultsAfter(Q)' PROVE x \in ResultsAfter(P)
    <3>1. CASE x \in results' /\ \A q \in Q : x \notin tx'[q].deletedResults
      <4>1. CASE x \in tx[w].addedResults
        BY <4>1 DEF ResultsAfter
      <4>2. CASE x \in results /\ x \notin tx[w].deletedResults
        <5>1. \A q \in P : x \notin tx[q].deletedResults
          BY <2>1, <3>1, <4>2
        <5> HIDE DEF P
        <5> QED
          BY <4>2, <5>1 DEF ResultsAfter
      <4> QED
        BY <2>1, <3>1, <4>1, <4>2
    <3>2. CASE \E q \in Q : x \in tx'[q].addedResults
      <4>1. \E q \in P : x \in tx[q].addedResults
        BY <2>1, <3>2
      <4> HIDE DEF P
      <4> QED
        BY <4>1 DEF ResultsAfter
    <3> QED
      BY <2>2, <3>1, <3>2 DEF ResultsAfter
  <2>3. ResultsAfter(Q)' \in SUBSET ResultsAfter(P) /\ P \in SUBSET Writers
    BY <2>2
  <2> HIDE DEF P
  <2> QED
    BY <1>0, <2>1, <2>3, KeepsResults
<1> QED
  BY <1>0, <1>1, <1>2, <1>3, <1>4, StepKinds


LEMMA AtMostTwo ==
  ASSUME NEW e, NEW f, NEW T \in SUBSET {e, f}
  PROVE  IsFiniteSet(T) /\ Cardinality(T) \in Nat /\ Cardinality(T) <= 2
<1>1. {e, f} = {e} \union {f}
  OBVIOUS
<1>2. IsFiniteSet({e}) /\ IsFiniteSet({f}) /\ Cardinality({e}) = 1 /\ Cardinality({f}) = 1
  BY FS_Singleton
<1>3. IsFiniteSet({e} \union {f}) /\ Cardinality({e} \union {f}) <= 1 + 1
      /\ Cardinality({e} \union {f}) \in Nat
  BY <1>2, UnionOfTwo
<1>4. T \in SUBSET ({e} \union {f})
  BY <1>1
<1>5. IsFiniteSet(T) /\ Cardinality(T) \in Nat /\ Cardinality(T) <= Cardinality({e} \union {f})
  BY <1>3, <1>4, SmallerSubset
<1> QED
  BY <1>3, <1>5

\* Events that get identifiers of their own.
LEMMA NewRowsAreDistinct ==
  ASSUME RowTypes, OwnIds, NEW added, NEW last \in Nat,
         added \subseteq ((eventIds + 1)..last) \X EventTypes,
         \A e, f \in added : e[1] = f[1] => e = f
  PROVE  Distinct(events \union added)
<1>1. eventIds \in Nat /\ events \subseteq (1..eventIds) \X EventTypes
  BY DEF RowTypes
<1>2. \A e \in events : e \in Nat \X EventTypes /\ e[1] \in Nat /\ e[1] <= eventIds
  BY <1>1
<1>3. \A e \in added : e \in Nat \X EventTypes /\ e[1] \in Nat /\ e[1] > eventIds
  BY <1>1
<1>4. \A e \in events : \A f \in added : e[1] # f[1]
  BY <1>1, <1>2, <1>3
<1>5. \A e, f \in events : e[1] = f[1] => e = f
  BY DEF OwnIds
<1>6. \A e, f \in events \union added : e[1] = f[1] => e = f
  BY <1>4, <1>5
<1> QED
  BY <1>2, <1>3, <1>6 DEF Distinct

\* The events are only counted before the new ones are added.
LEMMA EventsLeft ==
  ASSUME RowTypes, OwnIds, NEW w, Pending(w), ~Told(w),
         NEW added, NEW last \in Nat, added \subseteq ((eventIds + 1)..last) \X EventTypes,
         \A e, f \in added : e[1] = f[1] => e = f,
         added \subseteq RowsOf(EventsToAdd(w)),
         NEW own, own = (events \union added) \ EventsToDelete(w, added)
  PROVE  IsFiniteSet(own) /\ Cardinality(own) <= KeptEvents + 1 + CleanUpThreshold
<1> DEFINE all == events \union added
           key == [x \in all |-> x[1]]
<1>1. EventsSeen(w) = events
  BY EventsSeenEarly
<1>2. IsFiniteSet(events) /\ Cardinality(events) \in Nat
  <2>1. {} \in SUBSET Writers /\ EventRowsAfter({}) = events
    BY DEF EventRowsAfter
  <2>2. eventIds \in Nat /\ events \subseteq (1..eventIds) \X EventTypes
    BY DEF RowTypes
  <2>3. IsFiniteSet((1..eventIds) \X EventTypes)
    BY <2>2, EventRowsFinite
  <2>4. IsFiniteSet(events)
    BY <2>2, <2>3, FS_Subset
  <2> QED
    BY <2>4, FS_CardinalityType
<1>3. PICK e, f : added \subseteq {e, f}
  <2>1. EventsToAdd(w) \in {<<>>, <<EventOf(tx[w].success)>>, <<"START", EventOf(tx[w].success)>>}
    BY EventsToAddIs
  <2>2. NewRows(RowsOf(EventsToAdd(w)), eventIds + Len(EventsToAdd(w)))
    BY <2>1, RowsAreNew
  <2> QED
    BY <2>2 DEF NewRows
<1>4. IsFiniteSet(added) /\ Cardinality(added) \in Nat /\ Cardinality(added) <= 2
  BY <1>3, AtMostTwo
<1>5. IsFiniteSet(all) /\ Cardinality(all) \in Nat
      /\ Cardinality(all) <= Cardinality(events) + Cardinality(added)
  BY <1>2, <1>4, UnionOfTwo
<1>6. own \in SUBSET all
  OBVIOUS
<1>7. IsFiniteSet(own) /\ Cardinality(own) \in Nat /\ Cardinality(own) <= Cardinality(all)
  <2> HIDE DEF all
  <2> QED
    BY <1>5, <1>6, SmallerSubset
<1>8. CASE TooMany(Cardinality(events), MaxEvents)
  <2>1. Keyed(all, key)
    <3>1. Distinct(all)
      BY NewRowsAreDistinct
    <3> HIDE DEF all
    <3> QED
      BY <1>5, <3>1, NewestEvents, Limits DEF key
  <2>2. own = all \ (ToSet(InOrder(all, key)) \ NewestRows(InOrder(all, key), MaxEvents))
    BY <1>1, <1>8 DEF EventsToDelete, EventsById
  <2> HIDE DEF all, key
  <2>3. Cardinality(own) <= MaxEvents
    BY <2>1, <2>2, CleanedUp, Limits
  <2> QED
    BY <1>7, <2>3, Limits
<1>9. CASE ~TooMany(Cardinality(events), MaxEvents)
  <2>1. Cardinality(events) <= MaxEvents + CleanUpThreshold
    BY <1>2, <1>9, Limits DEF TooMany
  <2>2. CASE events = {}
    <3>1. Cardinality(events) = 0
      BY <2>2, FS_EmptySet
    <3> HIDE DEF all
    <3> QED
      BY <1>2, <1>4, <1>5, <1>7, <3>1, Limits
  <2>3. CASE events # {}
    <3>1. \E t : EventsToAdd(w) \in {<<>>, <<t>>}
      BY <1>1, <2>3 DEF EventsToAdd
    <3>2. \E x : added \subseteq {x}
      <4>1. PICK t : EventsToAdd(w) \in {<<>>, <<t>>}
        BY <3>1
      <4>2. RowsOf(EventsToAdd(w)) \subseteq {<<eventIds + 1, t>>}
        BY <4>1 DEF RowsOf
      <4> QED
        BY <4>2
    <3>3. Cardinality(added) <= 1
      <4>1. PICK x : added \in SUBSET {x}
        BY <3>2
      <4>2. IsFiniteSet({x}) /\ Cardinality({x}) = 1
        BY FS_Singleton
      <4> QED
        BY <4>1, <4>2, SmallerSubset
    <3> HIDE DEF all
    <3> QED
      BY <1>2, <1>4, <1>5, <1>7, <2>1, <3>3, Limits
  <2> QED
    BY <2>2, <2>3
<1> QED
  BY <1>7, <1>8, <1>9

LEMMA NextEventCounts ==
  ASSUME CacheInv, RowInv, Counts, [Next]_vars, ~Deletes, NEW Q \in SUBSET Writers
  PROVE  Cardinality(EventRowsAfter(Q)') <= KeptEvents + 1 + CleanUpThreshold + 2 * Unseen'
<1>0. RowTypes /\ Writing /\ OneWriter /\ OwnIds
  BY DEF RowInv
<1>1. CASE Quiet
  <2> DEFINE P == {q \in Q : Unmoved(q)}
  <2>1. P \in SUBSET Writers
    OBVIOUS
  <2>2. /\ \A q \in P : tx'[q].addedEvents = tx[q].addedEvents
                        /\ tx'[q].deletedEvents = tx[q].deletedEvents
        /\ \A q \in Q \ P : tx'[q].addedEvents = {} /\ tx'[q].deletedEvents = {}
        /\ events' = events /\ Counters
    BY <1>1 DEF Quiet, Unmoved, Fresh
  <2> HIDE DEF P
  <2>3. P \subseteq Q
    BY DEF P
  <2>4. EventRowsAfter(Q)' \in SUBSET EventRowsAfter(P)
    BY <2>2, <2>3 DEF EventRowsAfter
  <2> QED
    BY <1>0, <2>1, <2>2, <2>4, KeepsEvents
<1>2. ASSUME NEW w \in Writers, NEW added, NEW deleted, AddsEvents(w, added, deleted)
      PROVE  Cardinality(EventRowsAfter(Q)') <= KeptEvents + 1 + CleanUpThreshold + 2 * Unseen'
  <2>1. /\ \A q \in Writers \ {w} : tx'[q].addedEvents = tx[q].addedEvents
                                    /\ tx'[q].deletedEvents = tx[q].deletedEvents
        /\ events' = events /\ Counters /\ step[w] = "events"
        /\ tx'[w].addedEvents = added \ deleted
        /\ tx'[w].deletedEvents = deleted \intersect events
        /\ \E e, f : added \subseteq {e, f}
        /\ \/ added \subseteq RowsOf(EventsToAdd(w)) /\ deleted = EventsToDelete(w, added)
           \/ deleted = {} /\ faults' = faults + 1
    BY <1>2 DEF AddsEvents, Unmoved
  <2>2. Pending(w) /\ ~Told(w)
    BY <1>0, <2>1 DEF Writing, Told
  <2>3. tx[w].addedEvents = {} /\ tx[w].deletedEvents = {}
    BY <2>2 DEF Pending
  <2>4. CASE w \notin Q
    <3>1. \A q \in Q : tx'[q].addedEvents = tx[q].addedEvents
                       /\ tx'[q].deletedEvents = tx[q].deletedEvents
      BY <2>1, <2>4
    <3>2. EventRowsAfter(Q)' \in SUBSET EventRowsAfter(Q)
      BY <2>1, <3>1 DEF EventRowsAfter
    <3> QED
      BY <1>0, <2>1, <3>2, KeepsEvents
  <2>5. CASE w \in Q /\ deleted = {} /\ faults' = faults + 1
    <3>1. /\ \A q \in Q : tx'[q].deletedEvents = tx[q].deletedEvents
          /\ \A q \in Q : tx'[q].addedEvents \subseteq tx[q].addedEvents \union added
      BY <2>1, <2>3, <2>5
    <3>2. EventRowsAfter(Q)' \in SUBSET (EventRowsAfter(Q) \union added)
      BY <2>1, <3>1 DEF EventRowsAfter
    <3> QED
      BY <1>0, <2>1, <2>5, <3>2, TwoMoreEvents
  <2>6. CASE w \in Q /\ added \subseteq RowsOf(EventsToAdd(w)) /\ deleted = EventsToDelete(w, added)
    <3> DEFINE own == (events \union added) \ deleted
    <3>1. EventRowsAfter(Q)' \in SUBSET (own \union OtherEvents(Q, w))
      <4>1. \A q \in Q \ {w} : tx'[q].addedEvents = tx[q].addedEvents
        BY <2>1
      <4>2. \A x \in EventRowsAfter(Q)' :
              \/ x \in events /\ x \notin deleted
              \/ \E q \in Q : x \in tx'[q].addedEvents
        <5>1. \A x \in EventRowsAfter(Q)' :
                \/ x \in events' /\ x \notin tx'[w].deletedEvents
                \/ \E q \in Q : x \in tx'[q].addedEvents
          BY <2>6 DEF EventRowsAfter
        <5> QED
          BY <2>1, <5>1
      <4>3. tx'[w].addedEvents \subseteq own
        BY <2>1
      <4> QED
        BY <4>1, <4>2, <4>3 DEF OtherEvents
    <3>2. IsFiniteSet(own) /\ Cardinality(own) <= KeptEvents + 1 + CleanUpThreshold
      <4>1. PICK last \in Nat : last = eventIds'
        BY <1>2 DEF AddsEvents
      <4>2. /\ added \subseteq ((eventIds + 1)..last) \X EventTypes
            /\ \A e, f \in added : e[1] = f[1] => e = f
        BY <1>2, <4>1 DEF AddsEvents
      <4>3. own = (events \union added) \ EventsToDelete(w, added)
        BY <2>6
      <4> HIDE DEF own
      <4> QED
        BY <1>0, <2>2, <2>6, <4>2, <4>3, EventsLeft
    <3>3. step[w] # "idle"
      BY <2>1
    <3> HIDE DEF own
    <3> QED
      BY <1>0, <2>1, <3>1, <3>2, <3>3, OwnEvents
  <2> QED
    BY <2>1, <2>4, <2>5, <2>6
<1>3. ASSUME NEW w \in Writers, NEW deleted, AddsResult(w, deleted)
      PROVE  Cardinality(EventRowsAfter(Q)') <= KeptEvents + 1 + CleanUpThreshold + 2 * Unseen'
  <2>1. /\ \A q \in Writers : tx'[q].addedEvents = tx[q].addedEvents
                              /\ tx'[q].deletedEvents = tx[q].deletedEvents
        /\ events' = events /\ Counters
    BY <1>3 DEF AddsResult, Unmoved
  <2>2. EventRowsAfter(Q)' \in SUBSET EventRowsAfter(Q)
    BY <2>1 DEF EventRowsAfter
  <2> QED
    BY <1>0, <2>1, <2>2, KeepsEvents
<1>4. ASSUME NEW w \in Writers, Commits(w)
      PROVE  Cardinality(EventRowsAfter(Q)') <= KeptEvents + 1 + CleanUpThreshold + 2 * Unseen'
  <2> DEFINE P == Q \union {w}
  <2>1. /\ \A q \in Writers \ {w} : tx'[q].addedEvents = tx[q].addedEvents
                                    /\ tx'[q].deletedEvents = tx[q].deletedEvents
        /\ tx'[w].addedEvents = {} /\ tx'[w].deletedEvents = {}
        /\ events' = (events \ tx[w].deletedEvents) \union tx[w].addedEvents /\ Counters
    BY <1>4 DEF Commits, Unmoved, Fresh, EventsSeen
  <2>2. ASSUME NEW x \in EventRowsAfter(Q)' PROVE x \in EventRowsAfter(P)
    <3>1. CASE x \in events' /\ \A q \in Q : x \notin tx'[q].deletedEvents
      <4>1. CASE x \in tx[w].addedEvents
        BY <4>1 DEF EventRowsAfter
      <4>2. CASE x \in events /\ x \notin tx[w].deletedEvents
        <5>1. \A q \in P : x \notin tx[q].deletedEvents
          BY <2>1, <3>1, <4>2
        <5> HIDE DEF P
        <5> QED
          BY <4>2, <5>1 DEF EventRowsAfter
      <4> QED
        BY <2>1, <3>1, <4>1, <4>2
    <3>2. CASE \E q \in Q : x \in tx'[q].addedEvents
      <4>1. \E q \in P : x \in tx[q].addedEvents
        BY <2>1, <3>2
      <4> HIDE DEF P
      <4> QED
        BY <4>1 DEF EventRowsAfter
    <3> QED
      BY <2>2, <3>1, <3>2 DEF EventRowsAfter
  <2>3. EventRowsAfter(Q)' \in SUBSET EventRowsAfter(P) /\ P \in SUBSET Writers
    BY <2>2
  <2> HIDE DEF P
  <2> QED
    BY <1>0, <2>1, <2>3, KeepsEvents
<1> QED
  BY <1>0, <1>1, <1>2, <1>3, <1>4, StepKinds

LEMMA NextCounts ==
  ASSUME CacheInv, RowInv, Counts, [Next]_vars
  PROVE  Counts'
<1>1. CASE ~Deletes
  BY <1>1, NextResultCounts, NextEventCounts DEF Counts
<1>2. CASE Deletes
  <2>1. ASSUME NEW Q \in SUBSET Writers PROVE ResultsAfter(Q)' = {} /\ EventRowsAfter(Q)' = {}
    BY <1>2 DEF Deletes, Fresh, ResultsAfter, EventRowsAfter
  <2>2. Unseen' = faults /\ faults \in Nat
    BY <1>2 DEF Deletes, Unseen, RowInv, RowTypes
  <2>3. Cardinality({}) = 0
    BY FS_EmptySet
  <2>4. 0 <= MaxResults + CleanUpThreshold + Unseen'
        /\ 0 <= KeptEvents + 1 + CleanUpThreshold + 2 * Unseen'
    BY <2>2, Limits
  <2> QED
    BY <2>1, <2>3, <2>4 DEF Counts
<1> QED
  BY <1>1, <1>2

LEMMA InitCounts == Init => Counts
<1> SUFFICES ASSUME Init PROVE Counts
  OBVIOUS
<1>1. /\ faults = 0 /\ gap = FALSE /\ results = {} /\ events = {}
      /\ \A w \in Writers : tx[w] = NoTx
  BY Parts DEF Init
<1>2. /\ NoTx.addedResults = {} /\ NoTx.deletedResults = {}
      /\ NoTx.addedEvents = {} /\ NoTx.deletedEvents = {}
  BY DEF NoTx
<1>3. ASSUME NEW Q \in SUBSET Writers PROVE ResultsAfter(Q) = {} /\ EventRowsAfter(Q) = {}
  BY <1>1, <1>2 DEF ResultsAfter, EventRowsAfter
<1>4. Unseen = 0
  BY <1>1 DEF Unseen
<1>5. Cardinality({}) = 0
  BY FS_EmptySet
<1>6. 0 <= MaxResults + CleanUpThreshold + Unseen
      /\ 0 <= KeptEvents + 1 + CleanUpThreshold + 2 * Unseen
  BY <1>4, Limits
<1> QED
  BY <1>3, <1>5, <1>6 DEF Counts

LEMMA NewestFits ==
  ASSUME NEW S, NEW s \in Seq(S), NEW n \in Nat, n >= 1, NEW x \in S
  PROVE  LET t == Newest(Append(s, x), n) IN
         t \in Seq(S) /\ Len(t) \in Nat /\ Len(t) >= 1 /\ Len(t) <= n
<1> DEFINE u == Append(s, x)
           t == Newest(u, n)
<1>1. u \in Seq(S) /\ Len(u) = Len(s) + 1 /\ Len(s) \in Nat
  OBVIOUS
<1> HIDE DEF u
<1>2. t \in Seq(S) /\ Len(t) = IF Len(u) > n THEN n ELSE Len(u)
  BY <1>1, NewestIsTail
<1> HIDE DEF t
<1>3. t \in Seq(S) /\ Len(t) \in Nat /\ Len(t) >= 1 /\ Len(t) <= n
  BY <1>1, <1>2
<1> QED
  BY <1>3 DEF t, u

LEMMA NextInMemory ==
  ASSUME CacheInv, RowInv, InMemory, [Next]_vars
  PROVE  InMemory'
<1>0. RowTypes /\ Writing
  BY DEF RowInv
<1>1. ASSUME UNCHANGED <<memory, accepted>> PROVE InMemory'
  BY <1>1 DEF InMemory
<1>2. ASSUME NEW w \in Writers, Commits(w) PROVE InMemory'
  <2> DEFINE id == tx[w].id
             old == memory.results
             s == log[id]
             s0 == IF old = <<>> THEN TRUE ELSE log[Last(old)]
  <2>1. memory' = AddResult(memory, id, s, s0) /\ accepted' = accepted \union {id}
    BY <1>2 DEF Commits
  <2>2. /\ memory'.results = Newest(Append(old, id), MaxResults)
        /\ memory'.events = EventsAfter(memory, s, s0)
    BY <2>1 DEF AddResult
  <2>3. old \in Seq(accepted') /\ id \in accepted'
    <3>1. old \in Seq(accepted) /\ accepted \subseteq accepted'
      BY <2>1 DEF InMemory
    <3> QED
      BY <2>1, <3>1
  <2>4. /\ memory.events \in Seq(EventTypes) /\ Len(memory.events) <= KeptEvents
        /\ memory.results = <<>> => Len(memory.events) = 1
    BY DEF InMemory
  <2>5. EventOf(s) \in EventTypes
    BY DEF EventOf, EventTypes
  <2> HIDE DEF id, old, s, s0
  <2>6. /\ memory'.results \in Seq(accepted') /\ Len(memory'.results) \in Nat
        /\ Len(memory'.results) >= 1 /\ Len(memory'.results) <= MaxResults
    <3> DEFINE t == Newest(Append(old, id), MaxResults)
    <3>1. t \in Seq(accepted') /\ Len(t) \in Nat /\ Len(t) >= 1 /\ Len(t) <= MaxResults
      BY <2>3, Limits, NewestFits
    <3> HIDE DEF t
    <3> QED
      BY <2>2, <3>1 DEF t
  <2>7. memory'.results # <<>>
    BY <2>6
  <2>8. memory'.events \in Seq(EventTypes) /\ Len(memory'.events) <= KeptEvents
    <3>1. CASE memory.results = <<>>
      <4>1. memory'.events = Append(memory.events, EventOf(s)) /\ Len(memory.events) = 1
        BY <2>2, <2>4, <3>1 DEF EventsAfter
      <4>2. memory'.events \in Seq(EventTypes) /\ Len(memory'.events) = 2
        BY <2>4, <2>5, <4>1
      <4> QED
        BY <4>2, Limits
    <3>2. CASE memory.results # <<>> /\ s0 = s
      BY <2>2, <2>4, <3>2 DEF EventsAfter
    <3>3. CASE memory.results # <<>> /\ s0 # s
      <4> DEFINE t == Newest(Append(memory.events, EventOf(s)), MaxEvents)
      <4>1. memory'.events = t
        BY <2>2, <3>3 DEF EventsAfter
      <4>2. t \in Seq(EventTypes) /\ Len(t) \in Nat /\ Len(t) <= MaxEvents
        <5>1. MaxEvents \in Nat /\ MaxEvents >= 1
          BY StoreAssumption
        <5> QED
          BY <2>4, <2>5, <5>1, NewestFits
      <4> HIDE DEF t
      <4> QED
        BY <4>1, <4>2, Limits
    <3> QED
      BY <3>1, <3>2, <3>3
  <2> QED
    BY <2>6, <2>7, <2>8 DEF InMemory
<1>3. CASE Deletes
  <2>1. memory'.results = <<>> /\ memory'.events = <<"START">> /\ accepted' = {}
    BY <1>3 DEF Deletes, NewStatus
  <2>2. "START" \in EventTypes
    BY DEF EventTypes
  <2>3. <<>> \in Seq(accepted') /\ Len(<<>>) = 0 /\ <<"START">> \in Seq(EventTypes) /\ Len(<<"START">>) = 1
    BY <2>2
  <2>4. 0 <= MaxResults /\ 1 <= KeptEvents
    BY Limits
  <2> QED
    BY <2>1, <2>3, <2>4 DEF InMemory
<1>4. ASSUME Quiet \/ (\E w, added, deleted : AddsEvents(w, added, deleted))
             \/ \E w, deleted : AddsResult(w, deleted)
      PROVE  InMemory'
  BY <1>1, <1>4 DEF Quiet, AddsEvents, AddsResult
<1> QED
  BY <1>0, <1>2, <1>3, <1>4, StepKinds

LEMMA InitInMemory == Init => InMemory
<1> SUFFICES ASSUME Init PROVE InMemory
  OBVIOUS
<1>1. memory.results = <<>> /\ memory.events = <<"START">> /\ "START" \in EventTypes
  BY DEF Init, NewStatus, EventTypes
<1>2. <<>> \in Seq(accepted) /\ Len(<<>>) = 0 /\ <<"START">> \in Seq(EventTypes) /\ Len(<<"START">>) = 1
  BY <1>1
<1>3. 0 <= MaxResults /\ 1 <= KeptEvents
  BY Limits
<1> QED
  BY <1>1, <1>2, <1>3 DEF InMemory

\* The tables and the status in memory stay bounded: whichever of the open
\* transactions commit, a table has at most as many rows as the configuration and
\* the threshold allow, one result or two events more for every statement that
\* failed, and those of the inserts that did not see each other (sql.go, Insert
\* and its clean-ups; memory/util.go, AddResult).
THEOREM TablesStayBounded == Spec => []Bounded
<1>1. Init => Counts /\ InMemory
  BY InitCounts, InitInMemory
<1>2. CacheInv /\ RowInv /\ Counts /\ InMemory /\ [Next]_vars => Counts' /\ InMemory'
  BY NextCounts, NextInMemory
<1>3. Counts /\ InMemory => Bounded
  <2> SUFFICES ASSUME Counts, InMemory PROVE Bounded
    OBVIOUS
  <2>1. {} \in SUBSET Writers /\ ResultsAfter({}) = results /\ EventRowsAfter({}) = events
    BY DEF ResultsAfter, EventRowsAfter
  <2>2. /\ Cardinality(results) <= MaxResults + CleanUpThreshold + Unseen
        /\ Cardinality(events) <= KeptEvents + 1 + CleanUpThreshold + 2 * Unseen
    BY <2>1 DEF Counts
  <2>3. Len(memory.results) <= MaxResults /\ Len(memory.events) <= KeptEvents
    BY DEF InMemory
  <2> QED
    BY <2>2, <2>3 DEF Bounded, Unseen, KeptEvents
<1> QED
  BY <1>1, <1>2, <1>3, RowsAreConsistent, PTL DEF Spec
-----------------------------------------------------------------------------
(* The events tell the story of the results *)

\* Of two events next to each other, one is not like the other.
Alternating(E) ==
  \A e, f \in E : e[1] < f[1] /\ (\A g \in E : ~(e[1] < g[1] /\ g[1] < f[1])) => e[2] # f[2]

EndsWith(E, success) == \E e \in E : e[2] = EventOf(success) /\ \A f \in E : f[1] <= e[1]

Tells(E, success) == Alternating(E) /\ EndsWith(E, success)

Newer(x, S) == \A y \in S : y <= x

Story ==
  /\ ~exists => events = {} /\ accepted = {}
  /\ exists => accepted # {}
  /\ exists /\ ~gap => \E x \in accepted : Newer(x, accepted) /\ Tells(events, log[x])
  /\ ~gap => \A w \in Writers :
       /\ Told(w) /\ ~tx[w].aborted => Tells(EventsSeen(w), tx[w].success)
       /\ Late(w) => tx[w].addedResults = {tx[w].id} /\ \A y \in accepted : y < tx[w].id

LEMMA EventOfDiffers ==
  ASSUME NEW s \in BOOLEAN, NEW t \in BOOLEAN, s # t
  PROVE  EventOf(s) # EventOf(t) /\ EventOf(s) # "START"
<1>1. EventOf(TRUE) = "HEALTHY" /\ EventOf(FALSE) = "UNHEALTHY"
  BY DEF EventOf
<1>2. "HEALTHY" # "UNHEALTHY" /\ "HEALTHY" # "START" /\ "UNHEALTHY" # "START"
  OBVIOUS
<1>3. (s = TRUE /\ t = FALSE) \/ (s = FALSE /\ t = TRUE)
  OBVIOUS
<1> QED
  BY <1>1, <1>2, <1>3

LEMMA FirstEventsTell ==
  ASSUME NEW n \in Nat, NEW success \in BOOLEAN
  PROVE  Tells({<<n + 1, "START">>, <<n + 2, EventOf(success)>>}, success)
<1> DEFINE a == <<n + 1, "START">>
           b == <<n + 2, EventOf(success)>>
<1>1. a[1] = n + 1 /\ a[2] = "START" /\ b[1] = n + 2 /\ b[2] = EventOf(success)
  OBVIOUS
<1>2. a[1] < b[1] /\ a[1] <= b[1] /\ b[1] <= b[1] /\ ~(b[1] < a[1]) /\ ~(a[1] < a[1]) /\ ~(b[1] < b[1])
  BY <1>1
<1>3. a[2] # b[2]
  <2>1. EventOf(success) # "START"
    BY EventOfDiffers
  <2> QED
    BY <1>1, <2>1
<1> HIDE DEF a, b
<1>4. Alternating({a, b})
  BY <1>2, <1>3 DEF Alternating
<1>5. EndsWith({a, b}, success)
  BY <1>1, <1>2 DEF EndsWith
<1>6. Tells({a, b}, success)
  BY <1>4, <1>5 DEF Tells
<1> QED
  BY <1>6 DEF a, b

\* A change adds the event that the last one is not.
LEMMA NextEventTells ==
  ASSUME NEW n \in Nat, NEW E, E \subseteq (1..n) \X EventTypes, Distinct(E),
         NEW before \in BOOLEAN, Tells(E, before), NEW success \in BOOLEAN, success # before
  PROVE  Tells(E \union {<<n + 1, EventOf(success)>>}, success)
<1> DEFINE b == <<n + 1, EventOf(success)>>
           F == E \union {b}
<1>1. \A e \in E : e[1] \in Nat /\ e[1] < n + 1 /\ e[1] <= n + 1 /\ ~(n + 1 < e[1])
  <2>1. \A e \in E : e[1] \in 1..n
    OBVIOUS
  <2> QED
    BY <2>1
<1>2. b[1] = n + 1 /\ b[2] = EventOf(success) /\ n + 1 <= n + 1 /\ ~(n + 1 < n + 1)
  OBVIOUS
<1>3. PICK last \in E : last[2] = EventOf(before) /\ \A f \in E : f[1] <= last[1]
  BY DEF Tells, EndsWith
<1> HIDE DEF b
<1>4. EndsWith(F, success)
  BY <1>1, <1>2 DEF EndsWith
<1>5. ASSUME NEW e \in F, NEW f \in F, e[1] < f[1], \A g \in F : ~(e[1] < g[1] /\ g[1] < f[1])
      PROVE  e[2] # f[2]
  <2>1. e \in E
    BY <1>1, <1>2, <1>5
  <2>2. CASE f \in E
    BY <1>5, <2>1, <2>2 DEF Tells, Alternating
  <2>3. CASE f = b
    <3>1. ~(e[1] < last[1])
      BY <1>1, <1>2, <1>3, <1>5, <2>3
    <3>2. e[1] = last[1]
      BY <1>1, <1>3, <2>1, <3>1
    <3>3. e = last
      BY <1>3, <2>1, <3>2 DEF Distinct
    <3> QED
      BY <1>2, <1>3, <2>3, <3>3, EventOfDiffers
  <2> QED
    BY <1>5, <2>2, <2>3
<1>6. Alternating(F)
  BY <1>5 DEF Alternating
<1>7. Tells(F, success)
  BY <1>4, <1>6 DEF Tells
<1> QED
  BY <1>7 DEF b

\* The clean-up leaves the end of the story.
LEMMA EndTells ==
  ASSUME NEW E, Distinct(E), IsFiniteSet(E), NEW success, Tells(E, success), NEW n \in Nat, n >= 1,
         NEW T, T = E \ (ToSet(EventsById(E)) \ NewestRows(EventsById(E), n))
  PROVE  Tells(T, success)
<1> DEFINE above(x) == {y \in E : y[1] > x[1]}
           all == EventsById(E)
           key == [x \in E |-> x[1]]
<1>1. /\ Keyed(E, key)
      /\ NewestRows(all, n) = {x \in E : Cardinality(above(x)) < n}
  BY NewestEvents
<1>2. E \subseteq ToSet(all)
  BY <1>1, ListHasAll DEF EventsById
<1> DEFINE new == NewestRows(all, n)
<1>3. \A x : x \in T <=> x \in E /\ Cardinality(above(x)) < n
  <2>1. \A x : x \in new <=> x \in E /\ Cardinality(above(x)) < n
    BY <1>1
  <2>2. E \subseteq ToSet(all) /\ T = E \ (ToSet(all) \ new)
    BY <1>2
  <2> HIDE DEF new, above, all
  <2> QED
    BY <2>1, <2>2
<1> HIDE DEF all, key, new
<1>4. \A e \in E : e[1] \in Nat
  BY DEF Distinct
<1>5. ASSUME NEW e \in T, NEW g \in E, e[1] < g[1] PROVE g \in T
  <2>1. above(g) \in SUBSET above(e) /\ above(e) \in SUBSET E
    BY <1>3, <1>4, <1>5
  <2>2. IsFiniteSet(above(e))
    BY <2>1, SmallerSubset
  <2>3. Cardinality(above(e)) < n
    BY <1>3
  <2> HIDE DEF above
  <2>4. Cardinality(above(g)) <= Cardinality(above(e)) /\ Cardinality(above(g)) \in Nat /\ Cardinality(above(e)) \in Nat
    BY <2>1, <2>2, SmallerSubset
  <2>5. Cardinality(above(g)) < n
    BY <2>3, <2>4
  <2> QED
    BY <1>3, <2>5
<1>6. Alternating(T)
  <2>1. ASSUME NEW e \in T, NEW f \in T, e[1] < f[1], \A g \in T : ~(e[1] < g[1] /\ g[1] < f[1])
        PROVE  e[2] # f[2]
    <3>1. e \in E /\ f \in E
      BY <1>3
    <3>2. \A g \in E : ~(e[1] < g[1] /\ g[1] < f[1])
      BY <1>5, <2>1
    <3> QED
      BY <2>1, <3>1, <3>2 DEF Tells, Alternating
  <2> QED
    BY <2>1 DEF Alternating
<1>7. EndsWith(T, success)
  <2>1. PICK e \in E : e[2] = EventOf(success) /\ \A f \in E : f[1] <= e[1]
    BY DEF Tells, EndsWith
  <2>2. above(e) = {}
    BY <1>4, <2>1
  <2>3. Cardinality(above(e)) < n
    <3>1. Cardinality({}) = 0 /\ 0 < n
      BY FS_EmptySet
    <3> QED
      BY <2>2, <3>1
  <2>4. e \in T /\ T \subseteq E
    BY <1>3, <2>3
  <2> QED
    BY <2>1, <2>4 DEF EndsWith
<1> QED
  BY <1>6, <1>7 DEF Tells

\* The newest result is there, and it is the last of those that are selected.
LEMMA NewestIsSeen ==
  ASSUME RowTypes, Kept, NEW x \in accepted, Newer(x, accepted)
  PROVE  /\ x \in results /\ \A y \in results : y <= x
         /\ Last(ById(results)) = x
<1>1. /\ accepted \in SUBSET Nat /\ IsFiniteSet(accepted) /\ results \in SUBSET Nat
      /\ IsFiniteSet(results) /\ results \subseteq accepted
  BY AcceptedRows DEF RowTypes
<1>2. x \in results
  <2>1. {y \in accepted : y > x} = {}
    <3>1. \A y \in accepted : y \in Nat /\ x \in Nat /\ y <= x
      BY <1>1 DEF Newer
    <3>2. \A y \in accepted : ~(y > x)
      BY <3>1
    <3> QED
      BY <3>2
  <2>2. ~Replaced(x, accepted)
    <3>1. Cardinality({}) = 0 /\ MaxResults \in Nat /\ MaxResults >= 1
      BY FS_EmptySet, Limits
    <3> QED
      BY <2>1, <3>1 DEF Replaced
  <2> QED
    BY <2>2 DEF Kept
<1>3. \A y \in results : y <= x
  BY <1>1 DEF Newer
<1> DEFINE key == [y \in results |-> y]
           list == InOrder(results, key)
           n == Cardinality(results)
           after(y) == Cardinality(After(results, key, y))
<1>4. Keyed(results, key)
  BY <1>1, NewestResults, Limits
<1>5. After(results, key, x) = {}
  <2>1. \A y \in results : key[y] = y /\ y \in Nat /\ ~(y > x)
    BY <1>1, <1>2, <1>3
  <2>2. key[x] = x
    BY <1>2
  <2> HIDE DEF key
  <2> QED
    BY <2>1, <2>2 DEF After
<1>6. ById(results) = list
  BY DEF ById
<1> HIDE DEF key
<1>7. /\ n \in Nat /\ list \in Seq(results) /\ Len(list) = n
      /\ \A y \in results : after(y) \in 0..(n - 1) /\ list[n - after(y)] = y
  BY <1>4, InOrderLists
<1>8. after(x) = 0
  BY <1>5, FS_EmptySet
<1> HIDE DEF list, n, after
<1>9. list[n] = x
  <2>1. list[n - after(x)] = x /\ n - after(x) = n
    BY <1>2, <1>7, <1>8
  <2> QED
    BY <2>1
<1>10. Last(list) = x
  BY <1>7, <1>9 DEF Last
<1> QED
  BY <1>2, <1>3, <1>6, <1>10

\* What a transaction sees after its statements about events.
LEMMA EventsAddedTell ==
  ASSUME RowInv, Story, NEW w \in Writers, NEW added, NEW deleted, AddsEvents(w, added, deleted),
         ~gap', ~tx'[w].aborted
  PROVE  Tells(EventsSeen(w)', tx'[w].success)
<1> DEFINE success == tx[w].success
<1>0. RowTypes /\ Writing /\ OwnIds /\ Kept /\ ~gap
  BY DEF RowInv, AddsEvents, Counters
<1>1. /\ tx'[w].addedEvents = added \ deleted /\ tx'[w].deletedEvents = deleted \intersect events
      /\ events' = events /\ tx'[w].success = success /\ step[w] = "events"
      /\ added = RowsOf(EventsToAdd(w)) /\ deleted \in {{}, EventsToDelete(w, added)}
  BY DEF AddsEvents
<1>2. Pending(w) /\ ~Told(w) /\ ~Late(w)
  BY <1>0, <1>1 DEF Writing, Told, Late
<1>3. EventsSeen(w) = events /\ ResultsSeen(w) = results /\ success \in BOOLEAN
  BY <1>2, EventsSeenEarly, ResultsSeenEarly DEF Pending
<1>4. EventsSeen(w)' = (events \union added) \ deleted
  BY <1>1 DEF EventsSeen
<1>5. eventIds \in Nat /\ events \subseteq (1..eventIds) \X EventTypes
  BY <1>0 DEF RowTypes
<1>6. PICK last \in Nat : last = eventIds'
  BY DEF AddsEvents
<1>7. added \subseteq ((eventIds + 1)..last) \X EventTypes /\ \A e, f \in added : e[1] = f[1] => e = f
  BY <1>6 DEF AddsEvents
<1>8. Distinct(events \union added)
  BY <1>0, <1>7, NewRowsAreDistinct
<1>9. Tells(events \union added, success)
  <2>1. CASE events = {}
    <3>1. EventsToAdd(w) = <<"START", EventOf(success)>>
      BY <1>3, <2>1 DEF EventsToAdd
    <3>2. added = {<<eventIds + 1, "START">>, <<eventIds + 2, EventOf(success)>>}
      <4> DEFINE types == <<"START", EventOf(success)>>
      <4>1. Len(types) = 2 /\ types[1] = "START" /\ types[2] = EventOf(success)
        OBVIOUS
      <4>2. added = {<<eventIds + i, types[i]>> : i \in 1..Len(types)}
        BY <1>1, <3>1 DEF RowsOf
      <4> HIDE DEF types
      <4>3. 1..Len(types) = {1, 2}
        BY <4>1
      <4> QED
        BY <4>1, <4>2, <4>3
    <3>3. events \union added = added
      BY <2>1
    <3> QED
      BY <1>3, <1>5, <3>2, <3>3, FirstEventsTell
  <2>2. CASE events # {}
    <3>1. exists
      BY <2>2 DEF Story
    <3>2. PICK x \in accepted : Newer(x, accepted) /\ Tells(events, log[x])
      BY <1>0, <3>1 DEF Story
    <3>3. results # {} /\ LastSuccess(w) = log[x]
      BY <1>0, <1>3, <3>2, NewestIsSeen DEF LastSuccess
    <3>4. log[x] \in BOOLEAN
      BY <1>0 DEF RowTypes
    <3>5. EventsToAdd(w) = IF log[x] # success THEN <<EventOf(success)>> ELSE <<>>
      BY <1>3, <2>2, <3>3 DEF EventsToAdd
    <3>6. CASE log[x] = success
      <4>1. added = {}
        BY <1>1, <3>5, <3>6 DEF RowsOf
      <4> QED
        BY <3>2, <3>6, <4>1
    <3>7. CASE log[x] # success
      <4>1. added = {<<eventIds + 1, EventOf(success)>>}
        <5> DEFINE types == <<EventOf(success)>>
        <5>1. Len(types) = 1 /\ types[1] = EventOf(success)
          OBVIOUS
        <5>2. added = {<<eventIds + i, types[i]>> : i \in 1..Len(types)}
          BY <1>1, <3>5, <3>7 DEF RowsOf
        <5> HIDE DEF types
        <5>3. 1..Len(types) = {1}
          BY <5>1
        <5> QED
          BY <5>1, <5>2, <5>3
      <4>2. Distinct(events)
        BY <1>8 DEF Distinct
      <4> HIDE DEF success
      <4> QED
        BY <1>3, <1>5, <3>2, <3>4, <3>7, <4>1, <4>2, NextEventTells
    <3> QED
      BY <3>6, <3>7
  <2> QED
    BY <2>1, <2>2
<1>10. IsFiniteSet(events \union added)
  <2>1. IsFiniteSet(events)
    BY <1>5, EventRowsFinite, FS_Subset
  <2>2. PICK e, f : added \in SUBSET {e, f}
    BY DEF AddsEvents
  <2>3. IsFiniteSet(added)
    BY <2>2, AtMostTwo
  <2> QED
    BY <2>1, <2>3, UnionOfTwo
<1>11. Tells((events \union added) \ deleted, success)
  <2>1. CASE deleted = {}
    BY <1>9, <2>1
  <2>2. CASE deleted = EventsToDelete(w, added)
    <3> DEFINE all == events \union added
               T == all \ deleted
    <3>1. CASE TooMany(Cardinality(events), MaxEvents)
      <4>1. T = all \ (ToSet(EventsById(all)) \ NewestRows(EventsById(all), MaxEvents))
        BY <1>3, <2>2, <3>1 DEF EventsToDelete
      <4>2. MaxEvents \in Nat /\ MaxEvents >= 1
        BY StoreAssumption
      <4> HIDE DEF all, T, success
      <4>3. Distinct(all) /\ IsFiniteSet(all) /\ Tells(all, success)
        BY <1>8, <1>9, <1>10 DEF all
      <4>4. Tells(T, success)
        BY <4>1, <4>2, <4>3, EndTells
      <4> QED
        BY <4>4 DEF T, all
    <3>2. CASE ~TooMany(Cardinality(events), MaxEvents)
      <4>1. deleted = {}
        BY <1>3, <2>2, <3>2 DEF EventsToDelete
      <4> QED
        BY <1>9, <4>1
    <3> QED
      BY <3>1, <3>2
  <2> QED
    BY <1>1, <2>1, <2>2
<1> QED
  BY <1>1, <1>4, <1>11

\* The row that is inserted is not one of those that are deleted with it.
LEMMA NewResultStays ==
  ASSUME RowTypes, NEW w, ResultsSeen(w) = results
  PROVE  Len(log) + 1 \notin ResultsToDelete(w, Len(log) + 1)
<1> DEFINE id == Len(log) + 1
           S == results \union {id}
<1>1. Len(log) \in Nat /\ results \subseteq 1..Len(log)
  BY DEF RowTypes
<1>2. id \in Nat /\ \A y \in S : y \in Nat /\ ~(y > id)
  BY <1>1
<1>3. S \subseteq 1..id
  <2>1. (\A y \in 1..Len(log) : y \in 1..id) /\ id \in 1..id
    BY <1>1
  <2> HIDE DEF id
  <2> QED
    BY <1>1, <2>1
<1> HIDE DEF id
<1>4. S \in SUBSET Nat /\ IsFiniteSet(S)
  BY <1>2, <1>3, NewestFinite
<1>5. id \in S
  OBVIOUS
<1>6. ResultsToDelete(w, id) \in {{}, ToSet(ById(S)) \ NewestRows(ById(S), MaxResults)}
  BY DEF ResultsToDelete
<1> HIDE DEF S
<1>7. NewestRows(ById(S), MaxResults) = {x \in S : Cardinality({y \in S : y > x}) < MaxResults}
  BY <1>4, NewestResults, Limits
<1>8. {y \in S : y > id} = {}
  BY <1>2
<1>9. Cardinality({y \in S : y > id}) < MaxResults
  <2>1. Cardinality({}) = 0 /\ 0 < MaxResults
    BY FS_EmptySet, Limits
  <2> QED
    BY <1>8, <2>1
<1>10. id \in NewestRows(ById(S), MaxResults)
  BY <1>5, <1>7, <1>9
<1>11. id \notin ResultsToDelete(w, id)
  BY <1>6, <1>10
<1> QED
  BY <1>11 DEF id

LEMMA NextStory ==
  ASSUME CacheInv, RowInv, Story, [Next]_vars
  PROVE  Story'
<1>0. /\ RowTypes /\ Writing /\ OneWriter /\ gap \in BOOLEAN
      /\ log \in Seq(BOOLEAN) /\ Len(log) \in Nat /\ accepted \subseteq 1..Len(log)
  BY DEF RowInv, RowTypes
\* What the story says of one transaction.
<1> DEFINE Own(w) ==
      /\ Told(w) /\ ~tx[w].aborted => Tells(EventsSeen(w), tx[w].success)
      /\ Late(w) => tx[w].addedResults = {tx[w].id} /\ \A y \in accepted : y < tx[w].id
<1>1. ASSUME NEW w, Unmoved(w), Own(w), events' = events, accepted' = accepted PROVE Own(w)'
  <2>1. EventsSeen(w)' = EventsSeen(w)
    BY <1>1 DEF Unmoved, EventsSeen
  <2>2. /\ tx'[w].success = tx[w].success /\ tx'[w].id = tx[w].id /\ (tx[w].aborted => tx'[w].aborted)
        /\ tx'[w].addedResults = tx[w].addedResults
        /\ Late(w)' = Late(w) /\ Told(w)' = Told(w)
    BY <1>1 DEF Unmoved
  <2> QED
    BY <1>1, <2>1, <2>2 DEF Tells, Alternating, EndsWith
<1>2. ASSUME NEW w, ~Told(w)', ~Late(w)' PROVE Own(w)'
  BY <1>2
<1>3. ASSUME UNCHANGED <<exists, events, accepted>>, gap => gap', gap' \in BOOLEAN,
             \A x \in accepted : log'[x] = log[x], ~gap' => \A w \in Writers : Own(w)'
      PROVE  Story'
  <2>1. exists' /\ ~gap' => \E x \in accepted' : Newer(x, accepted)' /\ Tells(events', log'[x])
    <3>1. ASSUME exists', ~gap'
          PROVE  \E x \in accepted' : Newer(x, accepted)' /\ Tells(events', log'[x])
      <4>1. PICK x \in accepted : Newer(x, accepted) /\ Tells(events, log[x])
        BY <1>0, <1>3, <3>1 DEF Story
      <4> QED
        BY <1>3, <4>1 DEF Newer
    <3> QED
      BY <3>1
  <2> QED
    BY <1>3, <2>1 DEF Story, Tells, Alternating, EndsWith
<1>4. ~gap => \A w \in Writers : Own(w)
  BY DEF Story
<1>5. CASE Quiet
  <2>1. UNCHANGED <<exists, events, accepted, log>> /\ (gap => gap') /\ gap' \in BOOLEAN
    BY <1>5 DEF Quiet, Counters
  <2>2. ASSUME ~gap', NEW w \in Writers PROVE Own(w)'
    <3>1. CASE Unmoved(w)
      <4>1. Own(w)
        BY <1>0, <1>4, <2>1, <2>2
      <4> HIDE DEF Own
      <4> QED
        BY <1>1, <2>1, <3>1, <4>1
    <3>2. CASE Fresh(w)
      <4>1. ~Told(w)' /\ ~Late(w)'
        BY <3>2 DEF Fresh
      <4> HIDE DEF Own
      <4> QED
        BY <1>2, <4>1
    <3> QED
      BY <1>5, <3>1, <3>2 DEF Quiet
  <2> HIDE DEF Own
  <2> QED
    BY <1>3, <2>1, <2>2
<1>6. ASSUME NEW w \in Writers, NEW added, NEW deleted, AddsEvents(w, added, deleted) PROVE Story'
  <2>1. UNCHANGED <<exists, events, accepted, log>> /\ (gap => gap') /\ gap' \in BOOLEAN
    BY <1>6 DEF AddsEvents, Counters
  <2>2. ASSUME ~gap', NEW v \in Writers PROVE Own(v)'
    <3>1. CASE v # w
      <4>1. Own(v) /\ Unmoved(v)
        BY <1>0, <1>4, <1>6, <2>1, <2>2, <3>1 DEF AddsEvents
      <4> HIDE DEF Own
      <4> QED
        BY <1>1, <2>1, <4>1
    <3>2. CASE v = w
      <4>1. ~Late(w)'
        BY <1>6 DEF AddsEvents, Late
      <4>2. ~tx'[w].aborted => Tells(EventsSeen(w)', tx'[w].success)
        BY <1>6, <2>2, EventsAddedTell
      <4> QED
        BY <3>2, <4>1, <4>2 DEF Tells, Alternating, EndsWith
    <3> QED
      BY <3>1, <3>2
  <2> HIDE DEF Own
  <2> QED
    BY <1>3, <2>1, <2>2
<1>7. ASSUME NEW w \in Writers, NEW deleted, AddsResult(w, deleted) PROVE Story'
  <2> DEFINE id == Len(log) + 1
  <2>1. /\ UNCHANGED <<exists, events, accepted, gap>> /\ log' = Append(log, tx[w].success)
        /\ step[w] = "result" /\ ~tx[w].aborted /\ tx'[w].id = id /\ tx'[w].success = tx[w].success
        /\ tx'[w].addedResults = {id} \ deleted /\ (deleted = {} \/ deleted = ResultsToDelete(w, id))
        /\ tx'[w].addedEvents = tx[w].addedEvents /\ tx'[w].deletedEvents = tx[w].deletedEvents
    BY <1>7 DEF AddsResult
  <2>2. ASSUME NEW x \in accepted PROVE log'[x] = log[x] /\ x < id
    <3>1. x \in 1..Len(log)
      BY <1>0
    <3>2. tx[w].success \in BOOLEAN
      BY <1>0 DEF Writing, Pending
    <3>3. log'[x] = log[x]
      BY <1>0, <2>1, <3>1, <3>2
    <3> QED
      BY <1>0, <3>1, <3>3
  <2>3. ASSUME ~gap', NEW v \in Writers PROVE Own(v)'
    <3>1. CASE v # w
      <4>1. Own(v) /\ Unmoved(v)
        BY <1>0, <1>4, <1>7, <2>1, <2>3, <3>1 DEF AddsResult
      <4> HIDE DEF Own
      <4> QED
        BY <1>1, <2>1, <4>1
    <3>2. CASE v = w
      <4>1. Told(w) /\ ~Late(w) /\ Pending(w)
        BY <1>0, <2>1 DEF Told, Late, Writing
      <4>2. Tells(EventsSeen(w), tx[w].success)
        BY <1>4, <2>1, <2>3, <4>1
      <4>3. EventsSeen(w)' = EventsSeen(w)
        BY <2>1 DEF EventsSeen
      <4>4. ResultsSeen(w) = results
        BY <4>1, ResultsSeenEarly
      <4>5. id \notin deleted
        BY <1>0, <2>1, <4>4, NewResultStays
      <4>6. tx'[w].addedResults = {tx'[w].id} /\ \A y \in accepted' : y < tx'[w].id
        <5>1. tx'[w].addedResults = {id}
          BY <2>1, <4>5
        <5> QED
          BY <2>1, <2>2, <5>1
      <4> QED
        BY <2>1, <3>2, <4>2, <4>3, <4>6 DEF Tells, Alternating, EndsWith
    <3> QED
      BY <3>1, <3>2
  <2>4. gap' \in BOOLEAN /\ (gap => gap') /\ UNCHANGED <<exists, events, accepted>>
    BY <1>0, <2>1
  <2> HIDE DEF Own, id
  <2> QED
    BY <1>3, <2>2, <2>3, <2>4
<1>8. ASSUME NEW w \in Writers, Commits(w) PROVE Story'
  <2> DEFINE id == tx[w].id
  <2>1. /\ exists' = TRUE /\ accepted' = accepted \union {id} /\ events' = EventsSeen(w)
        /\ log' = log /\ gap' = gap /\ ~tx[w].aborted /\ step[w] = "commit"
    BY <1>8 DEF Commits
  <2>2. Told(w) /\ Late(w) /\ Pending(w)
    BY <1>0, <2>1 DEF Told, Late, Writing
  <2>3. id \in accepted'
    BY <2>1
  <2>4. ASSUME ~gap PROVE Newer(id, accepted') /\ Tells(events', log'[id])
    <3>1. Tells(EventsSeen(w), tx[w].success) /\ \A y \in accepted : y < id
      BY <1>4, <2>1, <2>2, <2>4
    <3>2. log'[id] = tx[w].success /\ id \in Nat
      BY <2>1, <2>2, <1>0 DEF Pending
    <3>3. \A y \in accepted' : y <= id
      <4>1. \A y \in accepted : y \in Nat /\ y < id
        BY <1>0, <3>1
      <4> HIDE DEF id
      <4> QED
        BY <2>1, <3>2, <4>1
    <3> QED
      BY <2>1, <3>1, <3>2, <3>3 DEF Newer
  <2>5. ASSUME ~gap, NEW v \in Writers PROVE ~Told(v)' /\ ~Late(v)'
    <3>1. CASE v = w
      BY <1>8, <3>1 DEF Commits, Fresh
    <3>2. CASE v # w
      <4>1. ~Late(v) /\ ~Told(v)
        BY <1>0, <2>1, <2>5, <3>2, EmptyUnless
      <4>2. Unmoved(v)
        BY <1>8, <3>2 DEF Commits
      <4> QED
        BY <4>1, <4>2 DEF Unmoved
    <3> QED
      BY <3>1, <3>2
  <2>6. ~gap' => \A v \in Writers : Own(v)'
    BY <2>1, <2>5
  <2>7. exists' => accepted' # {}
    BY <2>3
  <2>8. exists' /\ ~gap' => \E x \in accepted' : Newer(x, accepted') /\ Tells(events', log'[x])
    BY <2>1, <2>3, <2>4
  <2> QED
    BY <2>1, <2>6, <2>7, <2>8 DEF Story, Newer, Tells, Alternating, EndsWith
<1>9. CASE Deletes
  <2>1. exists' = FALSE /\ events' = {} /\ accepted' = {}
        /\ \A w \in Writers : ~Told(w)' /\ ~Late(w)'
    BY <1>9 DEF Deletes, Fresh
  <2> QED
    BY <2>1 DEF Story
<1> QED
  BY <1>0, <1>5, <1>6, <1>7, <1>8, <1>9, StepKinds

LEMMA InitStory == Init => Story
<1> SUFFICES ASSUME Init PROVE Story
  OBVIOUS
<1>1. /\ exists = FALSE /\ events = {} /\ accepted = {}
      /\ \A w \in Writers : step[w] = "idle"
  BY Parts DEF Init
<1>2. \A w \in Writers : ~Late(w) /\ ~Told(w)
  BY <1>1 DEF Late, Told
<1> QED
  BY <1>1, <1>2 DEF Story

LEMMA StoryIsTold ==
  ASSUME RowInv, Story
  PROVE  EventsTellTheStory
<1>0. RowTypes /\ OwnIds /\ Kept
  BY DEF RowInv
<1> DEFINE n == Cardinality(events)
           key == [e \in events |-> e[1]]
           list == InOrder(events, key)
           types == [i \in 1..n |-> list[i][2]]
<1>1. /\ eventIds \in Nat /\ events \subseteq (1..eventIds) \X EventTypes
      /\ \A e \in events : e[1] \in Nat
  BY <1>0 DEF RowTypes
<1>2. IsFiniteSet(events) /\ Distinct(events)
  <2>1. IsFiniteSet(events)
    BY <1>1, EventRowsFinite, FS_Subset
  <2>2. Distinct(events)
    BY <1>0, <1>1 DEF Distinct, OwnIds
  <2> QED
    BY <2>1, <2>2
<1>3. Keyed(events, key)
  BY <1>2, NewestEvents, Limits
<1>4. EventsById(events) = list
  BY DEF EventsById
<1>5. \A e \in events : key[e] = e[1]
  OBVIOUS
<1> HIDE DEF key
<1> DEFINE after(e) == Cardinality(After(events, key, e))
<1>6. /\ n \in Nat /\ list \in Seq(events) /\ Len(list) = n
      /\ \A i, j \in 1..n : key[list[i]] < key[list[j]] <=> i < j
      /\ \A e \in events : after(e) \in 0..(n - 1) /\ list[n - after(e)] = e
  BY <1>3, InOrderLists
<1> HIDE DEF n, list, after
<1>7. \A i \in 1..n : list[i] \in events
  BY <1>6
<1>8. \A i, j \in 1..n : list[i][1] < list[j][1] <=> i < j
  BY <1>5, <1>6, <1>7
<1>9. ASSUME NEW e \in events PROVE \E i \in 1..n : list[i] = e
  <2>1. after(e) \in 0..(n - 1) /\ list[n - after(e)] = e
    BY <1>6
  <2>2. n - after(e) \in 1..n
    BY <1>6, <2>1
  <2> QED
    BY <2>1, <2>2
<1>10. Len(types) = n /\ types \in Seq(EventTypes)
  <2>1. \A i \in 1..n : list[i][2] \in EventTypes
    BY <1>1, <1>7
  <2> QED
    BY <1>6, <2>1
<1>11. ASSUME exists, ~gap
       PROVE  /\ Last(types) = EventOf(log[Max(results)])
              /\ \A i \in 1..(Len(types) - 1) : types[i] # types[i + 1]
  <2>1. PICK x \in accepted : Newer(x, accepted) /\ Tells(events, log[x])
    BY <1>11 DEF Story
  <2>2. Max(results) = x
    <3>1. x \in results /\ \A y \in results : y <= x
      BY <1>0, <2>1, NewestIsSeen
    <3>2. results \in SUBSET Nat
      BY <1>0, AcceptedRows
    <3>3. x \in results /\ \A y \in results : x >= y
      BY <3>1, <3>2
    <3>4. \A z \in results : (\A y \in results : z >= y) => z = x
      BY <3>2, <3>3
    <3> QED
      BY <3>3, <3>4 DEF Max
  <2>3. PICK last \in events : last[2] = EventOf(log[x]) /\ \A f \in events : f[1] <= last[1]
    BY <2>1 DEF Tells, EndsWith
  <2>4. PICK k \in 1..n : list[k] = last
    BY <1>9
  <2>5. k = n
    <3>1. n \in 1..n /\ list[n] \in events
      BY <1>6, <1>7
    <3>2. list[n][1] <= last[1] /\ list[n][1] \in Nat /\ last[1] \in Nat
      BY <1>1, <2>3, <3>1
    <3>3. ~(list[k][1] < list[n][1])
      BY <2>4, <3>2
    <3>4. ~(k < n)
      BY <1>8, <3>1, <3>3
    <3> QED
      BY <1>6, <3>4
  <2>6. types[n] = EventOf(log[x]) /\ Last(types) = types[Len(types)]
    BY <1>6, <2>3, <2>4, <2>5 DEF Last
  <2>7. ASSUME NEW i \in 1..(n - 1) PROVE types[i] # types[i + 1]
    <3>1. i \in 1..n /\ i + 1 \in 1..n /\ i < i + 1
      BY <1>6
    <3>2. list[i] \in events /\ list[i + 1] \in events /\ list[i][1] < list[i + 1][1]
      BY <1>7, <1>8, <3>1
    <3>3. ASSUME NEW g \in events, list[i][1] < g[1], g[1] < list[i + 1][1] PROVE FALSE
      <4>1. PICK j \in 1..n : list[j] = g
        BY <1>9
      <4>2. i < j /\ j < i + 1
        BY <1>8, <3>1, <3>3, <4>1
      <4> QED
        BY <1>6, <4>2
    <3>4. list[i][2] # list[i + 1][2]
      BY <2>1, <3>2, <3>3 DEF Tells, Alternating
    <3> QED
      BY <3>1, <3>4
  <2> QED
    BY <1>10, <2>2, <2>6, <2>7
<1>12. ~exists => results = {} /\ events = {}
  BY <1>0 DEF Story, RowTypes
<1>13. EventsTellTheStory = (/\ exists /\ ~gap =>
                                /\ Last(types) = EventOf(log[Max(results)])
                                /\ \A i \in 1..(Len(types) - 1) : types[i] # types[i + 1]
                             /\ ~exists => results = {} /\ events = {})
  BY <1>4 DEF EventsTellTheStory, n
<1> HIDE DEF types
<1> QED
  BY <1>11, <1>12, <1>13

\* The events tell the story of the results: the last one is about the newest
\* result, and no two next to each other are alike, whatever clean-ups delete
\* and transactions roll back (sql.go, Insert: the event is derived from the last
\* result that the transaction sees), unless two inserts overlapped or a
\* statement about events failed; and nothing is left of a deleted endpoint.
THEOREM TheStoryIsTold == Spec => []EventsTellTheStory
<1>1. Init => Story
  BY InitStory
<1>2. CacheInv /\ RowInv /\ Story /\ [Next]_vars => Story'
  BY NextStory
<1>3. RowInv /\ Story => EventsTellTheStory
  BY StoryIsTold
<1> QED
  BY <1>1, <1>2, <1>3, RowsAreConsistent, PTL DEF Spec
-----------------------------------------------------------------------------
(* Both stores show the same results *)

\* The newest rows of a list whose older ones were already cut.
LEMMA NewestOfNewest ==
  ASSUME NEW S, NEW s \in Seq(S), NEW x \in S, NEW n \in Nat, n >= 1
  PROVE  Newest(Append(Newest(s, n), x), n) = Newest(Append(s, x), n)
<1> DEFINE r == Newest(s, n)
           t == Append(s, x)
           u == Append(r, x)
           a == Newest(t, n)
           b == Newest(u, n)
<1>1. /\ r \in Seq(S) /\ Len(r) = IF Len(s) > n THEN n ELSE Len(s)
      /\ \A i \in 1..Len(r) : r[i] = s[Len(s) - Len(r) + i]
      /\ Len(s) \in Nat /\ Len(r) \in Nat
  BY NewestIsTail
<1> HIDE DEF r
<1>2. /\ t \in Seq(S) /\ Len(t) = Len(s) + 1 /\ t[Len(s) + 1] = x /\ \A i \in 1..Len(s) : t[i] = s[i]
      /\ u \in Seq(S) /\ Len(u) = Len(r) + 1 /\ u[Len(r) + 1] = x /\ \A i \in 1..Len(r) : u[i] = r[i]
  BY <1>1
<1> HIDE DEF t, u
<1>3. /\ a \in Seq(S) /\ Len(a) = (IF Len(t) > n THEN n ELSE Len(t))
      /\ \A i \in 1..Len(a) : a[i] = t[Len(t) - Len(a) + i]
  <2>1. t \in Seq(S)
    BY <1>2
  <2> QED
    BY ONLY <2>1, NewestIsTail, n \in Nat
<1>4. /\ b \in Seq(S) /\ Len(b) = (IF Len(u) > n THEN n ELSE Len(u))
      /\ \A i \in 1..Len(b) : b[i] = u[Len(u) - Len(b) + i]
  <2>1. u \in Seq(S)
    BY <1>2
  <2> QED
    BY ONLY <2>1, NewestIsTail, n \in Nat
<1> HIDE DEF a, b
<1>5. Len(a) = Len(b)
  BY <1>1, <1>2, <1>3, <1>4
<1>6. ASSUME NEW i \in 1..Len(a) PROVE b[i] = a[i]
  <2> DEFINE j == Len(t) - Len(a) + i
             k == Len(u) - Len(a) + i
             A == Len(s)
             R == Len(r)
             L == Len(a)
  <2>1. a[i] = t[j] /\ b[i] = u[k]
    BY <1>3, <1>4, <1>5
  <2>2. /\ A \in Nat /\ R \in Nat /\ R = (IF A > n THEN n ELSE A)
        /\ L = (IF A + 1 > n THEN n ELSE A + 1) /\ L = (IF R + 1 > n THEN n ELSE R + 1)
        /\ j = A + 1 - L + i /\ k = R + 1 - L + i /\ i \in 1..L
    BY <1>1, <1>2, <1>3, <1>4, <1>5
  <2> HIDE DEF j, k, A, R, L
  <2>5. /\ j \in 1..(A + 1) /\ k \in 1..(R + 1) /\ j = A - R + k
        /\ k = R + 1 => j = A + 1
        /\ k \in 1..R => j \in 1..A
    BY <2>2
  <2>3. CASE k = R + 1
    BY <1>2, <2>1, <2>3, <2>5 DEF A, R
  <2>4. CASE k \in 1..R
    <3>1. u[k] = r[k] /\ r[k] = s[A - R + k] /\ t[j] = s[j]
      BY <1>1, <1>2, <2>4, <2>5 DEF A, R
    <3> QED
      BY <2>1, <2>5, <3>1
  <2> QED
    BY <2>2, <2>3, <2>4, <2>5
<1>7. b = a
  BY <1>3, <1>4, <1>5, <1>6, SeqEqual
<1> QED
  BY <1>7 DEF a, b, r, t, u

LEMMA SeqOfMore ==
  ASSUME NEW S, NEW T, S \subseteq T, NEW s \in Seq(S)
  PROVE  s \in Seq(T)
<1>1. PICK n \in Nat : s \in [1..n -> S]
  BY SeqDef
<1>2. s \in [1..n -> T]
  BY <1>1
<1> QED
  BY <1>2, SeqDef

\* A row with a new highest identifier comes last.
LEMMA NewRowIsLast ==
  ASSUME NEW S \in SUBSET Nat, IsFiniteSet(S), NEW id \in Nat, \A y \in S : y < id
  PROVE  /\ ById(S) \in Seq(S)
         /\ ById(S \union {id}) = Append(ById(S), id)
<1> DEFINE T == S \union {id}
           s == ById(S)
           t == ById(T)
           n == Cardinality(S)
           above(x) == {y \in S : y > x}
           aboveT(x) == {y \in T : y > x}
           key == [x \in S |-> x]
           keyT == [x \in T |-> x]
<1>1. IsFiniteSet({id}) /\ Cardinality({id}) = 1
  BY FS_Singleton
<1>2. id \notin S
  <2>1. \A y \in S : y \in Nat /\ y # id
    OBVIOUS
  <2> QED
    BY <2>1
<1>3. T \in SUBSET Nat /\ IsFiniteSet(T) /\ Cardinality(T) = n + 1 /\ n \in Nat
  <2>1. S \intersect {id} = {}
    BY <1>2
  <2>2. IsFiniteSet(T) /\ Cardinality(T) = Cardinality(S) + Cardinality({id})
    BY <1>1, <2>1, UnionOfTwo
  <2> QED
    BY <1>1, <2>2, FS_CardinalityType
<1>4. /\ s \in Seq(S) /\ Len(s) = n
      /\ \A i \in 1..n : Cardinality(above(s[i])) = n - i
  <2>1. Keyed(S, key) /\ \A x \in S : After(S, key, x) = above(x)
    BY NewestResults, Limits DEF After
  <2>2. s = InOrder(S, key)
    BY DEF ById
  <2> HIDE DEF key, s, above
  <2>3. /\ s \in Seq(S) /\ Len(s) = n
        /\ \A i \in 1..n : Cardinality(After(S, key, s[i])) = n - i
    BY <2>1, <2>2, InOrderLists
  <2>4. ASSUME NEW i \in 1..n PROVE Cardinality(above(s[i])) = n - i
    <3>1. s[i] \in S
      BY <1>3, <2>3
    <3>2. After(S, key, s[i]) = above(s[i])
      BY <2>1, <3>1
    <3> QED
      BY <2>3, <3>2
  <2> QED
    BY <2>3, <2>4
<1>5. /\ t \in Seq(T) /\ Len(t) = n + 1
      /\ \A x \in T : t[n + 1 - Cardinality(aboveT(x))] = x
  <2>1. Keyed(T, keyT) /\ \A x \in T : After(T, keyT, x) = aboveT(x)
    <3> HIDE DEF T
    <3>1. Keyed(T, keyT)
      BY <1>3, NewestResults, Limits
    <3> QED
      BY <3>1 DEF After
  <2>2. t = InOrder(T, keyT) /\ Cardinality(T) = n + 1
    BY <1>3 DEF ById
  <2> DEFINE list == InOrder(T, keyT)
             m == Cardinality(T)
  <2> HIDE DEF keyT, T
  <2>3. /\ list \in Seq(T) /\ Len(list) = m
        /\ \A x \in T : /\ Cardinality(After(T, keyT, x)) \in 0..(m - 1)
                        /\ list[m - Cardinality(After(T, keyT, x))] = x
    BY <2>1, InOrderLists
  <2> HIDE DEF t, aboveT, list, m
  <2>4. t = list /\ m = n + 1
    BY <2>2 DEF list, m
  <2> HIDE DEF n
  <2>5. ASSUME NEW x \in T PROVE t[n + 1 - Cardinality(aboveT(x))] = x
    <3> DEFINE c == Cardinality(After(T, keyT, x))
    <3>1. list[m - c] = x /\ c \in 0..(m - 1)
      BY <2>3
    <3>2. c = Cardinality(aboveT(x))
      BY <2>1
    <3> DEFINE d == Cardinality(aboveT(x))
    <3> HIDE DEF c, d
    <3>3. c = d
      BY <3>2 DEF d
    <3>4. t[n + 1 - d] = x
      BY <1>3, <2>4, <3>1, <3>3
    <3> QED
      BY <3>4 DEF d
  <2> QED
    BY <2>3, <2>4, <2>5
<1>6. ASSUME NEW i \in 1..n PROVE t[i] = s[i]
  <2> DEFINE x == s[i]
  <2>1. x \in S /\ Cardinality(above(x)) = n - i
    BY <1>4
  <2> HIDE DEF x
  <2>2. aboveT(x) = above(x) \union {id} /\ id \notin above(x)
    BY <1>2, <2>1
  <2>3. above(x) \in SUBSET S
    OBVIOUS
  <2> HIDE DEF above, aboveT
  <2>4. IsFiniteSet(above(x)) /\ above(x) \intersect {id} = {}
    BY <2>2, <2>3, SmallerSubset
  <2>5. Cardinality(aboveT(x)) = n - i + 1
    BY <1>1, <2>1, <2>2, <2>4, UnionOfTwo
  <2>6. t[n + 1 - Cardinality(aboveT(x))] = x
    BY <1>5, <2>1
  <2>7. n + 1 - Cardinality(aboveT(x)) = i
    BY <1>3, <2>5
  <2> QED
    BY <2>6, <2>7 DEF x
<1>7. t[n + 1] = id
  <2>1. \A y \in T : ~(y > id)
    OBVIOUS
  <2>2. aboveT(id) = {}
    BY <2>1
  <2>3. Cardinality(aboveT(id)) = 0
    BY <2>2, FS_EmptySet
  <2>4. t[n + 1 - Cardinality(aboveT(id))] = id
    BY <1>5
  <2> HIDE DEF aboveT
  <2>5. n + 1 - Cardinality(aboveT(id)) = n + 1
    BY <1>3, <2>3
  <2> QED
    BY <2>4, <2>5
<1> DEFINE u == Append(s, id)
<1>8. u \in Seq(T) /\ Len(u) = n + 1 /\ u[n + 1] = id /\ \A i \in 1..n : u[i] = s[i]
  <2>1. s \in Seq(T) /\ id \in T
    <3>1. S \subseteq T /\ s \in Seq(S)
      BY <1>4
    <3> HIDE DEF s, T
    <3>2. s \in Seq(T)
      BY <3>1, SeqOfMore
    <3> QED
      BY <3>2 DEF T
  <2>2. Len(s) = n /\ n \in Nat
    BY <1>3, <1>4
  <2> HIDE DEF s, n, T
  <2> QED
    BY <2>1, <2>2
<1> HIDE DEF t, s, T, n
<1>9. t = u
  <2>1. \A i \in 1..(n + 1) : t[i] = u[i]
    BY <1>3, <1>6, <1>7, <1>8
  <2> HIDE DEF u
  <2> QED
    BY <1>5, <1>8, <2>1, SeqEqual
<1> QED
  BY <1>4, <1>9 DEF s, t, T

\* The store in memory has the newest results that were accepted.
Agreement == ~gap => memory.results = Newest(ById(accepted), MaxResults)

LEMMA NothingInOrder == Newest(ById({}), MaxResults) = <<>>
<1>1. Cardinality({}) = 0 /\ 1..0 = {}
  BY FS_EmptySet
<1>2. ById({}) = <<>>
  BY <1>1 DEF ById, InOrder
<1> QED
  BY <1>2, Limits DEF Newest

LEMMA NextAgreement ==
  ASSUME CacheInv, RowInv, Story, Agreement, [Next]_vars
  PROVE  Agreement'
<1>0. RowTypes /\ Writing /\ gap \in BOOLEAN
  BY DEF RowInv, RowTypes
<1>1. ASSUME UNCHANGED <<memory, accepted>>, gap => gap' PROVE Agreement'
  BY <1>0, <1>1 DEF Agreement, ById, InOrder
<1>2. ASSUME NEW w \in Writers, Commits(w), ~gap PROVE Agreement'
  <2> DEFINE id == tx[w].id
             old == ById(accepted)
  <2>1. /\ accepted' = accepted \union {id} /\ Late(w) /\ Pending(w)
        /\ memory'.results = Newest(Append(memory.results, id), MaxResults)
    BY <1>0, <1>2 DEF Commits, AddResult, Late, Writing
  <2>2. id \in Nat /\ \A y \in accepted : y < id
    BY <1>0, <1>2, <2>1 DEF Pending, Story, RowTypes
  <2>3. memory.results = Newest(old, MaxResults)
    BY <1>2 DEF Agreement
  <2>4. accepted \in SUBSET Nat /\ IsFiniteSet(accepted)
    BY <1>0, AcceptedRows
  <2> HIDE DEF id, old
  <2>5. old \in Seq(accepted) /\ ById(accepted') = Append(old, id)
    BY <2>1, <2>2, <2>4, NewRowIsLast DEF old
  <2>6. old \in Seq(Nat)
    <3>1. old \in Seq(accepted) /\ accepted \subseteq Nat
      BY <2>4, <2>5
    <3> QED
      BY <3>1, SeqOfMore
  <2>7. Newest(Append(Newest(old, MaxResults), id), MaxResults) = Newest(Append(old, id), MaxResults)
    BY <2>2, <2>6, Limits, NewestOfNewest
  <2> QED
    BY <2>1, <2>3, <2>5, <2>7 DEF Agreement
<1>3. ASSUME NEW w \in Writers, Commits(w), gap PROVE Agreement'
  BY <1>3 DEF Commits, Agreement
<1>4. CASE Deletes
  <2>1. memory'.results = <<>> /\ accepted' = {}
    BY <1>4 DEF Deletes, NewStatus
  <2> QED
    BY <2>1, NothingInOrder DEF Agreement
<1>5. ASSUME Quiet \/ (\E w, added, deleted : AddsEvents(w, added, deleted))
             \/ \E w, deleted : AddsResult(w, deleted)
      PROVE  Agreement'
  BY <1>1, <1>5 DEF Quiet, AddsEvents, AddsResult, Counters
<1> QED
  BY <1>0, <1>2, <1>3, <1>4, <1>5, StepKinds

\* Two lists of the newest rows that end alike: of the last n no row differs.
SameEnd(s, a, n) ==
  /\ s \in Seq(Nat) /\ a \in Seq(Nat)
  /\ Len(s) <= Len(a) /\ (Len(s) >= n \/ Len(s) = Len(a))
  /\ \A k \in 0..(n - 1) : k < Len(a) => s[Len(s) - k] = a[Len(a) - k]

\* The newest results in the table are the newest of those that were accepted.
LEMMA SameNewest ==
  ASSUME RowTypes, Kept
  PROVE  SameEnd(ById(results), ById(accepted), MaxResults)
<1> DEFINE s == ById(results)
           a == ById(accepted)
           n == Cardinality(results)
           N == Cardinality(accepted)
           newer(x) == {y \in results : y > x}
           newerA(x) == {y \in accepted : y > x}
           key == [x \in results |-> x]
           keyA == [x \in accepted |-> x]
<1>1. /\ accepted \in SUBSET Nat /\ IsFiniteSet(accepted)
      /\ results \in SUBSET Nat /\ IsFiniteSet(results) /\ results \in SUBSET accepted
  BY AcceptedRows DEF RowTypes
<1>2. n \in Nat /\ N \in Nat /\ n <= N
  BY <1>1, SmallerSubset
<1>3. /\ s \in Seq(results) /\ Len(s) = n
      /\ \A x \in results : /\ Cardinality(newer(x)) \in 0..(n - 1)
                            /\ s[n - Cardinality(newer(x))] = x
  <2> DEFINE after(x) == Cardinality(After(results, key, x))
             list == InOrder(results, key)
  <2>1. Keyed(results, key) /\ \A x \in results : After(results, key, x) = newer(x)
    <3>1. Keyed(results, key)
      BY <1>1, NewestResults, Limits
    <3> QED
      BY <3>1 DEF After
  <2>2. s = list
    BY DEF ById
  <2> HIDE DEF key
  <2>3. /\ list \in Seq(results) /\ Len(list) = n
        /\ \A x \in results : after(x) \in 0..(n - 1) /\ list[n - after(x)] = x
    BY <2>1, InOrderLists
  <2>4. \A x \in results : after(x) = Cardinality(newer(x))
    BY <2>1
  <2> HIDE DEF s, list, n, newer, after
  <2>5. ASSUME NEW x \in results
        PROVE  Cardinality(newer(x)) \in 0..(n - 1) /\ s[n - Cardinality(newer(x))] = x
    <3>1. after(x) \in 0..(n - 1) /\ list[n - after(x)] = x /\ after(x) = Cardinality(newer(x))
      BY <2>3, <2>4
    <3> QED
      BY <2>2, <3>1
  <2> QED
    BY <2>2, <2>3, <2>5
<1>4. /\ a \in Seq(accepted) /\ Len(a) = N
      /\ \A i \in 1..N : Cardinality(newerA(a[i])) = N - i
  <2> DEFINE after(x) == Cardinality(After(accepted, keyA, x))
             list == InOrder(accepted, keyA)
  <2>1. Keyed(accepted, keyA) /\ \A x \in accepted : After(accepted, keyA, x) = newerA(x)
    <3>1. Keyed(accepted, keyA)
      BY <1>1, NewestResults, Limits
    <3> QED
      BY <3>1 DEF After
  <2>2. a = list
    BY DEF ById
  <2> HIDE DEF keyA
  <2>3. /\ list \in Seq(accepted) /\ Len(list) = N
        /\ \A i \in 1..N : after(list[i]) = N - i
    BY <2>1, InOrderLists
  <2>4. \A x \in accepted : after(x) = Cardinality(newerA(x))
    BY <2>1
  <2> HIDE DEF a, list, N, newerA, after
  <2>5. ASSUME NEW i \in 1..N PROVE Cardinality(newerA(a[i])) = N - i
    <3>1. list[i] \in accepted /\ after(list[i]) = N - i
      BY <2>3
    <3> QED
      BY <2>2, <2>4, <3>1
  <2> QED
    BY <2>2, <2>3, <2>5
<1> HIDE DEF s, a, n, N
<1>5. MaxResults \in Nat /\ MaxResults >= 1
  BY Limits
<1>6. ASSUME NEW k \in 0..(MaxResults - 1), k < N
      PROVE  k < n /\ s[n - k] = a[N - k]
  <2> DEFINE x == a[N - k]
  <2>1. N - k \in 1..N
    BY <1>2, <1>5, <1>6
  <2>2. x \in accepted /\ Cardinality(newerA(x)) = N - (N - k) /\ x \in Nat
    <3> DEFINE i == N - k
    <3>1. i \in 1..N
      BY <2>1
    <3> HIDE DEF i
    <3>2. a[i] \in accepted /\ Cardinality(newerA(a[i])) = N - i
      BY <1>4, <3>1
    <3> QED
      BY <1>1, <3>2 DEF i
  <2>3. N - (N - k) = k /\ k \in Nat /\ k < MaxResults
    BY <1>2, <1>5
  <2> HIDE DEF x
  <2>4. ASSUME NEW y \in accepted, newerA(y) \in SUBSET newerA(x) PROVE y \in results
    <3> DEFINE A == newerA(x)
               B == newerA(y)
    <3>1. A \in SUBSET accepted
      OBVIOUS
    <3> HIDE DEF A, B
    <3>2. IsFiniteSet(A)
      BY <1>1, <3>1, SmallerSubset
    <3>3. Cardinality(B) \in Nat /\ Cardinality(B) <= Cardinality(A) /\ Cardinality(A) = k
      <4>1. B \in SUBSET A
        BY <2>4 DEF A, B
      <4>2. Cardinality(A) = k
        BY <2>2, <2>3 DEF A
      <4> QED
        BY <3>2, <4>1, <4>2, SmallerSubset
    <3>4. ~(Cardinality(B) >= MaxResults)
      BY <1>5, <2>3, <3>3
    <3>5. ~Replaced(y, accepted)
      BY <3>4 DEF B, Replaced
    <3> QED
      BY <3>5 DEF Kept
  <2>5. \A y \in newerA(x) : y \in results
    <3>1. ASSUME NEW y \in newerA(x) PROVE newerA(y) \in SUBSET newerA(x) /\ y \in accepted
      <4>1. y \in Nat /\ y > x /\ y \in accepted
        BY <1>1
      <4>2. \A z \in accepted : z \in Nat /\ (z > y => z > x)
        BY <1>1, <2>2, <4>1
      <4> QED
        BY <4>1, <4>2
    <3> HIDE DEF newerA
    <3> QED
      BY <2>4, <3>1
  <2>6. x \in results
    <3> HIDE DEF newerA
    <3> QED
      BY <2>2, <2>4
  <2>7. newer(x) = newerA(x)
    BY <1>1, <2>5
  <2> HIDE DEF newer, newerA
  <2>8. Cardinality(newer(x)) = k
    BY <2>2, <2>3, <2>7
  <2>9. k \in 0..(n - 1) /\ s[n - k] = x
    BY <1>3, <2>6, <2>8
  <2> QED
    BY <1>2, <2>9 DEF x
<1>7. n >= MaxResults \/ n = N
  <2>1. CASE N >= MaxResults
    <3>1. MaxResults - 1 \in 0..(MaxResults - 1) /\ MaxResults - 1 < N
      BY <1>2, <1>5, <2>1
    <3>2. MaxResults - 1 < n
      BY <1>6, <3>1
    <3> QED
      BY <1>2, <1>5, <3>2
  <2>2. CASE N < MaxResults /\ N >= 1
    <3>1. N - 1 \in 0..(MaxResults - 1) /\ N - 1 < N
      BY <1>2, <1>5, <2>2
    <3>2. N - 1 < n
      BY <1>6, <3>1
    <3> QED
      BY <1>2, <3>2
  <2> QED
    BY <1>2, <1>5, <2>1, <2>2
<1>8. s \in Seq(Nat) /\ a \in Seq(Nat)
  BY <1>1, <1>3, <1>4, SeqOfMore
<1>9. SameEnd(s, a, MaxResults)
  BY <1>2, <1>3, <1>4, <1>6, <1>7, <1>8 DEF SameEnd
<1> QED
  BY <1>9 DEF s, a

LEMMA ReverseIs ==
  ASSUME NEW S, NEW s \in Seq(S)
  PROVE  /\ Reverse(s) \in Seq(S) /\ Len(Reverse(s)) = Len(s)
         /\ \A i \in 1..Len(s) : Reverse(s)[i] = s[Len(s) - i + 1]
<1>1. Len(s) \in Nat /\ \A i \in 1..Len(s) : Len(s) - i + 1 \in 1..Len(s)
  OBVIOUS
<1> QED
  BY <1>1 DEF Reverse

LEMMA SliceIs ==
  ASSUME NEW s, s \in Seq(Nat), NEW lo, NEW hi, lo \in Nat, hi \in Nat, lo <= hi, hi <= Len(s)
  PROVE  LET t == SubSeq(s, lo + 1, hi)
         IN t \in Seq(Nat) /\ Len(t) = hi - lo /\ \A i \in 1..(hi - lo) : t[i] = s[lo + i]
<1>1. Len(s) \in Nat
  OBVIOUS
<1>2. \A i \in (lo + 1)..hi : i \in 1..Len(s)
  BY <1>1
<1> DEFINE t == SubSeq(s, lo + 1, hi)
<1>3. Len(t) = hi - lo /\ \A i \in 1..(hi - lo) : t[i] = s[lo + i]
  BY <1>1, SMTT(30)
<1>4. t \in Seq(Nat)
  BY <1>1, <1>2
<1> QED
  BY <1>3, <1>4

\* A page of the rows, selected newest first and reversed, is the page of the
\* store in memory, which cuts the list where it keeps it.
LEMMA SamePage ==
  ASSUME NEW s, NEW a, NEW R \in Nat, R >= 1, SameEnd(s, a, R),
         NEW page \in Nat \ {0}, NEW size \in Nat \ {0}, page * size <= R
  PROVE  Reverse(Limited(Reverse(s), <<page, size>>)) = PageOf(Newest(a, R), page, size)
<1> DEFINE off == (page - 1) * size
           P == page * size
           n == Len(s)
           N == Len(a)
           m == Newest(a, R)
           M == Len(m)
           rev == Reverse(s)
           hi == IF P <= n THEN P ELSE n
           lim == SubSeq(rev, off + 1, hi)
           start == IF M - P < 0 THEN 0 ELSE M - P
           end == M - off
           shown == SubSeq(m, start + 1, end)
<1>0. /\ s \in Seq(Nat) /\ a \in Seq(Nat)
      /\ n <= N /\ (n >= R \/ n = N)
      /\ \A k \in 0..(R - 1) : k < N => s[n - k] = a[N - k]
  BY DEF SameEnd
<1>1. off \in Nat /\ P \in Nat /\ P = off + size /\ size >= 1 /\ P <= R
  OBVIOUS
<1>2. n \in Nat /\ N \in Nat /\ n <= N /\ (n >= R \/ n = N)
  BY <1>0
<1>3. /\ m \in Seq(Nat) /\ M = IF N > R THEN R ELSE N
      /\ \A i \in 1..M : m[i] = a[N - M + i]
  BY <1>0, NewestIsTail
<1>4. rev \in Seq(Nat) /\ Len(rev) = n /\ \A i \in 1..n : rev[i] = s[n - i + 1]
  BY <1>0, ReverseIs
<1>5. Limited(rev, <<page, size>>) = lim
  <2>1. Min({off + size, Len(rev)}) = hi
    <3> HIDE DEF off, P, n, rev
    <3>1. hi \in {off + size, Len(rev)} /\ \A y \in {off + size, Len(rev)} : hi <= y
      BY <1>1, <1>2, <1>4
    <3>2. \A x \in {off + size, Len(rev)} : (\A y \in {off + size, Len(rev)} : x <= y) => x = hi
      BY <1>1, <1>2, <1>4
    <3> HIDE DEF hi
    <3> QED
      BY <3>1, <3>2 DEF Min
  <2>2. <<page, size>>[1] = page /\ <<page, size>>[2] = size
    OBVIOUS
  <2> HIDE DEF rev, hi
  <2> QED
    BY <2>1, <2>2 DEF Limited
<1>6. PageOf(m, page, size) = IF end < 0 THEN <<>> ELSE shown
  <2> HIDE DEF m
  <2> QED
    BY DEF PageOf
<1> HIDE DEF off, P, n, N, m, rev
<1>7. CASE hi <= off
  <2>1. n <= off /\ n = M
    BY <1>1, <1>2, <1>3, <1>7
  <2>2. lim = <<>>
    BY <1>1, <1>2, <1>4, <1>7
  <2>3. end < 0 \/ end = 0
    BY <1>1, <1>2, <2>1
  <2>4. start \in Nat
    BY <1>1, <1>2, <2>1
  <2>5. end = 0 => shown = <<>>
    <3> HIDE DEF start, end
    <3> QED
      BY <1>3, <2>4
  <2>6. Reverse(<<>>) = <<>>
    BY DEF Reverse
  <2>7. PageOf(m, page, size) = <<>>
    BY <1>6, <2>3, <2>5
  <2> QED
    BY <1>5, <2>2, <2>6, <2>7 DEF rev, m
<1>8. CASE off < hi
  <2> DEFINE L == hi - off
             b == Reverse(lim)
  <2>1. /\ hi \in Nat /\ L \in Nat /\ L >= 1 /\ hi <= n /\ hi <= R /\ hi <= M /\ M \in Nat
        /\ start = M - hi /\ end = M - off /\ end >= 0 /\ start \in Nat /\ end <= M /\ end - start = L
        /\ end \in Nat
    BY <1>1, <1>2, <1>3, <1>8
  <2> HIDE DEF hi, start, end, M
  <2>2. /\ lim \in Seq(Nat) /\ Len(lim) = L /\ \A i \in 1..L : lim[i] = rev[off + i]
    <3>1. rev \in Seq(Nat) /\ off \in Nat /\ hi \in Nat /\ off <= hi /\ hi <= Len(rev)
      BY <1>1, <1>4, <1>8, <2>1
    <3> QED
      BY ONLY <3>1, SliceIs
  <2>3. /\ shown \in Seq(Nat) /\ Len(shown) = L /\ \A i \in 1..L : shown[i] = m[start + i]
    <3>1. m \in Seq(Nat) /\ start \in Nat /\ end \in Nat /\ start <= end /\ end <= Len(m)
      BY <1>3, <2>1 DEF M
    <3>2. /\ shown \in Seq(Nat) /\ Len(shown) = end - start
          /\ \A i \in 1..(end - start) : shown[i] = m[start + i]
      BY ONLY <3>1, SliceIs
    <3> HIDE DEF shown
    <3> QED
      BY <2>1, <3>2
  <2> HIDE DEF lim, shown
  <2>4. /\ b \in Seq(Nat) /\ Len(b) = L /\ \A i \in 1..L : b[i] = lim[L - i + 1]
    <3>1. lim \in Seq(Nat)
      BY <2>2
    <3>2. /\ b \in Seq(Nat) /\ Len(b) = Len(lim)
          /\ \A i \in 1..Len(lim) : b[i] = lim[Len(lim) - i + 1]
      BY ONLY <3>1, ReverseIs
    <3> HIDE DEF b
    <3> QED
      BY <2>2, <3>2
  <2> HIDE DEF b
  <2>5. ASSUME NEW j \in 1..L PROVE b[j] = shown[j]
    <3> DEFINE k == hi - j
    <3>1. L - j + 1 \in 1..L /\ off + (L - j + 1) \in 1..n /\ n - (off + (L - j + 1)) + 1 = n - k
      BY <1>1, <1>2, <2>1
    <3>2. b[j] = s[n - k]
      <4> DEFINE i == L - j + 1
                 h == off + i
      <4>1. b[j] = lim[i]
        BY <2>4
      <4>2. lim[i] = rev[h]
        BY <2>2, <3>1
      <4>3. h \in 1..n /\ n - h + 1 = n - k
        BY <3>1
      <4> HIDE DEF i, h
      <4>4. rev[h] = s[n - h + 1]
        BY <1>4, <4>3
      <4> QED
        BY <4>1, <4>2, <4>3, <4>4
    <3>3. start + j \in 1..M /\ N - M + (start + j) = N - k
      BY <1>1, <1>2, <2>1
    <3>4. shown[j] = a[N - k]
      <4> DEFINE h == start + j
      <4>1. shown[j] = m[h]
        BY <2>3
      <4>2. h \in 1..M /\ N - M + h = N - k
        BY <3>3
      <4> HIDE DEF h
      <4>3. m[h] = a[N - M + h]
        BY <1>3, <4>2 DEF M
      <4> QED
        BY <4>1, <4>2, <4>3
    <3>5. k \in 0..(R - 1) /\ k < N
      BY <1>1, <1>2, <2>1
    <3> HIDE DEF k
    <3>6. s[n - k] = a[N - k]
      BY <1>0, <3>5
    <3> QED
      BY <3>2, <3>4, <3>6
  <2>6. b = shown
    BY <2>3, <2>4, <2>5, SeqEqual
  <2>7. ~(end < 0)
    BY <2>1
  <2> QED
    BY <1>5, <1>6, <2>6, <2>7 DEF b, rev, m
<1>9. hi \in Nat
  BY <1>1, <1>2
<1> QED
  BY <1>1, <1>7, <1>8, <1>9

\* Both stores show the same results on every page within the maximum that both
\* keep, whatever is deleted from the table and when
\* (getEndpointResultsByEndpointID and ShallowCopyEndpointStatus), unless two
\* inserts overlapped or a statement about events failed.
THEOREM StoresShowTheSame == Spec => []StoresAgree
<1>1. Init => Agreement
  <2> SUFFICES ASSUME Init PROVE Agreement
    OBVIOUS
  <2>1. memory.results = <<>> /\ accepted = {}
    BY DEF Init, NewStatus
  <2> QED
    BY <2>1, NothingInOrder DEF Agreement
<1>2. CacheInv /\ RowInv /\ Story /\ Agreement /\ [Next]_vars => Story' /\ Agreement'
  BY NextStory, NextAgreement
<1>3. RowInv /\ Agreement => StoresAgree
  <2> SUFFICES ASSUME RowInv, Agreement, ~gap, NEW p \in Pages, p[1] * p[2] <= MaxResults
               PROVE  ResultsPage(results, p) = PageOf(memory.results, p[1], p[2])
    BY DEF StoresAgree
  <2> DEFINE s == ById(results)
             a == ById(accepted)
  <2>1. RowTypes /\ Kept
    BY DEF RowInv
  <2>2. SameEnd(s, a, MaxResults)
    BY <2>1, SameNewest
  <2>3. memory.results = Newest(a, MaxResults)
    BY DEF Agreement
  <2>4. p[1] \in Nat \ {0} /\ p[2] \in Nat \ {0} /\ p = <<p[1], p[2]>>
    BY SQLAssumption
  <2>5. ResultsPage(results, p) = Reverse(Limited(Reverse(s), p))
    BY DEF ResultsPage
  <2> HIDE DEF s, a
  <2>6. Reverse(Limited(Reverse(s), <<p[1], p[2]>>)) = PageOf(Newest(a, MaxResults), p[1], p[2])
    <3> DEFINE page == p[1]
               size == p[2]
    <3>1. page \in Nat \ {0} /\ size \in Nat \ {0} /\ page * size <= MaxResults
      BY <2>4
    <3> HIDE DEF page, size
    <3>2. Reverse(Limited(Reverse(s), <<page, size>>)) = PageOf(Newest(a, MaxResults), page, size)
      BY <2>2, <3>1, Limits, SamePage
    <3> QED
      BY <3>2 DEF page, size
  <2> QED
    BY <2>3, <2>4, <2>5, <2>6
<1> QED
  BY <1>1, <1>2, <1>3, InitStory, RowsAreConsistent, PTL DEF Spec
=============================================================================
