------------------------------- MODULE Uptime -------------------------------
(***************************************************************************)
(* The uptime entries of one endpoint: the rows of endpoint_uptimes in the   *)
(* storage on a database (updateEndpointUptime, the merge of hourly rows     *)
(* into daily ones and the clean-ups in Insert) and the hourly statistics of *)
(* the store in memory (processUptimeAfterResult).  Both are given the same  *)
(* executions and asked for the same windows of time.                        *)
(*                                                                           *)
(* Time is counted in halves of an hour.  An entry counts its executions:    *)
(* the successful ones and the response times are columns that every         *)
(* statement adds up in the same way.                                        *)
(***************************************************************************)
EXTENDS Integers, FiniteSets, FiniteSetsExt, Functions

CONSTANTS
  Day,             \* hours of a day
  HourlyBuffer,    \* uptimeHourlyBuffer, in days
  Retention,       \* uptimeRetention, in days
  AgeCleanUp,      \* uptimeAgeCleanUpThreshold and uptimeCleanUpThreshold, in days
  MergeThreshold,  \* uptimeTotalEntriesMergeThreshold
  Pauses,          \* steps of time, in halves of an hour
  PerHour,         \* bound: executions of an hour
  MaxTime,         \* bound: the time at which the model ends
  MaxFaults        \* bound: statements that fail

ASSUME UptimeAssumption ==
  /\ Day \in Nat /\ HourlyBuffer \in Nat /\ Retention \in Nat /\ AgeCleanUp \in Nat
  /\ 1 < Day /\ 0 < HourlyBuffer /\ HourlyBuffer < Retention /\ Retention < AgeCleanUp
  /\ MergeThreshold \in Nat /\ Pauses \subseteq Nat \ {0}
  /\ PerHour \in Nat /\ MaxTime \in Nat /\ MaxFaults \in Nat

VARIABLES
  now,
  rows,        \* endpoint_uptimes: from hour_unix_timestamp to total_executions
  statistics,  \* Uptime.HourlyStatistics: the same
  executions,  \* history: the executions of every hour
  faults,      \* statements that failed
  unfinished,  \* history: inserts in a row of which statements failed
  lost         \* history: a failed statement lost executions

vars == <<now, rows, statistics, executions, faults, unfinished, lost>>
-----------------------------------------------------------------------------
Hour == 2
HourOf(t) == t - (t % Hour)
DayOf(t) == t - (t % (Day * Hour))
Days(n) == n * Day * Hour

NoEntries == [h \in {} |-> 0]

Counted(entries, h) == IF h \in DOMAIN entries THEN entries[h] ELSE 0

\* INSERT ... ON CONFLICT DO UPDATE.
Upsert(entries, h) ==
  [k \in DOMAIN entries \union {h} |-> Counted(entries, k) + (IF k = h THEN 1 ELSE 0)]

Only(entries, S) == [h \in DOMAIN entries \intersect S |-> entries[h]]

Total(entries, S) == SumFunction(Only(entries, S))

Init ==
  /\ now \in {Days(AgeCleanUp), Days(AgeCleanUp) + 1}
  /\ rows = NoEntries /\ statistics = NoEntries /\ executions = NoEntries
  /\ faults = 0 /\ unfinished = 0 /\ lost = FALSE
-----------------------------------------------------------------------------
(* The storage on a database *)

\* Mutant: the entries of the days before today are merged.
FlooredToday == DayOf(now)

MinThreshold == DayOf(now - Days(HourlyBuffer))
MaxThreshold == now - Days(Retention)

\* Mutant: the entries of a day replace each other.
LastOfDay(entries, d, S) == entries[Max({h \in S : DayOf(h) = d})]

SumOfDay(entries, d, S) == Total(entries, {h \in S : DayOf(h) = d})

\* The rows after the merge, of whose daily rows some could not be inserted.
\* What is older than MaxThreshold is deleted with the hourly rows.
Merged(entries, missing) ==
  LET mergeable == {h \in DOMAIN entries : MaxThreshold <= h /\ h < MinThreshold}
      days == {DayOf(h) : h \in mergeable} \ missing
      recent == {h \in DOMAIN entries : h >= MinThreshold}
  IN [h \in recent \union days |->
        IF h \in recent THEN entries[h] ELSE SumOfDay(entries, h, mergeable)]

\* Mutant: only the age of the oldest row makes the rows be merged.
TooOld(entries) == DOMAIN entries # {} /\ now - Min(DOMAIN entries) > Days(AgeCleanUp)

TooMany(entries) == Cardinality(DOMAIN entries) >= MergeThreshold

\* Mutant: the clean-up keeps a day less than the retention.
YoungEnough(entries) == {h \in DOMAIN entries : h >= now - Days(Retention - 1)}

\* The entries that both clean-ups keep.
Retained(entries) == {h \in DOMAIN entries : h >= now - (Days(Retention) + Hour)}

\* deleteOldUptimeEntries, when the oldest row is above the threshold.
CleanedUp(entries) ==
  IF DOMAIN entries # {} /\ now - Min(DOMAIN entries) > Days(AgeCleanUp)
  THEN Only(entries, Retained(entries))
  ELSE entries

\* The part of Insert that follows the result.
InsertRow(h) ==
  LET upserted == Upsert(rows, h) IN
  /\ rows' = CleanedUp(IF TooMany(upserted) THEN Merged(upserted, {}) ELSE upserted)
  /\ unfinished' = 0
  /\ UNCHANGED <<faults, lost>>

\* Statements fail and are only logged: the row is not written; the rows are not
\* counted or read, so nothing is merged; the merge stops before or after it
\* deleted the hourly rows, with some of the daily ones; nothing is cleaned up.
\* Where a failing statement ends the transaction, all of them fail.
InsertRowFails(h) ==
  /\ faults < MaxFaults /\ faults' = faults + 1
  /\ unfinished' = unfinished + 1
  /\ \E inserted \in {rows, Upsert(rows, h)} :
       \/ /\ rows' \in {inserted, CleanedUp(inserted)}
          /\ lost' = (lost \/ inserted = rows)
       \/ /\ TooMany(inserted)
          /\ \E missing \in SUBSET {DayOf(k) : k \in DOMAIN inserted} :
               /\ rows' \in {Merged(inserted, missing), CleanedUp(Merged(inserted, missing))}
               /\ lost' = (lost \/ inserted = rows \/ missing # {})
-----------------------------------------------------------------------------
(* The store in memory *)

\* processUptimeAfterResult.
InsertStatistics(h) ==
  LET added == Upsert(statistics, h) IN
  statistics' = IF Cardinality(DOMAIN added) > AgeCleanUp * Day
                THEN Only(added, Retained(added)) ELSE added
-----------------------------------------------------------------------------
\* A result reaches the storage at once, or in the hour after its timestamp.
Insert(timestamp) ==
  LET h == HourOf(timestamp) IN
  /\ Counted(executions, h) < PerHour
  /\ executions' = Upsert(executions, h)
  /\ InsertRow(h) \/ InsertRowFails(h)
  /\ InsertStatistics(h)
  /\ UNCHANGED now

\* Time passes, and for long when the process was stopped.
Elapse(pause) ==
  /\ now + pause <= MaxTime
  /\ now' = now + pause
  /\ UNCHANGED <<rows, statistics, executions, faults, unfinished, lost>>

Next ==
  \/ \E timestamp \in {now, now - Hour} : Insert(timestamp)
  \/ \E pause \in Pauses : Elapse(pause)

Spec == Init /\ [][Next]_vars
-----------------------------------------------------------------------------
(* Properties *)

\* The rows that a window selects (getEndpointUptime and the like), and the
\* hours that the store in memory visits (GetUptimeByKey and the like).
RowsSince(from) == from..now

HoursSince(from) == HourOf(from)..now

\* Merging rows never changes what the badge of 24 hours shows (the comment on
\* the first full day in mergeHourlyUptimeEntries...IntoDailyUptimeEntries).
DayWindowIsExact ==
  LET window == RowsSince(now - Days(1))
  IN ~lost => Total(rows, window) = Total(executions, window)

\* A window of days within the retention counts nothing twice and nothing from
\* before it, and misses at most what belongs to the day in which it begins.
WindowsAreBracketed ==
  \A n \in 1..Retention :
    LET from == now - Days(n)
        total == Total(rows, RowsSince(from))
    IN /\ total <= Total(executions, RowsSince(from))
       /\ ~lost => total >= Total(executions, RowsSince(DayOf(from) + Days(1)))

\* The store in memory counts every execution of a window within the retention,
\* from the hour in which the window begins.
StatisticsAreExact ==
  \A n \in 1..Retention :
    LET from == now - Days(n)
    IN Total(statistics, HoursSince(from)) = Total(executions, HourOf(from)..now)

\* The entries stay bounded, although merging and deleting them waits for a
\* threshold: the rows at most by the threshold, or by the hours of the buffer
\* and of the day it is floored to and the days of the retention.  Inserts that
\* did not merge because a statement failed add a row each, and the next insert
\* of which none fails returns below the bound, however many they were.
EntriesAreBounded ==
  /\ Cardinality(DOMAIN rows) <=
       Max({MergeThreshold, (HourlyBuffer + 1) * Day + Retention - HourlyBuffer}) + unfinished
  /\ Cardinality(DOMAIN statistics) <= AgeCleanUp * Day
=============================================================================
