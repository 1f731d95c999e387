---------------------------- MODULE AlertingProofs ----------------------------
(***************************************************************************)
(* Theorems about Alerting, for every number of alerts, every set of alert   *)
(* lists and every bound.                                                    *)
(***************************************************************************)
EXTENDS Alerting, TLAPS

USE DEF Alerts, Counters, Ages, NoRow

LEMMA ConfigType ==
  ASSUME NEW c \in Configs, NEW i \in Alerts
  PROVE  /\ c[i] \in AlertConfig
         /\ c[i].checksum \in Checksums
         /\ c[i].enabled \in BOOLEAN
         /\ c[i].failureThreshold \in Counters \ {0}
         /\ c[i].successThreshold \in Counters \ {0}
         /\ c[i].minimumReminderInterval \in Ages
  <1>1. c \in [Alerts -> AlertConfig]  BY AlertingAssumption
  <1>2. c[i] \in AlertConfig  BY <1>1
  <1> QED  BY <1>2 DEF AlertConfig

LEMMA BumpType ==
  ASSUME NEW cap \in Nat, NEW n \in 0..cap
  PROVE  /\ Bump(n, cap) \in 0..cap
         /\ Bump(n, cap) >= n
  BY DEF Bump

LEMMA TypeInit == Init => TypeOK
  BY AlertingAssumption DEF Init, TypeOK, Phases

\* Every step keeps every variable in its type.
LEMMA TypeNext == TypeOK /\ [Next]_vars => TypeOK'
  <1> SUFFICES ASSUME TypeOK, [Next]_vars PROVE TypeOK'
    OBVIOUS
  <1> USE DEF TypeOK, Phases
  <1>a. /\ N \in Nat \ {0} /\ CounterCap \in Nat \ {0} /\ AgeCap \in Nat
        /\ MaxRestarts \in Nat
    BY AlertingAssumption
  <1> USE <1>a
  <1>b. /\ Bump(failures, CounterCap) \in Counters
        /\ Bump(successes, CounterCap) \in Counters
        /\ Bump(goodStreak, CounterCap) \in Counters
        /\ Bump(badStreak, CounterCap) \in Counters
        /\ Bump(sinceReminder, AgeCap) \in Ages
    BY BumpType
  <1>1. CASE UNCHANGED vars
    BY <1>1 DEF vars, memory, history
  <1>2. CASE Trigger
    <2>1. CASE BeginTrigger
      BY <2>1, <1>b DEF BeginTrigger
    <2>2. CASE SkipTrigger
      BY <2>2 DEF SkipTrigger, memory, history
    <2>3. CASE SendFails
      BY <2>3 DEF SendFails, memory, history
    <2>4. CASE TriggerDone
      BY <2>4 DEF TriggerDone, memory, history
    <2>5. ASSUME NEW i \in Alerts, Notify(i) PROVE TypeOK'
      BY <2>5 DEF Notify
    <2>6. ASSUME NEW ok \in Outcomes, Persist(ok) PROVE TypeOK'
      BY <2>6, ConfigType DEF Persist, Upserted, Checksum, memory
    <2> QED  BY <1>2, <2>1, <2>2, <2>3, <2>4, <2>5, <2>6 DEF Trigger
  <1>3. CASE Settle
    <2>1. CASE BeginResolve
      BY <2>1, <1>b DEF BeginResolve
    <2>2. CASE SkipResolve
      BY <2>2 DEF SkipResolve, memory, history
    <2>3. CASE ResolveDone
      BY <2>3 DEF ResolveDone
    <2>4. ASSUME NEW ok \in Outcomes, PersistSuccesses(ok) PROVE TypeOK'
      BY <2>4, ConfigType DEF PersistSuccesses, Upserted, Checksum, memory
    <2>5. ASSUME NEW ok \in Outcomes, Resolve(ok) PROVE TypeOK'
      BY <2>5, ConfigType DEF Resolve, Deleted, Checksum
    <2>6. ASSUME NEW ok \in BOOLEAN, Announce(ok) PROVE TypeOK'
      BY <2>6 DEF Announce, memory
    <2> QED  BY <1>3, <2>1, <2>2, <2>3, <2>4, <2>5, <2>6 DEF Settle
  <1>4. CASE Initialize
    <2>1. CASE Loaded
      BY <2>1 DEF Loaded, memory, history
    <2>2. ASSUME NEW ok \in Outcomes, Load(ok) PROVE TypeOK'
      <3>1. cursor \in Alerts  BY <2>2 DEF Load
      <3>2. /\ Checksum(cursor) \in Checksums
            /\ conf[cursor].failureThreshold \in Counters
        BY <3>1, ConfigType DEF Checksum
      <3>3. row[Checksum(cursor)] # NoRow => row[Checksum(cursor)] \in Counters
        BY <3>2
      <3>4. damaged' \subseteq Checksums
        BY <2>2, <3>2 DEF Load
      <3>5. /\ triggered' \in [Alerts -> BOOLEAN]
            /\ successes' \in Counters /\ failures' \in Counters
            /\ inherited' \subseteq {"successes", "failures"}
        BY <2>2, <3>1, <3>2, <3>3 DEF Load, Exists
      <3>6. cursor' \in 1..(N + 1) /\ phase' = "load" /\ UNCHANGED conf
        BY <2>2 DEF Load
      <3>7. UNCHANGED <<sinceReminder, row, restarts, open, told, goodStreak,
                        badStreak>>
        BY <2>2 DEF Load
      <3> QED  BY <3>4, <3>5, <3>6, <3>7
    <2>3. ASSUME NEW ok \in Outcomes, NEW c \in Configs, Start(c, ok)
          PROVE TypeOK'
      BY <2>3, ConfigType DEF Start, Cleaned, EnabledChecksums, Origins, Checksum, memory
    <2> QED  BY <1>4, <2>1, <2>2, <2>3 DEF Initialize
  <1>5. CASE Stop
    <2>1. /\ phase' = "down" /\ cursor' = 1
          /\ UNCHANGED <<conf, row, open, told, goodStreak, badStreak>>
          /\ successes' = 0 /\ failures' = 0 /\ sinceReminder' = AgeCap
          /\ triggered' = [i \in Alerts |-> FALSE] /\ inherited' = {}
      BY <1>5 DEF Stop
    <2>2. restarts' \in 0..MaxRestarts
      BY <1>5 DEF Stop
    <2>3. damaged' \subseteq Checksums
      <3>1. phase = "persist" => Checksum(cursor) \in Checksums
        BY ConfigType DEF Checksum
      <3> QED  BY <1>5, <3>1 DEF Stop
    <2> QED  BY <2>1, <2>2, <2>3
  <1>6. CASE Tick
    BY <1>6, <1>b DEF Tick
  <1> QED  BY <1>1, <1>2, <1>3, <1>4, <1>5, <1>6 DEF Next

\* The process never leaves its types: in particular the cursor of the two
\* loops over ep.Alerts is on an alert whenever a row is written or a resolved
\* notification is sent.
LEMMA TypeCorrect == Spec => []TypeOK
  <1> QED  BY TypeInit, TypeNext, PTL DEF Spec
-----------------------------------------------------------------------------
(* Rows, memory and incidents *)

\* What is known of the process in the middle of its steps: an alert whose row
\* is about to be written is triggered and has an incident, and a process that
\* is down, or has not loaded an alert yet, believes nothing of it.
Windows ==
  /\ phase = "persist" => triggered[cursor] /\ cursor \in open
  /\ phase = "down" => \A i \in Alerts : ~triggered[i]
  /\ phase = "load" => \A i \in Alerts : i >= cursor => ~triggered[i]

IncidentInv ==
  /\ TypeOK
  /\ Windows
  /\ RowsMatchIncidents
  /\ MemoryMatchesIncidents

LEMMA IncidentInit == Init => IncidentInv
  <1> SUFFICES ASSUME Init PROVE IncidentInv
    OBVIOUS
  <1>1. TypeOK  BY TypeInit
  <1> QED
    BY <1>1 DEF Init, IncidentInv, Windows, RowsMatchIncidents,
                MemoryMatchesIncidents

LEMMA DistinctNow ==
  ASSUME DistinctChecksums, TypeOK, NEW i \in Alerts, NEW j \in Alerts,
         Checksum(i) = Checksum(j)
  PROVE  i = j
  BY DEF DistinctChecksums, TypeOK, Checksum

\* A step that leaves the rows, the alerts and the incidents alone, and does not
\* leave the process in the middle of a load, disturbs nothing.
LEMMA IncidentFrame ==
  ASSUME IncidentInv, TypeOK',
         UNCHANGED <<conf, triggered, row, open, damaged>>,
         phase \notin {"persist", "down", "load"},
         phase' \notin {"persist", "down", "load"}
  PROVE  IncidentInv'
  <1> USE DEF IncidentInv
  <1>1. Windows'  BY DEF Windows
  <1>2. RowsMatchIncidents'  BY DEF RowsMatchIncidents, Checksum
  <1>3. MemoryMatchesIncidents'  BY DEF MemoryMatchesIncidents, Checksum
  <1> QED  BY <1>1, <1>2, <1>3

LEMMA IncidentNotify ==
  ASSUME IncidentInv, TypeOK', NEW i \in Alerts, Notify(i)
  PROVE  IncidentInv'
  <1> USE DEF IncidentInv
  <1>1. /\ phase = "trigger" /\ phase' = "persist" /\ cursor = i /\ cursor' = i
        /\ UNCHANGED <<conf, row, damaged>>
        /\ triggered' = [triggered EXCEPT ![i] = TRUE]
        /\ open' = open \union {i}
    BY DEF Notify
  <1>2. Windows'  BY <1>1 DEF Windows, TypeOK
  <1>3. RowsMatchIncidents'  BY <1>1 DEF RowsMatchIncidents, Checksum
  <1>4. MemoryMatchesIncidents'
    BY <1>1 DEF MemoryMatchesIncidents, Checksum, TypeOK
  <1> QED  BY <1>2, <1>3, <1>4

LEMMA IncidentPersist ==
  ASSUME DistinctChecksums, IncidentInv, TypeOK', NEW ok \in Outcomes, Persist(ok)
  PROVE  IncidentInv'
  <1> USE DEF IncidentInv
  <1>1. /\ phase = "persist" /\ phase' = "trigger" /\ cursor \in Alerts
        /\ UNCHANGED <<conf, triggered, open>>
        /\ row' = Upserted(Checksum(cursor), ok)
        /\ damaged' = IF ok THEN damaged \ {Checksum(cursor)}
                      ELSE damaged \union {Checksum(cursor)}
    BY DEF Persist, memory, TypeOK
  <1>2. triggered[cursor] /\ cursor \in open  BY <1>1 DEF Windows
  <1>3. Checksum(cursor) \in Checksums  BY <1>1, ConfigType DEF Checksum, TypeOK
  <1>4. Windows'  BY <1>1 DEF Windows
  <1>5. RowsMatchIncidents'
    <2>1. CASE ok
      <3>1. row' = [row EXCEPT ![Checksum(cursor)] = successes]
        BY <1>1, <2>1 DEF Upserted
      <3>2. row'[Checksum(cursor)] # NoRow  BY <3>1, <1>3 DEF TypeOK
      <3> QED
        BY <1>1, <1>2, <1>3, <2>1, <3>1, <3>2 DEF RowsMatchIncidents, Checksum, TypeOK
    <2>2. CASE ~ok
      <3>1. row' = row  BY <1>1, <2>2 DEF Upserted
      <3> QED  BY <1>1, <2>2, <3>1 DEF RowsMatchIncidents, Checksum
    <2> QED  BY <2>1, <2>2
  <1>6. MemoryMatchesIncidents'
    <2> SUFFICES ASSUME NEW i \in Alerts, Checksum(i) \notin damaged'
                 PROVE  triggered[i] <=> i \in open
      BY <1>1 DEF MemoryMatchesIncidents, Checksum
    <2>1. CASE Checksum(i) = Checksum(cursor)
      BY <1>1, <1>2, <2>1, DistinctNow
    <2>2. CASE Checksum(i) # Checksum(cursor)
      <3>1. Checksum(i) \notin damaged  BY <1>1, <2>2
      <3> QED  BY <1>1, <3>1 DEF MemoryMatchesIncidents
    <2> QED  BY <2>1, <2>2
  <1> QED  BY <1>4, <1>5, <1>6

LEMMA IncidentPersistSuccesses ==
  ASSUME DistinctChecksums, IncidentInv, TypeOK', NEW ok \in Outcomes,
         PersistSuccesses(ok)
  PROVE  IncidentInv'
  <1> USE DEF IncidentInv
  <1>1. /\ phase = "resolve" /\ phase' = "resolve" /\ cursor \in Alerts
        /\ UNCHANGED <<conf, triggered, open>>
        /\ row' = Upserted(Checksum(cursor), ok)
        /\ damaged' = IF ok /\ cursor \in open THEN damaged \ {Checksum(cursor)}
                      ELSE damaged
        /\ triggered[cursor]
    BY DEF PersistSuccesses, memory, TypeOK
  <1>2. Checksum(cursor) \in Checksums  BY <1>1, ConfigType DEF Checksum, TypeOK
  <1>3. Windows'  BY <1>1 DEF Windows
  <1>4. MemoryMatchesIncidents'
    <2> SUFFICES ASSUME NEW i \in Alerts, Checksum(i) \notin damaged'
                 PROVE  triggered[i] <=> i \in open
      BY <1>1 DEF MemoryMatchesIncidents, Checksum
    <2>1. CASE Checksum(i) \notin damaged
      BY <1>1, <2>1 DEF MemoryMatchesIncidents
    <2>2. CASE Checksum(i) \in damaged
      <3>1. cursor \in open /\ Checksum(i) = Checksum(cursor)
        BY <1>1, <2>2
      <3> QED  BY <1>1, <3>1, DistinctNow
    <2> QED  BY <2>1, <2>2
  <1>5. RowsMatchIncidents'
    <2> SUFFICES ASSUME NEW k \in Checksums, k \notin damaged'
                 PROVE  row'[k] # NoRow <=> \E i \in open : Checksum(i) = k
      BY <1>1 DEF RowsMatchIncidents, Checksum
    <2>1. CASE k # Checksum(cursor)
      <3>1. row'[k] = row[k] /\ k \notin damaged
        BY <1>1, <2>1 DEF Upserted, TypeOK
      <3> QED  BY <1>1, <3>1 DEF RowsMatchIncidents
    <2>2. CASE k = Checksum(cursor)
      <3>1. cursor \in open
        BY <1>1, <2>2 DEF MemoryMatchesIncidents
      <3>2. CASE ok
        <4>1. row'[k] = successes
          BY <1>1, <1>2, <2>2, <3>2 DEF Upserted, TypeOK
        <4>2. successes # NoRow  BY DEF TypeOK
        <4> QED  BY <2>2, <3>1, <4>1, <4>2
      <3>3. CASE ~ok
        <4>1. row' = row /\ k \notin damaged
          BY <1>1, <3>3 DEF Upserted
        <4> QED  BY <1>1, <4>1 DEF RowsMatchIncidents
      <3> QED  BY <3>2, <3>3
    <2> QED  BY <2>1, <2>2
  <1> QED  BY <1>3, <1>4, <1>5

LEMMA IncidentResolve ==
  ASSUME DistinctChecksums, IncidentInv, TypeOK', NEW ok \in Outcomes, Resolve(ok)
  PROVE  IncidentInv'
  <1> USE DEF IncidentInv
  <1>1. /\ phase = "resolve" /\ phase' = "announce" /\ cursor \in Alerts
        /\ UNCHANGED conf
        /\ triggered' = [triggered EXCEPT ![cursor] = FALSE]
        /\ open' = open \ {cursor}
        /\ row' = Deleted(Checksum(cursor), ok)
        /\ damaged' = IF ok THEN damaged \ {Checksum(cursor)}
                      ELSE damaged \union {Checksum(cursor)}
    BY DEF Resolve, TypeOK
  <1>2. Checksum(cursor) \in Checksums  BY <1>1, ConfigType DEF Checksum, TypeOK
  <1>3. Windows'  BY <1>1 DEF Windows
  <1>4. MemoryMatchesIncidents'
    <2> SUFFICES ASSUME NEW i \in Alerts, Checksum(i) \notin damaged'
                 PROVE  triggered'[i] <=> i \in open'
      BY <1>1 DEF MemoryMatchesIncidents, Checksum
    <2>1. CASE i = cursor
      BY <1>1, <2>1 DEF TypeOK
    <2>2. CASE i # cursor
      <3>1. Checksum(i) # Checksum(cursor)  BY <1>1, <2>2, DistinctNow
      <3>2. Checksum(i) \notin damaged  BY <1>1, <3>1
      <3> QED  BY <1>1, <2>2, <3>2 DEF MemoryMatchesIncidents, TypeOK
    <2> QED  BY <2>1, <2>2
  <1>5. RowsMatchIncidents'
    <2> SUFFICES ASSUME NEW k \in Checksums, k \notin damaged'
                 PROVE  row'[k] # NoRow <=> \E i \in open' : Checksum(i) = k
      BY <1>1 DEF RowsMatchIncidents, Checksum
    <2>1. CASE k # Checksum(cursor)
      <3>1. row'[k] = row[k] /\ k \notin damaged
        BY <1>1, <2>1 DEF Deleted, TypeOK
      <3> QED  BY <1>1, <2>1, <3>1 DEF RowsMatchIncidents
    <2>2. CASE k = Checksum(cursor)
      <3>1. ok  BY <1>1, <2>2
      <3>2. row'[k] = NoRow  BY <1>1, <1>2, <2>2, <3>1 DEF Deleted, TypeOK
      <3>3. \A i \in open' : Checksum(i) # k
        BY <1>1, <2>2, DistinctNow DEF TypeOK
      <3> QED  BY <3>2, <3>3
    <2> QED  BY <2>1, <2>2
  <1> QED  BY <1>3, <1>4, <1>5

LEMMA IncidentStart ==
  ASSUME DistinctChecksums, IncidentInv, TypeOK', NEW ok \in Outcomes,
         NEW c \in Configs, Start(c, ok)
  PROVE  IncidentInv'
  <1> USE DEF IncidentInv
  <1>1. /\ phase = "down" /\ phase' = "load" /\ cursor' = 1
        /\ conf' = c /\ UNCHANGED triggered
        /\ row' = Cleaned(EnabledChecksums(c), ok)
        /\ open' = {i \in Alerts : c[i].enabled /\ Origins(c, i) \intersect open # {}}
        /\ damaged' = IF ok THEN damaged \intersect EnabledChecksums(c)
                      ELSE damaged \union {k \in Checksums \ EnabledChecksums(c) :
                                             row[k] # NoRow}
    BY DEF Start, memory
  <1>2. Windows'  BY <1>1 DEF Windows
  <1>3. MemoryMatchesIncidents'  BY <1>1 DEF MemoryMatchesIncidents, TypeOK
  <1>4. ASSUME NEW k \in EnabledChecksums(c)
        PROVE  (\E i \in open' : c[i].checksum = k)
                 <=> \E j \in open : Checksum(j) = k
    <2>1. ASSUME NEW i \in open', c[i].checksum = k
          PROVE  \E j \in open : Checksum(j) = k
      BY <1>1, <2>1 DEF Origins
    <2>2. ASSUME NEW j \in open, Checksum(j) = k
          PROVE  \E i \in open' : c[i].checksum = k
      <3>1. PICK i \in Alerts : c[i].enabled /\ c[i].checksum = k
        BY DEF EnabledChecksums
      <3>2. j \in Alerts  BY DEF TypeOK
      <3>3. j \in Origins(c, i)
        BY <2>2, <3>1, <3>2, DistinctNow DEF Origins
      <3> QED  BY <1>1, <3>1, <3>3
    <2> QED  BY <2>1, <2>2
  <1>5. ASSUME NEW k \in Checksums, k \notin EnabledChecksums(c)
        PROVE  \A i \in open' : c[i].checksum # k
    BY <1>1, <1>5 DEF EnabledChecksums
  <1>6. RowsMatchIncidents'
    <2> SUFFICES ASSUME NEW k \in Checksums, k \notin damaged'
                 PROVE  row'[k] # NoRow <=> \E i \in open' : c[i].checksum = k
      BY <1>1 DEF RowsMatchIncidents, Checksum
    <2>1. CASE k \in EnabledChecksums(c)
      <3>1. row'[k] = row[k] /\ k \notin damaged
        BY <1>1, <2>1 DEF Cleaned
      <3> QED  BY <1>1, <1>4, <2>1, <3>1 DEF RowsMatchIncidents
    <2>2. CASE k \notin EnabledChecksums(c)
      <3>1. row'[k] = NoRow
        BY <1>1, <2>2 DEF Cleaned
      <3> QED  BY <1>5, <2>2, <3>1
    <2> QED  BY <2>1, <2>2
  <1> QED  BY <1>2, <1>3, <1>6

LEMMA IncidentLoad ==
  ASSUME DistinctChecksums, IncidentInv, TypeOK', NEW ok \in Outcomes, Load(ok)
  PROVE  IncidentInv'
  <1> USE DEF IncidentInv
  <1>1. /\ phase = "load" /\ phase' = "load" /\ cursor \in Alerts
        /\ cursor' = cursor + 1
        /\ UNCHANGED <<conf, row, open>>
        /\ triggered' = IF Exists(Checksum(cursor), ok)
                        THEN [triggered EXCEPT ![cursor] = TRUE] ELSE triggered
        /\ damaged' = IF ok \/ row[Checksum(cursor)] = NoRow THEN damaged
                      ELSE damaged \union {Checksum(cursor)}
    <2>1. UNCHANGED <<conf, row, open, phase>>  BY DEF Load
    <2>2. phase = "load" /\ cursor \in Alerts /\ cursor' = cursor + 1
      BY DEF Load, TypeOK
    <2>3. triggered' = IF Exists(Checksum(cursor), ok)
                        THEN [triggered EXCEPT ![cursor] = TRUE] ELSE triggered
      BY DEF Load
    <2>4. damaged' = IF ok \/ row[Checksum(cursor)] = NoRow THEN damaged
                      ELSE damaged \union {Checksum(cursor)}
      BY DEF Load
    <2> QED  BY <2>1, <2>2, <2>3, <2>4
  <1>2. Checksum(cursor) \in Checksums  BY <1>1, ConfigType DEF Checksum, TypeOK
  <1>3. \A i \in Alerts : i # cursor => triggered'[i] = triggered[i]
    BY <1>1 DEF TypeOK
  <1>4. triggered'[cursor] <=> ok /\ row[Checksum(cursor)] # NoRow
    BY <1>1 DEF Exists, Windows, TypeOK
  <1>5. Windows'
    BY <1>1, <1>3 DEF Windows, TypeOK
  <1>6. RowsMatchIncidents'
    BY <1>1 DEF RowsMatchIncidents, Checksum
  <1>7. MemoryMatchesIncidents'
    <2> SUFFICES ASSUME NEW i \in Alerts, ~(i >= cursor + 1),
                        Checksum(i) \notin damaged'
                 PROVE  triggered'[i] <=> i \in open
      BY <1>1 DEF MemoryMatchesIncidents, Checksum
    <2>0. Checksum(i) \notin damaged  BY <1>1
    <2>1. CASE i = cursor
      <3>1. row[Checksum(i)] # NoRow <=> i \in open
        <4>1. row[Checksum(i)] # NoRow
                <=> \E j \in open : Checksum(j) = Checksum(i)
          BY <1>1, <1>2, <2>0, <2>1 DEF RowsMatchIncidents
        <4>2. \A j \in open : Checksum(j) = Checksum(i) => j = i
          BY DistinctNow DEF TypeOK
        <4> QED  BY <4>1, <4>2
      <3>2. ok \/ row[Checksum(i)] = NoRow  BY <1>1, <2>1
      <3> QED  BY <1>4, <2>1, <3>1, <3>2
    <2>2. CASE i # cursor
      BY <1>1, <1>3, <2>0, <2>2 DEF MemoryMatchesIncidents, TypeOK
    <2> QED  BY <2>1, <2>2
  <1> QED  BY <1>5, <1>6, <1>7

LEMMA IncidentStop ==
  ASSUME DistinctChecksums, IncidentInv, TypeOK', Stop
  PROVE  IncidentInv'
  <1> USE DEF IncidentInv
  <1>1. /\ phase' = "down" /\ UNCHANGED <<conf, row, open>>
        /\ triggered' = [i \in Alerts |-> FALSE]
        /\ damaged' = IF phase = "persist" /\ row[Checksum(cursor)] = NoRow
                      THEN damaged \union {Checksum(cursor)} ELSE damaged
    BY DEF Stop
  <1>2. Windows'  BY <1>1 DEF Windows
  <1>3. MemoryMatchesIncidents'  BY <1>1 DEF MemoryMatchesIncidents
  <1>4. RowsMatchIncidents'
    BY <1>1 DEF RowsMatchIncidents, Windows, Checksum
  <1> QED  BY <1>2, <1>3, <1>4

LEMMA IncidentNext ==
  ASSUME DistinctChecksums, IncidentInv, [Next]_vars
  PROVE  IncidentInv'
  <1>0. TypeOK /\ TypeOK'  BY TypeNext DEF IncidentInv
  <1>1. CASE UNCHANGED vars
    BY <1>0, <1>1 DEF vars, memory, history, IncidentInv, Windows,
                 RowsMatchIncidents, MemoryMatchesIncidents, Checksum
  <1>2. CASE Trigger
    <2>1. CASE BeginTrigger
      BY <1>0, <2>1, IncidentFrame DEF BeginTrigger
    <2>2. CASE SkipTrigger
      BY <1>0, <2>2, IncidentFrame DEF SkipTrigger, memory, history
    <2>3. CASE SendFails
      BY <1>0, <2>3, IncidentFrame DEF SendFails, memory, history
    <2>4. CASE TriggerDone
      BY <1>0, <2>4, IncidentFrame DEF TriggerDone, memory, history
    <2> QED  BY <1>0, <1>2, <2>1, <2>2, <2>3, <2>4, IncidentNotify,
                IncidentPersist DEF Trigger
  <1>3. CASE Settle
    <2>1. CASE BeginResolve
      BY <1>0, <2>1, IncidentFrame DEF BeginResolve
    <2>2. CASE SkipResolve
      BY <1>0, <2>2, IncidentFrame DEF SkipResolve, memory, history
    <2>3. CASE ResolveDone
      BY <1>0, <2>3, IncidentFrame DEF ResolveDone
    <2>4. ASSUME NEW ok \in BOOLEAN, Announce(ok) PROVE IncidentInv'
      BY <1>0, <2>4, IncidentFrame DEF Announce, memory
    <2> QED  BY <1>0, <1>3, <2>1, <2>2, <2>3, <2>4, IncidentPersistSuccesses,
                IncidentResolve DEF Settle
  <1>4. CASE Initialize
    <2>1. CASE Loaded
      <3>1. /\ phase = "load" /\ cursor > N /\ phase' = "idle"
            /\ UNCHANGED <<conf, triggered, row, open, damaged>>
        BY <2>1 DEF Loaded, memory, history
      <3>2. Windows'  BY <3>1 DEF Windows
      <3>3. RowsMatchIncidents'
        BY <3>1 DEF IncidentInv, RowsMatchIncidents, Checksum
      <3>4. \A i \in Alerts : ~(i >= cursor)
        BY <1>0, <3>1, AlertingAssumption DEF TypeOK
      <3>5. MemoryMatchesIncidents'
        BY <3>1, <3>4 DEF IncidentInv, MemoryMatchesIncidents, Checksum
      <3> QED  BY <1>0, <3>2, <3>3, <3>5 DEF IncidentInv
    <2> QED  BY <1>0, <1>4, <2>1, IncidentLoad, IncidentStart DEF Initialize
  <1>5. CASE Stop
    BY <1>0, <1>5, IncidentStop
  <1>6. CASE Tick
    BY <1>0, <1>6, IncidentFrame DEF Tick
  <1> QED  BY <1>1, <1>2, <1>3, <1>4, <1>5, <1>6 DEF Next

LEMMA IncidentAlways ==
  ASSUME DistinctChecksums
  PROVE  Spec => []IncidentInv
  <1>1. Init => IncidentInv  BY IncidentInit
  <1>2. IncidentInv /\ [Next]_vars => IncidentInv'  BY IncidentNext
  <1> QED  BY <1>1, <1>2, PTL DEF Spec

\* For every alert list whose checksums differ, through every restart and every
\* edit of the configuration, the rows of the storage name the open incidents,
\* up to the recorded faults (UpsertTriggeredEndpointAlert,
\* DeleteTriggeredEndpointAlert).
THEOREM IncidentsSurviveRestarts ==
  ASSUME DistinctChecksums
  PROVE  Spec => []RowsMatchIncidents
  <1>1. IncidentInv => RowsMatchIncidents  BY DEF IncidentInv
  <1> QED  BY <1>1, IncidentAlways, PTL

\* Under the same assumption the alerts that the running process holds for
\* triggered are those with an open incident, once it has loaded them
\* (Alert.Triggered, initializeStorage).
THEOREM MemoryFollowsIncidents ==
  ASSUME DistinctChecksums
  PROVE  Spec => []MemoryMatchesIncidents
  <1>1. IncidentInv => MemoryMatchesIncidents  BY DEF IncidentInv
  <1> QED  BY <1>1, IncidentAlways, PTL
-----------------------------------------------------------------------------
(* Notifications and thresholds *)

\* The only steps that notify, and the only ones that close an incident.
LEMMA NotifyingStep ==
  ASSUME TypeOK, Next, phase = "trigger", phase' = "persist"
  PROVE  cursor \in Alerts /\ Notify(cursor)
  <1>1. CASE Trigger
    BY <1>1 DEF Trigger, BeginTrigger, SkipTrigger, SendFails, TriggerDone,
                Notify, Persist
  <1>2. ~Settle
    BY DEF Settle, BeginResolve, SkipResolve, ResolveDone, PersistSuccesses,
           Resolve, Announce
  <1>3. ~Initialize  BY DEF Initialize, Loaded, Load, Start
  <1>4. ~Stop /\ ~Tick  BY DEF Stop, Tick
  <1> QED  BY <1>1, <1>2, <1>3, <1>4 DEF Next

LEMMA ResolvingStep ==
  ASSUME TypeOK, Next, phase = "resolve", phase' = "announce"
  PROVE  cursor \in Alerts /\ \E ok \in Outcomes : Resolve(ok)
  <1>1. ~Trigger
    BY DEF Trigger, BeginTrigger, SkipTrigger, SendFails, TriggerDone, Notify, Persist
  <1>2. CASE Settle
    BY <1>2 DEF Settle, BeginResolve, SkipResolve, ResolveDone, PersistSuccesses,
                Resolve, Announce, TypeOK
  <1>3. ~Initialize  BY DEF Initialize, Loaded, Load, Start
  <1>4. ~Stop /\ ~Tick  BY DEF Stop, Tick
  <1> QED  BY <1>1, <1>2, <1>3, <1>4 DEF Next

\* A duplicate initial notification, or a resolved one nobody was told of, needs
\* a fault of the storage or a stop in the window before the write.
THEOREM NotificationsNotDuplicated ==
  ASSUME DistinctChecksums
  PROVE  Spec => NoDuplicateNotification
  <1> DEFINE Step ==
        /\ Initially /\ Checksum(cursor) \notin damaged => cursor \notin open
        /\ Resolving /\ Checksum(cursor) \notin damaged => cursor \in open
  <1>1. ASSUME IncidentInv, [Next]_vars PROVE [Step]_vars
    <2>1. CASE UNCHANGED vars  BY <2>1
    <2>2. CASE Next
      <3>1. ASSUME Initially, Checksum(cursor) \notin damaged
            PROVE  cursor \notin open
        <4>1. cursor \in Alerts
          BY <1>1, <2>2, <3>1, NotifyingStep DEF Initially, IncidentInv
        <4> QED
          BY <1>1, <3>1, <4>1 DEF IncidentInv, MemoryMatchesIncidents, Initially
      <3>2. ASSUME Resolving, Checksum(cursor) \notin damaged
            PROVE  cursor \in open
        <4>1. cursor \in Alerts /\ triggered[cursor]
          BY <1>1, <2>2, <3>2, ResolvingStep DEF Resolving, IncidentInv, Resolve
        <4> QED
          BY <1>1, <3>2, <4>1 DEF IncidentInv, MemoryMatchesIncidents, Resolving
      <3> QED  BY <3>1, <3>2
    <2> QED  BY <1>1, <2>1, <2>2
  <1>2. Init => IncidentInv  BY IncidentInit
  <1>3. IncidentInv /\ [Next]_vars => IncidentInv'  BY IncidentNext
  <1> QED  BY <1>1, <1>2, <1>3, PTL DEF Spec, NoDuplicateNotification

\* A counter that was not loaded from the storage is at most the number of
\* results of its kind handled in a row.  The number of failures is stale from
\* the first success until the loop over the alerts ends.
StreaksAreReal ==
  /\ "successes" \notin inherited => successes <= goodStreak
  /\ "failures" \notin inherited /\ phase \notin {"resolve", "announce"}
       => failures <= badStreak

LEMMA BumpMonotone ==
  ASSUME NEW cap \in Nat, NEW m \in 0..cap, NEW n \in 0..cap, m <= n
  PROVE  Bump(m, cap) <= Bump(n, cap)
  BY DEF Bump

LEMMA StreaksNext ==
  ASSUME TypeOK, StreaksAreReal, [Next]_vars
  PROVE  StreaksAreReal'
  <1>0. CounterCap \in Nat  BY AlertingAssumption
  <1>1. CASE UNCHANGED vars
    BY <1>1 DEF vars, memory, history, StreaksAreReal
  <1>2. CASE Trigger
    <2>1. CASE BeginTrigger
      <3>1. failures <= badStreak
              => Bump(failures, CounterCap) <= Bump(badStreak, CounterCap)
        BY <1>0, BumpMonotone DEF TypeOK
      <3>2. phase = "idle" /\ phase' = "trigger" /\ successes' = 0 /\ goodStreak' = 0
            /\ failures' = Bump(failures, CounterCap)
            /\ badStreak' = Bump(badStreak, CounterCap)
            /\ inherited' = inherited \ {"successes"}
        BY <2>1 DEF BeginTrigger
      <3> QED  BY <3>1, <3>2 DEF StreaksAreReal
    <2>2. CASE SkipTrigger \/ SendFails \/ TriggerDone
      BY <2>2 DEF SkipTrigger, SendFails, TriggerDone, memory, history, StreaksAreReal
    <2>3. ASSUME NEW i \in Alerts, Notify(i) PROVE StreaksAreReal'
      BY <2>3 DEF Notify, StreaksAreReal
    <2>4. ASSUME NEW ok \in Outcomes, Persist(ok) PROVE StreaksAreReal'
      BY <2>4 DEF Persist, memory, StreaksAreReal
    <2> QED  BY <1>2, <2>1, <2>2, <2>3, <2>4 DEF Trigger
  <1>3. CASE Settle
    <2>1. CASE BeginResolve
      <3>1. successes <= goodStreak
              => Bump(successes, CounterCap) <= Bump(goodStreak, CounterCap)
        BY <1>0, BumpMonotone DEF TypeOK
      <3>2. phase' = "resolve" /\ successes' = Bump(successes, CounterCap)
            /\ goodStreak' = Bump(goodStreak, CounterCap)
            /\ inherited' = inherited
        BY <2>1 DEF BeginResolve
      <3> QED  BY <3>1, <3>2 DEF StreaksAreReal
    <2>2. CASE SkipResolve
      BY <2>2 DEF SkipResolve, memory, history, StreaksAreReal
    <2>3. CASE ResolveDone
      BY <2>3 DEF ResolveDone, StreaksAreReal, TypeOK
    <2>4. ASSUME NEW ok \in Outcomes, PersistSuccesses(ok) PROVE StreaksAreReal'
      BY <2>4 DEF PersistSuccesses, memory, StreaksAreReal
    <2>5. ASSUME NEW ok \in Outcomes, Resolve(ok) PROVE StreaksAreReal'
      BY <2>5 DEF Resolve, StreaksAreReal
    <2>6. ASSUME NEW ok \in BOOLEAN, Announce(ok) PROVE StreaksAreReal'
      BY <2>6 DEF Announce, memory, StreaksAreReal
    <2> QED  BY <1>3, <2>1, <2>2, <2>3, <2>4, <2>5, <2>6 DEF Settle
  <1>4. CASE Initialize
    <2>1. CASE Loaded
      BY <2>1 DEF Loaded, memory, history, StreaksAreReal
    <2>2. ASSUME NEW ok \in Outcomes, Load(ok) PROVE StreaksAreReal'
      BY <2>2 DEF Load, StreaksAreReal
    <2>3. ASSUME NEW ok \in Outcomes, NEW c \in Configs, Start(c, ok)
          PROVE  StreaksAreReal'
      BY <2>3 DEF Start, memory, StreaksAreReal
    <2> QED  BY <1>4, <2>1, <2>2, <2>3 DEF Initialize
  <1>5. CASE Stop
    BY <1>5 DEF Stop, StreaksAreReal, TypeOK
  <1>6. CASE Tick
    BY <1>6 DEF Tick, StreaksAreReal
  <1> QED  BY <1>1, <1>2, <1>3, <1>4, <1>5, <1>6 DEF Next

\* In a process that counted for itself, thresholds are thresholds on results
\* that were really handled in a row.
THEOREM ThresholdsAreCounted == Spec => CountedThresholds
  <1> DEFINE Step ==
        /\ Initially /\ "failures" \notin inherited
             => badStreak >= conf[cursor].failureThreshold
        /\ Resolving /\ "successes" \notin inherited
             => goodStreak >= conf[cursor].successThreshold
  <1>1. ASSUME TypeOK, StreaksAreReal, [Next]_vars PROVE [Step]_vars
    <2>1. CASE UNCHANGED vars  BY <2>1
    <2>2. CASE Next
      <3>1. ASSUME Initially, "failures" \notin inherited
            PROVE  badStreak >= conf[cursor].failureThreshold
        <4>1. cursor \in Alerts /\ Notify(cursor)
          BY <1>1, <2>2, <3>1, NotifyingStep DEF Initially
        <4>2. failures >= conf[cursor].failureThreshold
          BY <4>1 DEF Notify, Due, SendInitial, SendReminder, PastFailureThreshold
        <4>3. failures <= badStreak
          BY <1>1, <3>1 DEF StreaksAreReal, Initially
        <4>4. conf[cursor].failureThreshold \in Counters
          BY <1>1, <4>1, ConfigType DEF TypeOK
        <4> QED  BY <1>1, <4>2, <4>3, <4>4 DEF TypeOK
      <3>2. ASSUME Resolving, "successes" \notin inherited
            PROVE  goodStreak >= conf[cursor].successThreshold
        <4>1. cursor \in Alerts /\ \E ok \in Outcomes : Resolve(ok)
          BY <1>1, <2>2, <3>2, ResolvingStep DEF Resolving
        <4>2. ~(conf[cursor].successThreshold > successes)
          BY <4>1 DEF Resolve, IsStillBelowSuccessThreshold
        <4>3. successes <= goodStreak
          BY <1>1, <3>2 DEF StreaksAreReal
        <4>4. conf[cursor].successThreshold \in Counters
          BY <1>1, <4>1, ConfigType DEF TypeOK
        <4> QED  BY <1>1, <4>2, <4>3, <4>4 DEF TypeOK
      <3> QED  BY <3>1, <3>2
    <2> QED  BY <1>1, <2>1, <2>2
  <1>2. Init => TypeOK /\ StreaksAreReal
    BY TypeInit DEF Init, StreaksAreReal
  <1>3. TypeOK /\ StreaksAreReal /\ [Next]_vars => (TypeOK /\ StreaksAreReal)'
    BY TypeNext, StreaksNext
  <1> QED  BY <1>1, <1>2, <1>3, PTL DEF Spec, CountedThresholds
-----------------------------------------------------------------------------
(* Alerting implements Incidents *)

\* No operation of the storage fails, the process does not stop between a
\* notification and the write of its row, and the configuration is not edited.
Undisturbed ==
  /\ DistinctChecksums
  /\ StoreFaults = FALSE
  /\ "persist" \notin CrashPhases
  /\ \A c, d \in Configs : c = d

Reported == {"initial", "reminder"}

RefinementInv ==
  /\ IncidentInv
  /\ damaged = {}
  /\ \A i \in open : Enabled(i) /\ told[i] \in Reported
  /\ phase = "announce" => cursor \notin open /\ told[cursor] \in Reported

LEMMA KnownIsOpen ==
  ASSUME DistinctChecksums, RefinementInv
  PROVE  Known = open
  <1>1. open \subseteq Alerts  BY DEF RefinementInv, IncidentInv, TypeOK
  <1>2. ASSUME NEW i \in Alerts PROVE i \in Known <=> i \in open
    <2>1. CASE phase = "down" \/ (phase = "load" /\ i >= cursor)
      <3>1. i \in Known <=> row[Checksum(i)] # NoRow
        BY <2>1 DEF Known
      <3>2. Checksum(i) \in Checksums
        BY ConfigType DEF Checksum, RefinementInv, IncidentInv, TypeOK
      <3>3. row[Checksum(i)] # NoRow <=> \E j \in open : Checksum(j) = Checksum(i)
        BY <2>1, <3>2 DEF RefinementInv, IncidentInv, RowsMatchIncidents
      <3>4. \A j \in open : Checksum(j) = Checksum(i) => j = i
        BY <1>1, DistinctNow DEF RefinementInv, IncidentInv
      <3> QED  BY <3>1, <3>3, <3>4
    <2>2. CASE ~(phase = "down" \/ (phase = "load" /\ i >= cursor))
      <3>1. i \in Known <=> triggered[i]  BY <2>2 DEF Known
      <3>2. triggered[i] <=> i \in open
        BY <2>2 DEF RefinementInv, IncidentInv, MemoryMatchesIncidents
      <3> QED  BY <3>1, <3>2
    <2> QED  BY <2>1, <2>2
  <1>3. Known \subseteq Alerts  BY DEF Known
  <1> QED  BY <1>1, <1>2, <1>3

\* What a step does to the incidents and to the last notifications.
IncidentStep ==
  \/ UNCHANGED <<open, told>>
  \/ \E a \in Alerts :
       \/ /\ a \notin open /\ open' = open \union {a}
          /\ told' = [told EXCEPT ![a] = "initial"]
       \/ /\ a \in open /\ open' = open
          /\ told' = [told EXCEPT ![a] = "reminder"]
       \/ /\ a \in open /\ open' = open \ {a} /\ told' = told
       \/ /\ a \notin open /\ open' = open /\ told[a] \in Reported
          /\ told' = [told EXCEPT ![a] = "resolved"]

LEMMA RefinementNext ==
  ASSUME Undisturbed, RefinementInv, [Next]_vars
  PROVE  RefinementInv' /\ IncidentStep
  <1> USE DEF RefinementInv
  <1>0. /\ TypeOK /\ TypeOK' /\ IncidentInv /\ IncidentInv'
        /\ Outcomes = {TRUE}
    BY IncidentNext, TypeNext DEF IncidentInv, Undisturbed, Outcomes
  <1>1. CASE UNCHANGED vars
    BY <1>0, <1>1 DEF vars, memory, history, Enabled, IncidentStep
  <1>2. CASE Trigger
    <2>1. CASE BeginTrigger \/ SkipTrigger \/ SendFails \/ TriggerDone
      <3>1. /\ UNCHANGED <<conf, open, told, damaged>>
            /\ phase' \in {"trigger", "idle"}
        BY <2>1 DEF BeginTrigger, SkipTrigger, SendFails, TriggerDone, memory, history
      <3> QED  BY <1>0, <3>1 DEF Enabled, IncidentStep
    <2>2. ASSUME NEW i \in Alerts, Notify(i) PROVE RefinementInv' /\ IncidentStep
      <3>1. /\ UNCHANGED <<conf, damaged>> /\ phase' = "persist" /\ phase = "trigger"
            /\ Enabled(i)
            /\ open' = open \union {i}
            /\ told' = [told EXCEPT ![i] = IF triggered[i] THEN "reminder"
                                           ELSE "initial"]
        BY <2>2 DEF Notify, Due, SendInitial, SendReminder, PastFailureThreshold
      <3>2. triggered[i] <=> i \in open
        BY <1>0, <3>1 DEF IncidentInv, MemoryMatchesIncidents
      <3>3. \A j \in open' : Enabled(j)' /\ told'[j] \in Reported
        BY <1>0, <3>1 DEF Enabled, Reported, TypeOK
      <3>4. IncidentStep
        <4>1. CASE triggered[i]
          BY <3>1, <3>2, <4>1 DEF IncidentStep
        <4>2. CASE ~triggered[i]
          BY <3>1, <3>2, <4>2 DEF IncidentStep
        <4> QED  BY <4>1, <4>2
      <3> QED  BY <1>0, <3>1, <3>3, <3>4
    <2>3. ASSUME NEW ok \in Outcomes, Persist(ok) PROVE RefinementInv' /\ IncidentStep
      <3>1. /\ UNCHANGED <<conf, open, told>> /\ phase' = "trigger"
            /\ damaged' = damaged \ {Checksum(cursor)}
        BY <1>0, <2>3 DEF Persist, memory
      <3> QED  BY <1>0, <3>1 DEF Enabled, IncidentStep
    <2> QED  BY <1>2, <2>1, <2>2, <2>3 DEF Trigger
  <1>3. CASE Settle
    <2>1. CASE BeginResolve \/ SkipResolve \/ ResolveDone
      <3>1. /\ UNCHANGED <<conf, open, told, damaged>>
            /\ phase' \in {"resolve", "idle"}
        BY <2>1 DEF BeginResolve, SkipResolve, ResolveDone, memory, history
      <3> QED  BY <1>0, <3>1 DEF Enabled, IncidentStep
    <2>2. ASSUME NEW ok \in Outcomes, PersistSuccesses(ok)
          PROVE  RefinementInv' /\ IncidentStep
      <3>1. /\ UNCHANGED <<conf, open, told>> /\ phase' = "resolve"
            /\ damaged' \subseteq damaged
        BY <2>2 DEF PersistSuccesses, memory
      <3> QED  BY <1>0, <3>1 DEF Enabled, IncidentStep
    <2>3. ASSUME NEW ok \in Outcomes, Resolve(ok) PROVE RefinementInv' /\ IncidentStep
      <3>1. /\ UNCHANGED <<conf, told, cursor>> /\ cursor \in Alerts
            /\ phase = "resolve" /\ phase' = "announce" /\ triggered[cursor]
            /\ open' = open \ {cursor}
            /\ damaged' = damaged \ {Checksum(cursor)}
        BY <1>0, <2>3 DEF Resolve, TypeOK
      <3>2. cursor \in open
        BY <1>0, <3>1 DEF IncidentInv, MemoryMatchesIncidents
      <3> QED  BY <1>0, <3>1, <3>2 DEF Enabled, IncidentStep
    <2>4. ASSUME NEW ok \in BOOLEAN, Announce(ok) PROVE RefinementInv' /\ IncidentStep
      <3>1. /\ UNCHANGED <<conf, open, damaged>> /\ cursor \in Alerts
            /\ phase = "announce" /\ phase' = "resolve"
            /\ told' = told \/ told' = [told EXCEPT ![cursor] = "resolved"]
        BY <1>0, <2>4 DEF Announce, TypeOK
      <3>2. cursor \notin open /\ told[cursor] \in Reported  BY <3>1
      <3>3. \A j \in open : told'[j] = told[j]
        BY <1>0, <3>1, <3>2 DEF TypeOK
      <3> QED  BY <1>0, <3>1, <3>2, <3>3 DEF Enabled, IncidentStep
    <2> QED  BY <1>3, <2>1, <2>2, <2>3, <2>4 DEF Settle
  <1>4. CASE Initialize
    <2>1. CASE Loaded
      <3>1. UNCHANGED <<conf, open, told, damaged>> /\ phase' = "idle"
        BY <2>1 DEF Loaded, memory, history
      <3> QED  BY <1>0, <3>1 DEF Enabled, IncidentStep
    <2>2. ASSUME NEW ok \in Outcomes, Load(ok) PROVE RefinementInv' /\ IncidentStep
      <3>1. UNCHANGED <<conf, open, told, damaged>> /\ phase' = "load"
        BY <1>0, <2>2 DEF Load
      <3> QED  BY <1>0, <3>1 DEF Enabled, IncidentStep
    <2>3. ASSUME NEW ok \in Outcomes, NEW c \in Configs, Start(c, ok)
          PROVE  RefinementInv' /\ IncidentStep
      <3>1. c = conf  BY <1>0 DEF Undisturbed, TypeOK
      <3>2. \A i \in Alerts : Origins(c, i) = {i}
        BY <3>1 DEF Origins, Checksum
      <3>3. /\ conf' = conf /\ phase' = "load"
            /\ open' = {i \in Alerts : c[i].enabled /\ Origins(c, i) \intersect open # {}}
            /\ damaged' = {}
            /\ told' = [i \in Alerts |-> IF Origins(c, i) = {} THEN "nothing"
                               ELSE told[CHOOSE j \in Origins(c, i) : TRUE]]
        BY <1>0, <2>3, <3>1 DEF Start
      <3>4. open' = open
        <4>1. \A i \in open : i \in Alerts /\ c[i].enabled
          BY <1>0, <3>1 DEF Enabled, TypeOK
        <4>2. \A i \in Alerts : Origins(c, i) \intersect open # {} <=> i \in open
          BY <3>2
        <4>3. open' = {i \in Alerts : c[i].enabled /\ i \in open}
          BY <3>3, <4>2
        <4> QED  BY <4>1, <4>3
      <3>5. told' = told
        <4>1. \A i \in Alerts : (CHOOSE j \in Origins(c, i) : TRUE) = i
          BY <3>2
        <4> QED  BY <1>0, <3>2, <3>3, <4>1 DEF TypeOK
      <3> QED  BY <1>0, <3>3, <3>4, <3>5 DEF Enabled, IncidentStep
    <2> QED  BY <1>4, <2>1, <2>2, <2>3 DEF Initialize
  <1>5. CASE Stop
    <2>1. /\ UNCHANGED <<conf, open, told, damaged>> /\ phase' = "down"
      BY <1>5 DEF Stop, Undisturbed
    <2> QED  BY <1>0, <2>1 DEF Enabled, IncidentStep
  <1>6. CASE Tick
    <2>1. UNCHANGED <<conf, open, told, damaged>> /\ phase' = "idle"
      BY <1>6 DEF Tick
    <2> QED  BY <1>0, <2>1 DEF Enabled, IncidentStep
  <1> QED  BY <1>1, <1>2, <1>3, <1>4, <1>5, <1>6 DEF Next

\* Whatever the thresholds, and however often the process restarts, the alerts
\* of an endpoint open, remind and close their incidents as Incidents promises:
\* a restart is invisible to the people Gatus notifies.
THEOREM RestartsAreInvisible ==
  ASSUME Undisturbed
  PROVE  Spec => ImplementsIncidents
  <1>1. Init => RefinementInv
    BY IncidentInit DEF RefinementInv, Init
  <1>2. RefinementInv /\ [Next]_vars => RefinementInv'
    BY RefinementNext
  <1>3. RefinementInv => Known = open
    BY KnownIsOpen DEF Undisturbed
  <1>4. Init => Promise!Init
    BY <1>1, <1>3 DEF Init, Promise!Init
  <1>5. RefinementInv /\ Known = open /\ (Known = open)' /\ [Next]_vars
          => [Promise!Next]_<<Known, told>>
    <2> SUFFICES ASSUME RefinementInv, Known = open, (Known = open)', [Next]_vars
                 PROVE  [Promise!Next]_<<Known, told>>
      OBVIOUS
    <2>1. Known = open /\ Known' = open'
      OBVIOUS
    <2>2. IncidentStep  BY RefinementNext
    <2> QED
      BY <2>1, <2>2 DEF IncidentStep, RefinementInv, Reported, Promise!Next,
         Promise!Raise, Promise!Remind, Promise!Settle, Promise!Announce
  <1> QED  BY <1>1, <1>2, <1>4, <1>5, <1>3, PTL
      DEF Spec, ImplementsIncidents, Promise!Spec
=============================================================================
