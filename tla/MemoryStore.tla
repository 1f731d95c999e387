----------------------------- MODULE MemoryStore -----------------------------
(***************************************************************************)
(* The results and events that the store in memory keeps of one endpoint     *)
(* (storage/store/memory: Insert, AddResult) and the pages it shows of them. *)
(* A status is [results, events]: the results in the order of their          *)
(* insertion, and the types of the events.  The hourly statistics that       *)
(* AddResult also updates are the subject of the module Uptime.              *)
(***************************************************************************)
EXTENDS Integers, Sequences

CONSTANTS
  MaxResults,     \* maximumNumberOfResults
  MaxEvents       \* maximumNumberOfEvents

\* storage.Config.ValidateAndSetDefaults replaces the values below one.
ASSUME StoreAssumption == MaxResults \in Nat \ {0} /\ MaxEvents \in Nat \ {0}

EventTypes == {"START", "HEALTHY", "UNHEALTHY"}

\* NewEventFromResult.
EventOf(success) == IF success THEN "HEALTHY" ELSE "UNHEALTHY"

Newest(s, n) == IF Len(s) > n THEN SubSeq(s, Len(s) - n + 1, Len(s)) ELSE s

\* The status that Insert creates for an endpoint it does not know.
NewStatus == [results |-> <<>>, events |-> <<"START">>]

\* Only an event that follows a change cuts the events, the first one does not.
EventsAfter(status, success, success0) ==
  IF status.results = <<>> THEN Append(status.events, EventOf(success))
  ELSE IF success0 = success THEN status.events
  ELSE Newest(Append(status.events, EventOf(success)), MaxEvents)

\* AddResult, where success0 is Success of the newest result of the status.
AddResult(status, result, success, success0) ==
  [results |-> Newest(Append(status.results, result), MaxResults),
   events |-> EventsAfter(status, success, success0)]

\* Mutant: page one is the oldest.
PageFromOldest(s, page, size) ==
  SubSeq(s, (page - 1) * size + 1, IF page * size > Len(s) THEN Len(s) ELSE page * size)

\* getStartAndEndIndex and the slice between them: page one is the newest.
PageOf(s, page, size) ==
  LET start == IF Len(s) - page * size < 0 THEN 0 ELSE Len(s) - page * size
      end == Len(s) - (page - 1) * size
  IN IF end < 0 THEN <<>> ELSE SubSeq(s, start + 1, end)
=============================================================================
