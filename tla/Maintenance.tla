---------------------------- MODULE Maintenance ----------------------------
(***************************************************************************)
(* maintenance.Config: a window that begins at a time of day and lasts up to *)
(* a day, on the days it is scheduled for.  Time is counted in minutes of    *)
(* the time zone of the window, from a midnight at which day 0 begins; the   *)
(* days of the week are the remainders modulo Week.                          *)
(*                                                                           *)
(* The windows of some owners are never validated: they are used as the file *)
(* has them, in the local time of the process, with the zero value for the   *)
(* start that the validation would have parsed.                              *)
(***************************************************************************)
EXTENDS Integers

CONSTANTS
  HoursADay,     \* 24
  MinutesAnHour, \* 60
  Week           \* 7

ASSUME CalendarAssumption ==
  HoursADay \in Nat \ {0} /\ MinutesAnHour \in Nat \ {0} /\ Week \in Nat \ {0}

VARIABLE config   \* the maintenance that was configured

Day == HoursADay * MinutesAnHour
Weekdays == 0..(Week - 1)

\* Whose window it is: that of the whole configuration, or of an endpoint.
Owners == {"global", "endpoint", "dns", "ssh", "external"}

\* Endpoint.ValidateAndSetDefaults returns before it comes to the windows when
\* there is a section dns or ssh; that of external endpoints has none of it.
Validated(file) == file.owner \in {"global", "endpoint"}

\* What the file may say: the start as hours and minutes, the duration in
\* minutes, and the days of the week, all of them when none is named.  The name
\* Week is that of no day.
Files == [owner : Owners, start : (-1..HoursADay) \X (-1..MinutesAnHour),
          duration : -1..(Day + 1), every : SUBSET (0..Week)]

\* hhmmToDuration and ValidateAndSetDefaults.
Valid(file) ==
  /\ file.start[1] \in 0..(HoursADay - 1) /\ file.start[2] \in 0..(MinutesAnHour - 1)
  /\ file.duration \in 1..Day
  /\ file.every \subseteq Weekdays

Configured == config \in {file \in Files : Validated(file) => Valid(file)}

\* Config.durationToStartFromMidnight, which only the validation sets.
DurationToStart(file) ==
  IF Validated(file) THEN file.start[1] * MinutesAnHour + file.start[2] ELSE 0
-----------------------------------------------------------------------------
\* Mutant: the window is always looked for from today's midnight.
Today(file, now) == now \div Day

\* The day whose midnight counts: yesterday if the hour of the clock lies
\* before the hour of the start.  Minutes are not compared.
DayOfWindow(file, now) ==
  IF (now % Day) \div MinutesAnHour < DurationToStart(file) \div MinutesAnHour
  THEN (now \div Day) - 1
  ELSE now \div Day

IsUnderMaintenance(file, now) ==
  LET day == DayOfWindow(file, now)
      start == day * Day + DurationToStart(file)
  IN /\ file.every = {} \/ (day % Week) \in file.every
     /\ start < now /\ now < start + file.duration
-----------------------------------------------------------------------------
(* The reference: now lies within a window of some scheduled day.  A window that *)
(* is not validated is one from midnight to the end of the day at the latest.    *)

Opens(file, day) ==
  day * Day + (IF Validated(file) THEN file.start[1] * MinutesAnHour + file.start[2] ELSE 0)

Closes(file, day) ==
  Opens(file, day) + (IF file.duration > Day THEN Day ELSE file.duration)

InWindow(file, now) ==
  \E day \in (-1)..(now \div Day) :
    /\ file.every = {} \/ (day % Week) \in file.every
    /\ Opens(file, day) < now /\ now < Closes(file, day)

\* The minutes a window of more than a day less an hour loses at its end: those
\* of the hour it starts in, before it starts (maintenance.go, line 114).
Lost(file, now) ==
  /\ file.duration > (HoursADay - 1) * MinutesAnHour
  /\ (now % Day) \div MinutesAnHour = file.start[1]
  /\ now % Day < Opens(file, 0)

\* An endpoint is under maintenance exactly within the windows of the
\* scheduled days, past midnight and into the next week too, but for the
\* minutes the longest windows lose.  Windows of endpoints with a section dns or
\* ssh, and of external endpoints, start at midnight whatever their start says,
\* although IsUnderMaintenance must not be called before the validation
\* (maintenance.go, line 65).
UnderMaintenanceMatches ==
  \A now \in Day..((Week + 1) * Day) :
    /\ IsUnderMaintenance(config, now) => InWindow(config, now)
    /\ InWindow(config, now) =>
         IsUnderMaintenance(config, now) \/ (Validated(config) /\ Lost(config, now))
=============================================================================
