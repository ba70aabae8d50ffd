--------------------------- MODULE SlaCalculator ---------------------------
(***************************************************************************)
(* sla-calculator.ts: the deadlines of a work order, walked over the       *)
(* working time of a calendar, shift by shift and day by day.              *)
(*                                                                         *)
(* Instants and local times are counted in ticks, DayLength of them a day; *)
(* a local time l is tick l % DayLength of the date l \div DayLength.  The *)
(* last tick of a day stands for 23:59:59.999, which no shift reaches.     *)
(* A zone has an offset until the instant "at" and another from it on.     *)
(***************************************************************************)
EXTENDS Integers, FiniteSets

CONSTANTS DayLength,
          Zones,      \* [at, before, after]
          SlaCalendars,  \* [shifts, holidays]: shifts [days, start, end] and dates
          StartAts,   \* instants a work order is opened or reopened at
          Policies    \* [response, resolution, warning]: minutes of a policy, in ticks

Shift == [days : SUBSET (0..6), start : 0..DayLength - 2, end : 0..DayLength - 2]

\* What parseConfiguredShifts and assertShiftRange let through; the durations of a policy
\* are those of validateSlaDurations.
WellFormed(shifts) ==
  /\ \A s \in shifts : s.start < s.end /\ s.days # {}
  /\ \A s, t \in shifts : s # t /\ s.days \cap t.days # {} => s.end <= t.start \/ t.end <= s.start

ASSUME CalendarsAreValid ==
  /\ DayLength \in Nat /\ DayLength > 2 /\ StartAts \subseteq Nat
  /\ Policies \subseteq [response : Nat \ {0}, resolution : Nat, warning : Nat]
  /\ \A p \in Policies : p.response <= p.resolution /\ p.warning <= p.resolution
  /\ \A c \in SlaCalendars : c.shifts \subseteq Shift /\ c.shifts # {} /\ WellFormed(c.shifts)

\* A clock is put back by at most a day, and put forward within a date: it skips no
\* midnight along with the minutes before it, as those of the zones in use.
ASSUME ZonesAreValid ==
  \A z \in Zones :
    /\ z.at \in Int /\ z.before \in Int /\ z.after \in Int
    /\ z.before - z.after <= DayLength
    /\ z.before < z.after => (z.at + z.before) \div DayLength = (z.at + z.after - 1) \div DayLength

VARIABLES
  zone, slaCalendar, timeMode,  \* the calendar of the policy
  startAt,
  slaPolicy,
  result,          \* result[d]: the deadline d computed so far
  walk             \* the loop of moveThroughBusinessTime

slaVars == <<zone, slaCalendar, timeMode, startAt, slaPolicy, result, walk>>

Unknown == -1
NotWalking == [for |-> "nothing"]
DeadlineNames == {"response", "resolution", "warning"}

-----------------------------------------------------------------------------
(* Time zones.                                                             *)

Offset(instant) == IF instant < zone.at THEN zone.before ELSE zone.after
Local(instant) == instant + Offset(instant)
LocalDate(instant) == Local(instant) \div DayLength
Weekday(date) == date % 7

\* zonedDateTimeToUtc: six times, the error of a candidate is added to it, which
\* leaves the desired time less the offset at the candidate.
ToUtc(date, clock) ==
  LET desired == date * DayLength + clock
      candidate[i \in 0..6] == IF i = 0 THEN desired ELSE desired - Offset(candidate[i - 1])
  IN candidate[6]

Largest(a, b) == IF a >= b THEN a ELSE b
Smallest(a, b) == IF a <= b THEN a ELSE b

-----------------------------------------------------------------------------
(* moveThroughBusinessTime.                                                *)

\* Mutant: a holiday is worked.
ShiftsOnHolidaysToo(date) == {s \in slaCalendar.shifts : Weekday(date) \in s.days}

ShiftsOf(date) ==
  IF date \in slaCalendar.holidays THEN {} ELSE {s \in slaCalendar.shifts : Weekday(date) \in s.days}

\* Mutant: a walk backwards takes the shifts of a day in their order.
ComesFirstOfDay(s, shifts, direction) == \A t \in shifts : s.start <= t.start

\* The first of some shifts in the direction of the walk.
ComesFirst(s, shifts, direction) ==
  \A t \in shifts : IF direction = 1 THEN s.start <= t.start ELSE s.start >= t.start

Walk(for, direction, from, ticks) ==
  [for |-> for, direction |-> direction, remaining |-> ticks, cursor |-> from,
   date |-> LocalDate(from), shifts |-> ShiftsOf(LocalDate(from))]

Usable(w, s) ==
  LET start == ToUtc(w.date, s.start)
      end == ToUtc(w.date, s.end)
  IN IF w.direction = 1 THEN [start |-> Largest(w.cursor, start), end |-> end]
                        ELSE [start |-> start, end |-> Smallest(w.cursor, end)]

Available(u) == Largest(0, u.end - u.start)

Answer(w, instant) ==
  /\ result' = [result EXCEPT ![w.for] = instant]
  /\ walk' = NotWalking

TakeShift ==
  /\ walk # NotWalking
  /\ \E s \in walk.shifts :
       LET u == Usable(walk, s) IN
       /\ ComesFirst(s, walk.shifts, walk.direction)
       /\ \/ /\ walk.remaining <= Available(u)
             /\ Answer(walk, IF walk.direction = 1 THEN u.start + walk.remaining
                                                   ELSE u.end - walk.remaining)
          \/ /\ walk.remaining > Available(u)
             /\ walk' = [walk EXCEPT !.remaining = @ - Available(u), !.shifts = @ \ {s}]
             /\ UNCHANGED result
  /\ UNCHANGED <<zone, slaCalendar, timeMode, startAt, slaPolicy>>

\* The edge of a day that the walk enters it by.
EdgeOf(w, date) == ToUtc(date, IF w.direction = 1 THEN 0 ELSE DayLength - 1)

NextDay ==
  /\ walk # NotWalking
  /\ walk.shifts = {}
  /\ LET date == walk.date + walk.direction IN
     walk' = [walk EXCEPT !.date = date, !.shifts = ShiftsOf(date), !.cursor = EdgeOf(walk, date)]
  /\ UNCHANGED <<zone, slaCalendar, timeMode, startAt, slaPolicy, result>>

-----------------------------------------------------------------------------
(* addSlaMinutes, subtractSlaMinutes: plain arithmetic for no duration or  *)
(* around the clock.                                                       *)

Move(for, direction, from, ticks) ==
  IF timeMode = "CALENDAR" \/ ticks = 0
  THEN result' = [result EXCEPT ![for] = from + direction * ticks] /\ UNCHANGED walk
  ELSE walk' = Walk(for, direction, from, ticks) /\ UNCHANGED result

warningOffset == Smallest(slaPolicy.warning, slaPolicy.resolution)

(* calculateSlaDeadlines: the three moves, in this order.                  *)

Ready(d, known) == walk = NotWalking /\ result[d] = Unknown /\ \A k \in known : result[k] # Unknown

responseDeadline ==
  /\ Ready("response", {})
  /\ Move("response", 1, startAt, slaPolicy.response)
  /\ UNCHANGED <<zone, slaCalendar, timeMode, startAt, slaPolicy>>

resolutionDeadline ==
  /\ Ready("resolution", {"response"})
  /\ Move("resolution", 1, startAt, slaPolicy.resolution)
  /\ UNCHANGED <<zone, slaCalendar, timeMode, startAt, slaPolicy>>

resolutionWarningAt ==
  /\ Ready("warning", {"resolution"})
  /\ Move("warning", -1, result["resolution"], warningOffset)
  /\ UNCHANGED <<zone, slaCalendar, timeMode, startAt, slaPolicy>>

SlaInit ==
  /\ zone \in Zones /\ slaCalendar \in SlaCalendars /\ timeMode \in {"CALENDAR", "BUSINESS"}
  /\ startAt \in StartAts
  /\ slaPolicy \in Policies
  /\ result = [d \in DeadlineNames |-> Unknown]
  /\ walk = NotWalking

SlaNext == responseDeadline \/ resolutionDeadline \/ resolutionWarningAt \/ TakeShift \/ NextDay

SlaSpec == SlaInit /\ [][SlaNext]_slaVars

-----------------------------------------------------------------------------
(* Working time by definition: an instant is worked when its own local     *)
(* clock is within a shift of its own date.                                *)

Worked(instant) ==
  \/ timeMode = "CALENDAR"
  \/ LET date == LocalDate(instant)
         clock == Local(instant) % DayLength
     IN /\ date \notin slaCalendar.holidays
        /\ \E s \in slaCalendar.shifts : Weekday(date) \in s.days /\ s.start <= clock /\ clock < s.end

WorkedBetween(from, to) == Cardinality({i \in from..to - 1 : Worked(i)})

\* A local time that exists, and only once: before the change of the zone's
\* offset or after it.
ExistsOnce(local) == (local < zone.at + zone.before) # (local >= zone.at + zone.after)

BoundsExistOnce ==
  LET date == LocalDate(zone.at) IN
  \A s \in slaCalendar.shifts, d \in date - 1..date + 1 :
    ExistsOnce(d * DayLength + s.start) /\ ExistsOnce(d * DayLength + s.end)

\* A deadline is the first instant by which the ticks have been worked since
\* another; a warning the last instant that leaves them to be worked.
IsDeadline(t, from, ticks) ==
  /\ WorkedBetween(from, t) = ticks
  /\ IF ticks = 0 THEN t = from ELSE Worked(t - 1)

IsWarning(t, to, ticks) ==
  /\ WorkedBetween(t, to) = ticks
  /\ IF ticks = 0 THEN t = to ELSE Worked(t)

\* The deadlines are those of the definition of working time, over weekends,
\* holidays, several shifts a day and changes of the clock of the zone.
DeadlinesAreWorkedTime ==
  timeMode = "CALENDAR" \/ BoundsExistOnce =>
    /\ result["response"] # Unknown => IsDeadline(result["response"], startAt, slaPolicy.response)
    /\ result["resolution"] # Unknown => IsDeadline(result["resolution"], startAt, slaPolicy.resolution)

\* The warning is within the time of the order, and from the warning on the order has
\* exactly the warning's worked time left, walked back through the same shifts, days off
\* and changes of the clock.
WarningLeavesItsTime ==
  result["warning"] # Unknown /\ (timeMode = "CALENDAR" \/ BoundsExistOnce) =>
    /\ startAt <= result["warning"] /\ result["warning"] <= result["resolution"]
    /\ IsWarning(result["warning"], result["resolution"], slaPolicy.warning)
=============================================================================
