----------------------- MODULE MaintenanceRecurrence -----------------------
(***************************************************************************)
(* nextOccurrence of maintenance-recurrence.ts: the date that follows the  *)
(* due date of a preventive plan, and the chain of dates that generate()   *)
(* walks by applying it to its own result.  A date is a UTC calendar date; *)
(* the time of day is never changed.                                       *)
(***************************************************************************)
EXTENDS Integers, FiniteSetsExt

CONSTANTS FirstYear, LastYear,   \* bound: the calendar of a run
          StartDays,             \* days of the month a plan may start on
          Values                 \* frequencyValue of the plans

ASSUME CalendarIsValid ==
  /\ FirstYear \in Nat /\ LastYear \in Nat /\ FirstYear <= LastYear
  /\ StartDays \subseteq 1..31 /\ Values \subseteq Nat \ {0}

VARIABLES start, unit, value, current, n
recurrenceVars == <<start, unit, value, current, n>>

-----------------------------------------------------------------------------
(* The calendar of Date.  Months count from 0, as there; a month of the    *)
(* calendar is its index from January of FirstYear.                        *)

IsLeap(y) == (y % 4 = 0 /\ y % 100 # 0) \/ y % 400 = 0

MonthIndex == 0..12 * (LastYear - FirstYear + 1) - 1

DaysIn(i) ==
  CASE i % 12 = 1 -> IF IsLeap(FirstYear + i \div 12) THEN 29 ELSE 28
    [] i % 12 \in {3, 5, 8, 10} -> 30
    [] OTHER -> 31

Date == [month : MonthIndex, day : 1..31]

DaysBefore[i \in MonthIndex] == IF i = 0 THEN 0 ELSE DaysBefore[i - 1] + DaysIn(i - 1)
Ordinal(date) == DaysBefore[date.month] + date.day

\* setUTCDate with a day beyond the month: the date that many days later.
DateAt(ordinal) ==
  LET i == CHOOSE i \in MonthIndex : DaysBefore[i] < ordinal /\ ordinal <= DaysBefore[i] + DaysIn(i)
  IN [month |-> i, day |-> ordinal - DaysBefore[i]]

-----------------------------------------------------------------------------
(* nextOccurrence                                                          *)

DaysPerUnit == [DAY |-> 1, WEEK |-> 7]
MonthsPerUnit == [MONTH |-> 1, BIMONTH |-> 2, QUARTER |-> 3, SEMESTER |-> 6, YEAR |-> 12]

\* Mutant: the day is not set to 1 before the month is, so it overflows.
addMonthsOverflowing(date, months) ==
  LET i == date.month + months IN
  IF date.day <= DaysIn(i) THEN [month |-> i, day |-> date.day]
                           ELSE [month |-> i + 1, day |-> date.day - DaysIn(i)]

addMonths(date, months) ==
  LET i == date.month + months IN [month |-> i, day |-> Min({date.day, DaysIn(i)})]

nextOccurrence(date, u, v) ==
  IF u \in DOMAIN DaysPerUnit THEN DateAt(Ordinal(date) + DaysPerUnit[u] * v)
                              ELSE addMonths(date, MonthsPerUnit[u] * v)

-----------------------------------------------------------------------------
(* The chain of due dates of a plan, within the calendar.                  *)

RecurrenceInit ==
  /\ start \in {d \in [month : 0..11, day : StartDays] : d.day <= DaysIn(d.month)}
  /\ unit \in DOMAIN DaysPerUnit \cup DOMAIN MonthsPerUnit
  /\ value \in Values
  /\ current = start
  /\ n = 0

WithinCalendar ==
  IF unit \in DOMAIN DaysPerUnit
  THEN Ordinal(current) + DaysPerUnit[unit] * value
         <= DaysBefore[Max(MonthIndex)] + DaysIn(Max(MonthIndex))
  ELSE current.month + MonthsPerUnit[unit] * value \in MonthIndex \ {Max(MonthIndex)}

FollowDate ==
  /\ WithinCalendar
  /\ current' = nextOccurrence(current, unit, value)
  /\ n' = n + 1
  /\ UNCHANGED <<start, unit, value>>

RecurrenceNext == FollowDate
RecurrenceSpec == RecurrenceInit /\ [][RecurrenceNext]_recurrenceVars

-----------------------------------------------------------------------------
(* Properties                                                              *)

\* The date reached after n steps, against a closed form: every month the plan
\* asks for has its occurrence, in order, none skipped and none overflowing to
\* the next month, on the starting day cut by the shortest month passed so far: a plan
\* that starts on the 31st does not go back to the 31st after a shorter month.
MatchesClosedForm ==
  /\ current \in Date /\ current.day <= DaysIn(current.month)
  /\ IF unit \in DOMAIN DaysPerUnit
     THEN Ordinal(current) = Ordinal(start) + n * DaysPerUnit[unit] * value
     ELSE LET step == MonthsPerUnit[unit] * value
              passed == {start.month + i * step : i \in 0..n}
          IN /\ current.month = start.month + n * step
             /\ current.day = Min({start.day} \cup {DaysIn(i) : i \in passed})
=============================================================================
