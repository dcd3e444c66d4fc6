------------------------------ MODULE RuleHours ------------------------------
(***************************************************************************)
(* When a rule with hours applies: parseHoursWindow, parseDays and         *)
(* HoursWindow.Holds of internal/contexts/boundaries.  A step is a minute  *)
(* of the week passing.                                                    *)
(***************************************************************************)
EXTENDS Integers, FiniteSets

CONSTANTS
  DayMinutes,   \* minutesPerDay
  Hours         \* the windows explored, as written: see HoursSpec

DaysPerWeek == 7

\* "fri-mon 22:00-06:00": the days it starts on, and its start and end; 24:00
\* is an end only (parseClock).
HoursSpec == [first : 0 .. 6, last : 0 .. 6, start : 0 .. DayMinutes - 1, end : 0 .. DayMinutes]

\* parseHoursWindow refuses a window that ends when it starts.
ASSUME HoursAssumption ==
  /\ DayMinutes \in Nat \ {0}
  /\ \A h \in Hours : h \in HoursSpec /\ h.start # h.end

VARIABLES
  hours,     \* the rule's window
  minute     \* the minute of the week, from Sunday 00:00

hoursVars == <<hours, minute>>

-----------------------------------------------------------------------------

\* parseDays: a range of weekdays may wrap the week.
parseDays(first, last) ==
  {(first + k) % DaysPerWeek : k \in 0 .. (last - first + DaysPerWeek) % DaysPerWeek}

Days == parseDays(hours.first, hours.last)

\* Seeded fault: the morning of a night window is taken for its own day's.
Holds_OwnMorning(t) ==
  LET day == t \div DayMinutes
      min == t % DayMinutes
  IN  /\ day \in Days
      /\ IF hours.end >= hours.start THEN min >= hours.start /\ min < hours.end
         ELSE min >= hours.start \/ min < hours.end

\* HoursWindow.Holds: a window that crosses midnight belongs to the day it
\* starts on.
Holds(t) ==
  LET day == t \div DayMinutes
      min == t % DayMinutes
      yesterday == (day + 6) % DaysPerWeek
  IN  IF hours.end >= hours.start
      THEN day \in Days /\ min >= hours.start /\ min < hours.end
      ELSE (day \in Days /\ min >= hours.start) \/ (yesterday \in Days /\ min < hours.end)

HoursInit == hours \in Hours /\ minute = 0

Minute ==
  /\ minute' = (minute + 1) % (DaysPerWeek * DayMinutes)
  /\ UNCHANGED hours

HoursSpecification == HoursInit /\ [][Minute]_hoursVars

-----------------------------------------------------------------------------
(***************************************************************************)
(* Properties.                                                             *)
(***************************************************************************)

\* The minutes of the week a window runs over, from each day it starts on for
\* as long as it lasts.
Lasts == (hours.end - hours.start + DayMinutes) % DayMinutes

Stretch(d) ==
  {(d * DayMinutes + hours.start + k) % (DaysPerWeek * DayMinutes) :
     k \in 0 .. (IF Lasts = 0 THEN DayMinutes ELSE Lasts) - 1}

\* "'fri 22:00-06:00' runs from Friday night to Saturday morning" (HoursWindow):
\* hours hold during exactly the stretches that start on the chosen days, over
\* midnight, over the end of the week and up to 24:00.
HoursAreStretches == Holds(minute) <=> minute \in UNION {Stretch(d) : d \in Days}
=============================================================================
