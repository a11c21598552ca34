----------------------------- MODULE Gregorian -----------------------------
(***************************************************************************)
(* Foundation's Calendar, as far as the calendar page uses it: a Gregorian   *)
(* calendar without times of day.  A date is <<year, month, day>>, a month   *)
(* <<year, month>>, a weekday 1 (Sunday) to 7.                              *)
(***************************************************************************)
EXTENDS Integers

CONSTANTS
    FirstWeekday,   \* of the locale: 1 in the US and Brazil, 2 in most of Europe
    MinimalDays     \* days of January the first week of a year needs: 1, or 4

ASSUME LocaleAssumption == FirstWeekday \in 1..7 /\ MinimalDays \in 1..7

IsLeap(y) == y % 4 = 0 /\ (y % 100 # 0 \/ y % 400 = 0)
MonthLength(y, m) ==
    IF m = 2 THEN (IF IsLeap(y) THEN 29 ELSE 28)
             ELSE IF m \in {4, 6, 9, 11} THEN 30 ELSE 31

DaysBefore == <<0, 31, 59, 90, 120, 151, 181, 212, 243, 273, 304, 334>>

\* 1 January of the year 1 is day 1, a Monday.
DayNumber(date) ==
    LET y == date[1] - 1
    IN  365 * y + y \div 4 - y \div 100 + y \div 400
          + DaysBefore[date[2]] + date[3]
          + (IF date[2] > 2 /\ IsLeap(date[1]) THEN 1 ELSE 0)

Weekday(date) == (DayNumber(date) % 7) + 1

CalendarMonths == Nat \X (1..12)
CalendarDates == Nat \X (1..12) \X (1..31)

MonthOf(date) == <<date[1], date[2]>>
DatesOf(month) == {<<month[1], month[2], d>> : d \in 1..MonthLength(month[1], month[2])}

\* date(byAdding: .month)
AddMonths(month, n) ==
    LET k == 12 * month[1] + month[2] - 1 + n
    IN  <<k \div 12, (k % 12) + 1>>

Tomorrow(date) ==
    IF date[3] < MonthLength(date[1], date[2])
    THEN <<date[1], date[2], date[3] + 1>>
    ELSE LET next == AddMonths(MonthOf(date), 1) IN <<next[1], next[2], 1>>

\* The day number of the first day of a date's week, and of a year's first week.
WeekStart(date) == DayNumber(date) - ((Weekday(date) - FirstWeekday) % 7)
FirstWeek(y) ==
    LET newYear == <<y, 1, 1>>
        start   == WeekStart(newYear)
    IN  IF 7 - (DayNumber(newYear) - start) >= MinimalDays THEN start ELSE start + 7

\* component(.weekOfYear): the first days of January may be in the last week of
\* the year before, the last days of December in week 1 of the next year.
WeekOfYear(date) ==
    LET start == WeekStart(date)
        year  == CHOOSE y \in {date[1] - 1, date[1], date[1] + 1} :
                     FirstWeek(y) <= start /\ start < FirstWeek(y + 1)
    IN  ((start - FirstWeek(year)) \div 7) + 1
=============================================================================
