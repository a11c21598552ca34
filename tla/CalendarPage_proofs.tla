------------------------- MODULE CalendarPage_proofs -------------------------
(***************************************************************************)
(* The calendar tab: proofs of the invariants of CalendarPage for any       *)
(* locale, months, dates, boards and posts.                                 *)
(***************************************************************************)
EXTENDS CalendarPage, Lists_proofs

-----------------------------------------------------------------------------
(* The Gregorian calendar.                                                   *)

\* The day number of 1 January.
NewYear(y) == 365 * (y - 1) + (y - 1) \div 4 - (y - 1) \div 100 + (y - 1) \div 400 + 1

LEMMA NewYearType == \A y \in Int : NewYear(y) \in Int
  BY DEF NewYear

LEMMA Quotients ==
    ASSUME NEW n \in Nat \ {0}, NEW y \in Int
    PROVE  /\ y \div n \in Int
           /\ n * (y \div n) <= y /\ y < n * (y \div n) + n
  OBVIOUS

\* A year has at least 364 days but for the last of a sequence of years.
LEMMA YearsPass ==
    ASSUME NEW a \in Int, NEW b \in Int, a < b
    PROVE  NewYear(b) - NewYear(a) >= 364 * (b - a) - 1
<1> DEFINE x == a - 1
           y == b - 1
<1>1. /\ x \div 4 \in Int /\ 4 * (x \div 4) <= x /\ x < 4 * (x \div 4) + 4
      /\ y \div 4 \in Int /\ 4 * (y \div 4) <= y /\ y < 4 * (y \div 4) + 4
  BY Quotients
<1>2. /\ x \div 100 \in Int /\ 100 * (x \div 100) <= x /\ x < 100 * (x \div 100) + 100
      /\ y \div 100 \in Int /\ 100 * (y \div 100) <= y /\ y < 100 * (y \div 100) + 100
  BY Quotients
<1>3. /\ x \div 400 \in Int /\ 400 * (x \div 400) <= x /\ x < 400 * (x \div 400) + 400
      /\ y \div 400 \in Int /\ 400 * (y \div 400) <= y /\ y < 400 * (y \div 400) + 400
  BY Quotients
<1> QED
  BY <1>1, <1>2, <1>3 DEF NewYear

\* The days of a year come between two New Years.
LEMMA DaysOfYear ==
    ASSUME NEW day \in CalendarDates
    PROVE  /\ DayNumber(day) \in Int
           /\ NewYear(day[1]) <= DayNumber(day)
           /\ DayNumber(day) <= NewYear(day[1]) + 365
<1> DEFINE k == DaysBefore[day[2]]
           leap == IF day[2] > 2 /\ IsLeap(day[1]) THEN 1 ELSE 0
<1>1. day[1] \in Nat /\ day[2] \in 1..12 /\ day[3] \in 1..31
  BY DEF CalendarDates
<1>2. k \in 0..334
  BY <1>1 DEF DaysBefore
<1>3. leap \in 0..1
  OBVIOUS
<1>4. NewYear(day[1]) \in Int
  BY <1>1, NewYearType
<1> HIDE DEF k, leap
<1>5. DayNumber(day) = NewYear(day[1]) - 1 + k + day[3] + leap
  BY <1>1, <1>2, <1>3 DEF DayNumber, NewYear, k, leap
<1> QED
  BY <1>1, <1>2, <1>3, <1>4, <1>5

LEMMA NewYearsDay == ASSUME NEW y \in Int PROVE DayNumber(<<y, 1, 1>>) = NewYear(y)
  BY DEF DayNumber, NewYear, DaysBefore

\* The days of a month follow each other, and so do their weekdays.
LEMMA DaysOfMonth ==
    ASSUME NEW month \in CalendarMonths, NEW d \in 1..31
    PROVE  /\ DayNumber(<<month[1], month[2], 1>>) \in Int
           /\ DayNumber(<<month[1], month[2], d>>)
                  = DayNumber(<<month[1], month[2], 1>>) + d - 1
<1> DEFINE y == month[1] - 1
           k == DaysBefore[month[2]]
           leap == IF month[2] > 2 /\ IsLeap(month[1]) THEN 1 ELSE 0
           before == NewYear(month[1]) - 1
<1>1. month[1] \in Nat /\ month[2] \in 1..12
  BY DEF CalendarMonths
<1>2. k \in Int /\ leap \in Int /\ before \in Int
  BY <1>1, NewYearType DEF DaysBefore
<1>3. before = 365 * y + y \div 4 - y \div 100 + y \div 400
  BY <1>1 DEF NewYear
<1> HIDE DEF k, leap, before
<1>4. ASSUME NEW x \in 1..31
      PROVE  DayNumber(<<month[1], month[2], x>>) = before + k + x + leap
  BY <1>3 DEF DayNumber, k, leap
<1>5. DayNumber(<<month[1], month[2], 1>>) = before + k + 1 + leap
  BY <1>4
<1>6. DayNumber(<<month[1], month[2], d>>) = before + k + d + leap
  BY <1>4
<1> QED
  BY <1>2, <1>5, <1>6

LEMMA WeekdayType == \A day \in CalendarDates : Weekday(day) \in 1..7
  BY DaysOfYear DEF Weekday

\* A week begins at most six days before each of its days.
LEMMA WeekBegins ==
    ASSUME NEW day \in CalendarDates
    PROVE  /\ WeekStart(day) \in Int
           /\ DayNumber(day) - 6 <= WeekStart(day)
           /\ WeekStart(day) <= DayNumber(day)
<1>1. DayNumber(day) \in Int /\ Weekday(day) \in 1..7
  BY DaysOfYear, WeekdayType
<1>2. (Weekday(day) - FirstWeekday) % 7 \in 0..6
  BY <1>1, LocaleAssumption
<1> QED
  BY <1>1, <1>2 DEF WeekStart

\* The first week of a year begins at most six days before or after New Year.
LEMMA FirstWeekBegins ==
    ASSUME NEW y \in Int
    PROVE  /\ FirstWeek(y) \in Int
           /\ NewYear(y) - 6 <= FirstWeek(y)
           /\ FirstWeek(y) <= NewYear(y) + 7
<1> DEFINE first == <<y, 1, 1>>
<1>1. DayNumber(first) = NewYear(y) /\ NewYear(y) \in Int
  BY NewYearsDay, NewYearType
<1>2. Weekday(first) \in 1..7
  BY <1>1 DEF Weekday
<1>3. (Weekday(first) - FirstWeekday) % 7 \in 0..6
  BY <1>2, LocaleAssumption
<1>4. /\ WeekStart(first) \in Int
      /\ NewYear(y) - 6 <= WeekStart(first) /\ WeekStart(first) <= NewYear(y)
  BY <1>1, <1>3 DEF WeekStart
<1>5. FirstWeek(y) \in {WeekStart(first), WeekStart(first) + 7}
  BY DEF FirstWeek
<1> QED
  BY <1>1, <1>4, <1>5

\* The years' weeks do not overlap.
LEMMA YearsOfWeeks ==
    ASSUME NEW a \in Int, NEW b \in Int, a < b
    PROVE  FirstWeek(a + 1) <= FirstWeek(b)
<1>1. CASE b = a + 1
  BY <1>1, FirstWeekBegins
<1>2. CASE a + 1 < b
  <2>1. NewYear(b) - NewYear(a + 1) >= 364 * (b - (a + 1)) - 1
    BY <1>2, YearsPass
  <2>2. /\ FirstWeek(a + 1) \in Int /\ FirstWeek(a + 1) <= NewYear(a + 1) + 7
        /\ FirstWeek(b) \in Int /\ NewYear(b) - 6 <= FirstWeek(b)
        /\ NewYear(a + 1) \in Int /\ NewYear(b) \in Int
    BY FirstWeekBegins, NewYearType
  <2> QED
    BY <1>2, <2>1, <2>2
<1> QED
  BY <1>1, <1>2

\* The week of a date belongs to the year of the date, or to one next to it.
YearOfWeek(start, y) == FirstWeek(y) <= start /\ start < FirstWeek(y + 1)

LEMMA WeekHasYear ==
    ASSUME NEW day \in CalendarDates
    PROVE  \E y \in {day[1] - 1, day[1], day[1] + 1} : YearOfWeek(WeekStart(day), y)
<1> DEFINE y == day[1]
           start == WeekStart(day)
<1>1. y \in Int /\ start \in Int
  BY WeekBegins DEF CalendarDates
<1>2. NewYear(y) - 6 <= start /\ start <= NewYear(y) + 365
  BY <1>1, DaysOfYear, WeekBegins, NewYearType
<1>3. NewYear(y) - NewYear(y - 1) >= 363 /\ NewYear(y + 2) - NewYear(y) >= 727
  BY <1>1, YearsPass
<1> HIDE DEF start, y
<1>4. /\ FirstWeek(y - 1) \in Int /\ FirstWeek(y - 1) <= NewYear(y - 1) + 7
      /\ FirstWeek(y + 2) \in Int /\ NewYear(y + 2) - 6 <= FirstWeek(y + 2)
      /\ NewYear(y - 1) \in Int /\ NewYear(y) \in Int /\ NewYear(y + 2) \in Int
      /\ FirstWeek(y) \in Int /\ FirstWeek(y + 1) \in Int
  BY <1>1, FirstWeekBegins, NewYearType
<1>5. FirstWeek(y - 1) <= start /\ start < FirstWeek(y + 2)
  BY <1>1, <1>2, <1>3, <1>4
<1>6. (y - 1) + 1 = y /\ (y + 1) + 1 = y + 2
  BY <1>1
<1>7. \E z \in {y - 1, y, y + 1} : YearOfWeek(start, z)
  BY <1>1, <1>4, <1>5, <1>6 DEF YearOfWeek
<1> QED
  BY <1>7 DEF y, start

LEMMA WeekHasOneYear ==
    ASSUME NEW start \in Int, NEW a \in Int, NEW b \in Int,
           YearOfWeek(start, a), YearOfWeek(start, b)
    PROVE  a = b
<1>1. ASSUME NEW x \in Int, NEW y \in Int, x < y, YearOfWeek(start, x), YearOfWeek(start, y)
      PROVE  FALSE
  <2>1. FirstWeek(x + 1) <= FirstWeek(y)
    BY <1>1, YearsOfWeeks
  <2>2. FirstWeek(x + 1) \in Int /\ FirstWeek(y) \in Int
    BY FirstWeekBegins
  <2> QED
    BY <1>1, <2>1, <2>2 DEF YearOfWeek
<1> QED
  BY <1>1

\* The dates of one week have one number of the week, also around New Year.  (The
\* converse is false: the first and the last week of a year may have the same number.)
LEMMA SameWeek ==
    ASSUME NEW d \in CalendarDates, NEW e \in CalendarDates, WeekStart(d) = WeekStart(e)
    PROVE  InWeekOf(d, e)
<1> DEFINE start == WeekStart(d)
           Year(day) == CHOOSE y \in {day[1] - 1, day[1], day[1] + 1} :
                             YearOfWeek(start, y)
<1>1. start \in Int /\ d[1] \in Int /\ e[1] \in Int
  BY WeekBegins DEF CalendarDates
<1>2. Year(d) \in {d[1] - 1, d[1], d[1] + 1} /\ YearOfWeek(start, Year(d))
  BY WeekHasYear
<1>3. Year(e) \in {e[1] - 1, e[1], e[1] + 1} /\ YearOfWeek(start, Year(e))
  BY WeekHasYear
<1> HIDE DEF Year
<1>4. Year(d) = Year(e)
  <2>1. Year(d) \in Int /\ Year(e) \in Int
    BY <1>1, <1>2, <1>3
  <2> HIDE DEF start
  <2> QED
    BY <1>1, <1>2, <1>3, <2>1, WeekHasOneYear
<1>5. /\ WeekOfYear(d) = ((start - FirstWeek(Year(d))) \div 7) + 1
      /\ WeekOfYear(e) = ((start - FirstWeek(Year(e))) \div 7) + 1
  BY DEF WeekOfYear, Year, YearOfWeek
<1> QED
  BY <1>4, <1>5 DEF InWeekOf

-----------------------------------------------------------------------------
(* The month.                                                                *)

LEMMA MonthLengths == \A month : MonthLength(month[1], month[2]) \in 28..31
  BY DEF MonthLength

\* Where the cells of a month are: the blanks before the first, the days, the rest.
Blanks(month) == Weekday(<<month[1], month[2], 1>>) - 1
CellAt(month, i, scheduled, now) ==
    IF i - Blanks(month) \in 1..MonthLength(month[1], month[2])
    THEN DayCell(<<month[1], month[2], i - Blanks(month)>>, scheduled, now)
    ELSE Blank

LEMMA BuildDaysCells ==
    ASSUME NEW month \in CalendarMonths, NEW scheduled, NEW now
    PROVE  /\ Blanks(month) \in 0..6
           /\ BuildDays(month, scheduled, now)
                  = [i \in 1..42 |-> CellAt(month, i, scheduled, now)]
<1> DEFINE k == Blanks(month)
           n == MonthLength(month[1], month[2])
           Day(d) == DayCell(<<month[1], month[2], d>>, scheduled, now)
           At(i) == CellAt(month, i, scheduled, now)
           blanks == [i \in 1..k |-> Blank]
           dayCells == [d \in 1..n |-> Day(d)]
           cells == blanks \o dayCells
           rest == [i \in 1..(42 - Len(cells)) |-> Blank]
           CellsOf == {Blank} \cup {Day(d) : d \in 1..n}
<1>1. k \in 0..6
  <2>1. <<month[1], month[2], 1>> \in CalendarDates
    BY DEF CalendarMonths, CalendarDates
  <2> QED
    BY <2>1, WeekdayType DEF Blanks
<1>2. n \in 28..31
  BY MonthLengths
<1>3. BuildDays(month, scheduled, now) = cells \o rest
  BY DEF BuildDays, Blanks
<1>a. \A i : At(i) = IF i - k \in 1..n THEN Day(i - k) ELSE Blank
  BY DEF CellAt
<1> HIDE DEF k, n, Day
<1>4. blanks \in Seq(CellsOf) /\ Len(blanks) = k
  BY <1>1
<1>5. dayCells \in Seq(CellsOf) /\ Len(dayCells) = n
  BY <1>2
<1> HIDE DEF CellsOf, At
<1>6. cells \in Seq(CellsOf) /\ Len(cells) = k + n
  <2> HIDE DEF blanks, dayCells
  <2> QED BY <1>4, <1>5, ConcatProperties
<1>7. ASSUME NEW i \in 1..(k + n) PROVE cells[i] = At(i)
  <2>1. cells[i] = IF i <= k THEN blanks[i] ELSE dayCells[i - k]
    <3> HIDE DEF blanks, dayCells
    <3> QED BY <1>4, <1>5, <1>7, ConcatProperties
  <2>2. CASE i <= k
    BY <1>1, <1>2, <1>a, <2>1, <2>2
  <2>3. CASE ~(i <= k)
    BY <1>1, <1>2, <1>a, <2>1, <2>3
  <2> QED
    BY <2>2, <2>3
<1> HIDE DEF cells
<1>8. /\ rest \in Seq(CellsOf) /\ Len(rest) = 42 - (k + n)
      /\ \A i \in 1..Len(rest) : rest[i] = Blank
  BY <1>1, <1>2, <1>6 DEF CellsOf
<1> HIDE DEF rest
<1>9. cells \o rest \in Seq(CellsOf) /\ Len(cells \o rest) = 42
  BY <1>1, <1>2, <1>6, <1>8, ConcatProperties
<1>10. ASSUME NEW i \in 1..42 PROVE (cells \o rest)[i] = At(i)
  <2>1. i \in 1..(Len(cells) + Len(rest))
    BY <1>1, <1>2, <1>6, <1>8
  <2>2. (cells \o rest)[i] = IF i <= Len(cells) THEN cells[i] ELSE rest[i - Len(cells)]
    BY <1>6, <1>8, <2>1, ConcatProperties
  <2>3. CASE i <= k + n
    BY <1>6, <1>7, <2>2, <2>3
  <2>4. CASE ~(i <= k + n)
    <3>1. i - (k + n) \in 1..Len(rest) /\ i - k \notin 1..n
      BY <1>1, <1>2, <1>8, <2>4
    <3>2. (cells \o rest)[i] = Blank
      BY <1>6, <1>8, <2>2, <2>4, <3>1
    <3> QED
      BY <1>a, <3>1, <3>2
  <2> QED
    BY <2>3, <2>4
<1>11. cells \o rest \in [1..42 -> CellsOf]
  BY <1>9, LenProperties, ElementOfSeq
<1> QED
  BY <1>1, <1>3, <1>10, <1>11 DEF At, k

\* What the picker shows is its month with the marks of the scheduled dates, as it was
\* laid out on some day.
PickerOK == \E now \in AllDates : days = BuildDays(control, scheduledDates, now)

\* The remainder of a sum by seven.
LEMMA Remainders ==
    ASSUME NEW a \in Int, NEW b \in Nat
    PROVE  (a + b) % 7 = ((a % 7) + b) % 7
  OBVIOUS

LEMMA WeekdayOfCell ==
    ASSUME NEW month \in CalendarMonths, NEW d \in 1..31
    PROVE  Weekday(<<month[1], month[2], d>>) = ((Blanks(month) + d - 1) % 7) + 1
<1> DEFINE n == DayNumber(<<month[1], month[2], 1>>)
<1>1. n \in Int /\ DayNumber(<<month[1], month[2], d>>) = n + d - 1
  BY DaysOfMonth
<1>2. Blanks(month) = n % 7
  BY <1>1 DEF Blanks, Weekday
<1> HIDE DEF n
<1>3. (n + (d - 1)) % 7 = ((n % 7) + (d - 1)) % 7
  BY <1>1, Remainders
<1>4. n + (d - 1) = n + d - 1 /\ (n % 7) + (d - 1) = (n % 7) + d - 1
  BY <1>1
<1> QED
  BY <1>1, <1>2, <1>3, <1>4 DEF Weekday

LEMMA PickerShows ==
    ASSUME control \in Months, scheduledDates \subseteq Dates, PickerOK
    PROVE  days \in Seq(Cell) /\ MonthIsAligned /\ MarksAreScheduled
<1> DEFINE k == Blanks(control)
           n == MonthLength(control[1], control[2])
           Date(d) == <<control[1], control[2], d>>
<1>1. control \in CalendarMonths /\ n \in 28..31
  BY MonthsAssumption, MonthLengths
<1>2. PICK now \in AllDates : days = BuildDays(control, scheduledDates, now)
  BY DEF PickerOK
<1>3. k \in 0..6 /\ days = [i \in 1..42 |-> CellAt(control, i, scheduledDates, now)]
  BY <1>1, <1>2, BuildDaysCells
<1>4. ASSUME NEW i \in 1..42
      PROVE  days[i] = IF i - k \in 1..n THEN DayCell(Date(i - k), scheduledDates, now)
                       ELSE Blank
  BY <1>3 DEF CellAt
<1>5. ASSUME NEW d \in 1..n PROVE Date(d) \in DatesOf(control) /\ Date(d) \in AllDates
  <2>1. Date(d) \in DatesOf(control)
    BY DEF DatesOf
  <2> QED
    BY <2>1 DEF AllDates
<1> HIDE DEF k, n
<1>6. ASSUME NEW i \in 1..42
      PROVE  /\ days[i].day # 0 => i - k \in 1..n
             /\ i - k \in 1..n =>
                    /\ days[i].day = i - k /\ days[i].day # 0
                    /\ days[i].date = Date(i - k)
                    /\ days[i].isSelected = (Date(i - k) \in scheduledDates)
  <2>1. CASE i - k \in 1..n
    <3>1. days[i] = DayCell(Date(i - k), scheduledDates, now)
      BY <1>4, <2>1
    <3> QED
      BY <1>1, <1>3, <2>1, <3>1 DEF DayCell
  <2>2. CASE i - k \notin 1..n
    <3>1. days[i] = Blank
      BY <1>4, <2>2
    <3> QED
      BY <2>2, <3>1 DEF Blank
  <2> QED
    BY <2>1, <2>2
<1>7. days \in Seq(Cell)
  <2>1. Blank \in Cell
    BY DEF Blank, Cell
  <2>2. ASSUME NEW d \in 1..n PROVE DayCell(Date(d), scheduledDates, now) \in Cell
    BY <1>1, <1>5, <2>2 DEF DayCell, Cell
  <2>3. \A i \in 1..42 : days[i] \in Cell
    BY <1>4, <2>1, <2>2
  <2>4. days \in [1..42 -> Cell]
    BY <1>3, <2>3
  <2> DEFINE m == 42
  <2>5. m \in Nat /\ days \in [1..m -> Cell]
    BY <2>4
  <2> HIDE DEF m
  <2> QED
    BY <2>5, SeqDef
<1>8. MarksAreScheduled
  BY <1>3, <1>6 DEF MarksAreScheduled
<1>9. MonthIsAligned
  <2> DEFINE shown == {i \in DOMAIN days : days[i].day # 0}
  <2>1. DOMAIN days = 1..42 /\ Len(days) = 42
    BY <1>3
  <2>2. shown = {i \in 1..42 : i - k \in 1..n}
    BY <1>6, <2>1
  <2>3. {days[i].date : i \in shown} = DatesOf(control)
    <3>1. ASSUME NEW i \in shown PROVE days[i].date \in DatesOf(control)
      BY <1>5, <1>6, <2>2
    <3>2. ASSUME NEW d \in 1..n PROVE \E i \in shown : days[i].date = Date(d)
      <4>1. d + k \in 1..42 /\ (d + k) - k = d
        BY <1>1, <1>3
      <4> QED
        BY <1>6, <2>2, <4>1
    <3>3. DatesOf(control) = {Date(d) : d \in 1..n}
      BY DEF DatesOf, n
    <3> HIDE DEF shown
    <3> QED
      BY <3>1, <3>2, <3>3
  <2>4. ASSUME NEW i \in shown, NEW j \in shown, i < j PROVE days[i].day < days[j].day
    <3>1. i \in 1..42 /\ j \in 1..42 /\ i - k \in 1..n /\ j - k \in 1..n
      BY <2>2
    <3>2. days[i].day = i - k /\ days[j].day = j - k
      BY <1>6, <3>1
    <3> QED
      BY <1>3, <2>4, <3>1, <3>2
  <2>5. ASSUME NEW i \in shown
        PROVE  /\ days[i].date[3] = days[i].day
               /\ Weekday(days[i].date) = ((i - 1) % 7) + 1
    <3>1. i \in 1..42 /\ i - k \in 1..n /\ days[i].date = Date(i - k) /\ days[i].day = i - k
      BY <1>6, <2>2
    <3>2. i - k \in 1..31 /\ k + (i - k) - 1 = i - 1
      BY <1>1, <1>3, <3>1
    <3>3. Weekday(Date(i - k)) = ((k + (i - k) - 1) % 7) + 1
      BY <1>1, <3>2, WeekdayOfCell DEF k
    <3> QED
      BY <3>1, <3>2, <3>3
  <2> QED
    BY <2>1, <2>3, <2>4, <2>5 DEF MonthIsAligned
<1> QED
  BY <1>7, <1>8, <1>9

-----------------------------------------------------------------------------
(* The inductive invariant.                                                  *)

\* The types of all but the picker and the sheet, which are what BuildDays and
\* WeekNotifications make of the other variables.
BaseOK ==
    /\ today \in Clock
    /\ pending \subseteq Notification
    /\ board \in Boards
    /\ open \in BOOLEAN
    /\ date \in AllDates
    /\ allNotifications \subseteq Notification
    /\ scheduledDates \subseteq Dates
    /\ control \in Months
    /\ reads \in 0..MaxReads
    /\ main \in Seq(SUBSET Notification)

SheetOK == weekNotifications = WeekNotifications(allNotifications, date)

\* While the tab is closed nothing is under way or left over.
ClosedIsEmpty ==
    ~open => reads = 0 /\ main = <<>> /\ allNotifications = {} /\ scheduledDates = {}

\* Once all reads are answered, the last answer, or what it left on the page, is of the
\* board on display: each change of the board starts a read.
OfBoard(notifications) == \A n \in notifications : BoardOf[n.uid] = board
LastIsOfBoard ==
    reads = 0 => IF main = <<>> THEN OfBoard(allNotifications) ELSE OfBoard(main[Len(main)])

IInv == BaseOK /\ PickerOK /\ SheetOK /\ ClosedIsEmpty /\ LastIsOfBoard

LEMMA ClockDates == \A d \in Clock : d \in AllDates /\ MonthOf(d) \in Months
  BY ClockAssumption DEF AllDates

LEMMA DatesAreDates == AllDates \subseteq CalendarDates
<1>1. ASSUME NEW month \in Months, NEW d \in DatesOf(month) PROVE d \in CalendarDates
  <2>1. month \in CalendarMonths /\ MonthLength(month[1], month[2]) \in 28..31
    BY MonthsAssumption, MonthLengths
  <2> QED
    BY <2>1 DEF DatesOf, CalendarMonths, CalendarDates
<1>2. ASSUME NEW d \in AllDates PROVE d \in CalendarDates
  <2>1. CASE d \in UNION {DatesOf(m) : m \in Months}
    <3>1. PICK month \in Months : d \in DatesOf(month)
      BY <2>1
    <3> QED
      BY <1>1, <3>1
  <2>2. CASE d \in Dates \cup Taps
    BY <2>2, DatesAssumption
  <2>3. d \in UNION {DatesOf(m) : m \in Months} \/ d \in Dates \cup Taps
    BY Zenon DEF AllDates
  <2> QED
    BY <2>1, <2>2, <2>3, Zenon
<1> QED
  BY <1>2

\* Without notifications the sheet is empty.
LEMMA EmptySheet == \A d : WeekNotifications({}, d) = NoWeek
  BY DEF WeekNotifications, NoWeek

LEMMA InitIInv == Init => IInv
<1> SUFFICES ASSUME Init PROVE IInv
  OBVIOUS
<1>1. today \in Clock /\ today \in AllDates /\ MonthOf(today) \in Months
  BY ClockAssumption, ClockDates DEF Init
<1>2. BaseOK
  <2>1. reads \in 0..MaxReads
    BY MaxReadsAssumption DEF Init
  <2>2. main \in Seq(SUBSET Notification)
    BY DEF Init
  <2>3. pending \subseteq Notification /\ allNotifications \subseteq Notification
    BY DEF Init
  <2> QED
    BY <1>1, <2>1, <2>2, <2>3 DEF Init, BaseOK
<1>3. PickerOK
  BY <1>1 DEF Init, PickerOK
<1>4. SheetOK
  BY EmptySheet DEF Init, SheetOK
<1>5. ClosedIsEmpty /\ LastIsOfBoard
  BY DEF Init, ClosedIsEmpty, LastIsOfBoard, OfBoard
<1> QED
  BY <1>2, <1>3, <1>4, <1>5 DEF IInv

\* The tab opens with an empty page, and leaves one.
LEMMA TabStep == ASSUME IInv, OpenTab \/ CloseTab PROVE IInv'
<1> USE DEF IInv, BaseOK
<1>1. today \in AllDates /\ MonthOf(today) \in Months
  BY ClockDates
<1>2. CASE OpenTab
  <2>1. reads = 0 /\ main = <<>> /\ allNotifications = {} /\ scheduledDates = {}
    BY <1>2 DEF OpenTab, ClosedIsEmpty
  <2>2. reads' = 1 /\ reads' \in 0..MaxReads /\ main' = main
    BY <1>2, <2>1, MaxReadsAssumption DEF OpenTab, GetNotifications
  <2>3. BaseOK'
    BY <1>1, <1>2, <2>2 DEF OpenTab
  <2>4. PickerOK'
    BY <1>1, <1>2, <2>1 DEF OpenTab, PickerOK
  <2>5. SheetOK'
    BY <1>2, <2>1, EmptySheet DEF OpenTab, SheetOK
  <2> QED
    BY <1>2, <2>2, <2>3, <2>4, <2>5 DEF OpenTab, ClosedIsEmpty, LastIsOfBoard
<1>3. CASE CloseTab
  <2>1. BaseOK'
    <3>1. reads' \in 0..MaxReads
      BY <1>3, MaxReadsAssumption DEF CloseTab
    <3>2. main' \in Seq(SUBSET Notification)
      BY <1>3 DEF CloseTab
    <3>3. allNotifications' \subseteq Notification /\ scheduledDates' \subseteq Dates
      BY <1>3 DEF CloseTab
    <3> QED
      BY <1>1, <1>3, <3>1, <3>2, <3>3 DEF CloseTab
  <2>2. PickerOK'
    BY <1>1, <1>3 DEF CloseTab, PickerOK
  <2>3. SheetOK'
    BY <1>3, EmptySheet DEF CloseTab, SheetOK
  <2> QED
    BY <1>3, <2>1, <2>2, <2>3 DEF CloseTab, ClosedIsEmpty, LastIsOfBoard, OfBoard
<1> QED
  BY <1>2, <1>3

LEMMA ChangeBoardStep == ASSUME IInv, NEW b \in Boards, ChangeBoard(b) PROVE IInv'
<1> USE DEF IInv, BaseOK
<1>1. UNCHANGED <<today, pending, open, pageVars, pickerVars, main>> /\ board' = b
  BY DEF ChangeBoard
<1>2. CASE open
  <2>1. reads' = reads + 1 /\ reads' \in 0..MaxReads
    <3>1. Len(main) \in Nat
      BY LenProperties
    <3> QED
      BY <1>2, <3>1, MaxReadsAssumption DEF ChangeBoard, GetNotifications
  <2>2. reads' # 0
    BY <2>1
  <2> QED
    BY <1>1, <1>2, <2>1, <2>2 DEF pageVars, pickerVars, PickerOK, SheetOK, ClosedIsEmpty,
       LastIsOfBoard
<1>3. CASE ~open
  <2>1. reads' = reads
    BY <1>3 DEF ChangeBoard
  <2> QED
    BY <1>1, <1>3, <2>1 DEF pageVars, pickerVars, PickerOK, SheetOK, ClosedIsEmpty,
       LastIsOfBoard, OfBoard
<1> QED
  BY <1>2, <1>3

\* The answer is filtered by the board of that moment, and put behind the others.
LEMMA ReadStep == ASSUME IInv, NotificationsRead PROVE IInv'
<1> USE DEF IInv, BaseOK
<1> DEFINE answer == {n \in pending : BoardOf[n.uid] = board}
<1>1. /\ UNCHANGED <<today, pending, board, open, pageVars, pickerVars>>
      /\ reads' = reads - 1 /\ reads > 0 /\ main' = Append(main, answer)
  BY DEF NotificationsRead
<1>2. answer \in SUBSET Notification /\ OfBoard(answer)
  BY DEF OfBoard
<1>3. OfBoard(answer)'
  BY <1>1 DEF OfBoard
<1> HIDE DEF answer
<1>4. reads' \in 0..MaxReads /\ open
  BY <1>1, MaxReadsAssumption DEF ClosedIsEmpty
<1>5. main' \in Seq(SUBSET Notification) /\ main' # <<>> /\ main'[Len(main')] = answer
  BY <1>1, <1>2, AppendProperties
<1>6. LastIsOfBoard'
  BY <1>1, <1>2, <1>5 DEF LastIsOfBoard, OfBoard
<1> QED
  BY <1>1, <1>4, <1>5, <1>6 DEF pageVars, pickerVars, PickerOK, SheetOK, ClosedIsEmpty

\* The oldest answer becomes what the page shows; the newest stays the last.
LEMMA ShownStep == ASSUME IInv, NotificationsShown PROVE IInv'
<1> USE DEF IInv, BaseOK
<1>1. /\ UNCHANGED <<today, pending, board, open, date, control, reads>>
      /\ main # <<>> /\ main' = Tail(main)
      /\ allNotifications' = Head(main)
      /\ scheduledDates' = {n.date : n \in Head(main)}
      /\ weekNotifications' = WeekNotifications(allNotifications', date)
      /\ days' = IF scheduledDates' = scheduledDates THEN days
                 ELSE BuildDays(control, scheduledDates', today)
  BY DEF NotificationsShown
<1>2. /\ Len(main) \in Nat \ {0} /\ Head(main) = main[1]
      /\ Head(main) \in SUBSET Notification
      /\ main' \in Seq(SUBSET Notification) /\ Len(main') = Len(main) - 1
      /\ \A i \in 1..Len(main') : main'[i] = main[i + 1]
  BY <1>1, HeadTailProperties, EmptySeq, LenProperties
<1>3. scheduledDates' \subseteq Dates
  BY <1>1, <1>2 DEF Notification
<1>4. PickerOK'
  <2>1. today \in AllDates
    BY ClockDates
  <2>2. CASE scheduledDates' = scheduledDates
    BY <1>1, <2>2 DEF PickerOK
  <2>3. CASE scheduledDates' # scheduledDates
    BY <1>1, <2>1, <2>3 DEF PickerOK
  <2> QED
    BY <2>2, <2>3
<1>5. LastIsOfBoard'
  <2>1. CASE main' = <<>>
    <3>1. Len(main) = 1
      BY <1>2, <2>1
    <3> QED
      BY <1>1, <1>2, <2>1, <3>1 DEF LastIsOfBoard, OfBoard
  <2>2. CASE main' # <<>>
    <3>1. Len(main') \in 1..Len(main')
      BY <1>2, <2>2, EmptySeq, LenProperties
    <3>2. main'[Len(main')] = main[Len(main)]
      BY <1>2, <3>1
    <3> QED
      BY <1>1, <2>2, <3>2 DEF LastIsOfBoard, OfBoard
  <2> QED
    BY <2>1, <2>2
<1> QED
  BY <1>1, <1>2, <1>3, <1>4, <1>5 DEF SheetOK, ClosedIsEmpty

\* The user leafs through the months and selects days.
LEMMA PageStep ==
    ASSUME IInv, Leaf \/ \E i \in DOMAIN days : SelectDay(i)
    PROVE  IInv'
<1> USE DEF IInv, BaseOK
<1>1. ASSUME NEW month \in Months, ShowMonth(month) PROVE IInv'
  <2>1. PickerOK'
    BY <1>1, ClockDates DEF ShowMonth, PickerOK, pageVars
  <2> QED
    BY <1>1, <2>1 DEF ShowMonth, pageVars, queueVars, SheetOK, ClosedIsEmpty, LastIsOfBoard,
       OfBoard
<1>2. ASSUME NEW i \in DOMAIN days, SelectDay(i) PROVE IInv'
  <2>1. date' \in AllDates
    <3>1. date' \in Taps
      BY <1>2, Zenon DEF SelectDay
    <3>2. \A d \in Taps : d \in AllDates
      BY Zenon DEF AllDates
    <3> QED
      BY <3>1, <3>2, Zenon
  <2> QED
    BY <1>2, <2>1 DEF SelectDay, pickerVars, queueVars, PickerOK, SheetOK, ClosedIsEmpty,
       LastIsOfBoard, OfBoard
<1> QED
  BY <1>1, <1>2 DEF Leaf

\* Posts are scheduled and published, and the clock runs, without the page.
LEMMA WorldStep ==
    ASSUME IInv,
           \/ \E n \in Notification : Publish(n) \/ NotificationLeaves(n)
           \/ \E p \in Posts, d \in Dates : Schedule(p, d)
           \/ Midnight
           \/ UNCHANGED vars
    PROVE  IInv'
<1> USE DEF IInv, BaseOK
<1>1. UNCHANGED <<board, open, pageVars, pickerVars, queueVars>>
  BY DEF Publish, NotificationLeaves, Schedule, Midnight, vars
<1>2. pending' \subseteq Notification /\ today' \in Clock
  BY DEF Publish, NotificationLeaves, Schedule, Midnight, vars, Notification
<1> QED
  BY <1>1, <1>2 DEF pageVars, pickerVars, queueVars, PickerOK, SheetOK, ClosedIsEmpty,
     LastIsOfBoard, OfBoard

LEMMA NextIInv == IInv /\ [Next]_vars => IInv'
  BY TabStep, ChangeBoardStep, ReadStep, ShownStep, PageStep, WorldStep DEF Next

LEMMA Invariance == Spec => []IInv
  BY InitIInv, NextIInv, PTL DEF Spec

-----------------------------------------------------------------------------
(* The theorems.                                                             *)

\* Every variable of the calendar tab keeps its type: the month is 42 cells, and the
\* sheet has a list for each of the seven days.
THEOREM TypeCorrect == Spec => []TypeOK
<1>1. ASSUME IInv PROVE TypeOK
  <2>1. today \in AllDates
    BY <1>1, ClockDates DEF IInv, BaseOK
  <2>2. days \in Seq(Cell)
    BY <1>1, PickerShows DEF IInv, BaseOK
  <2>3. weekNotifications \in [0..6 -> SUBSET Notification]
    BY <1>1 DEF IInv, BaseOK, SheetOK, WeekNotifications
  <2> QED
    BY <1>1, <2>1, <2>2, <2>3 DEF IInv, BaseOK, TypeOK
<1> QED
  BY <1>1, Invariance, PTL

\* Every month is laid out with each of its days once, in order and in the column of
\* its weekday, in six rows, in any year: buildDays has no off-by-one.
THEOREM MonthIsAlignedAlways == Spec => []MonthIsAligned
<1>1. IInv => MonthIsAligned
  BY PickerShows DEF IInv, BaseOK
<1> QED
  BY <1>1, Invariance, PTL

\* A day is marked exactly if the page knows of a post scheduled for it, whichever of
\* the month and the scheduled dates changed last.
THEOREM MarksAreScheduledAlways == Spec => []MarksAreScheduled
<1>1. IInv => MarksAreScheduled
  BY PickerShows DEF IInv, BaseOK
<1> QED
  BY <1>1, Invariance, PTL

\* The sheet leaves out no post of the week of the selected day, also around New Year,
\* where the numbers of the weeks begin again, and whatever the locale's first weekday.
THEOREM SheetShowsWeekAlways == Spec => []SheetShowsWeek
<1>1. ASSUME IInv PROVE SheetShowsWeek
  <2>1. weekNotifications = WeekNotifications(allNotifications, date)
    BY <1>1 DEF IInv, SheetOK
  <2>2. date \in CalendarDates
    BY <1>1, DatesAreDates DEF IInv, BaseOK
  <2>3. ASSUME NEW n \in allNotifications PROVE n.date \in CalendarDates
    BY <1>1, <2>3, DatesAssumption DEF IInv, BaseOK, Notification
  <2>4. ASSUME NEW n \in allNotifications, WeekStart(n.date) = WeekStart(date)
        PROVE  n \in weekNotifications[Weekday(n.date) - 1]
    <3>1. InWeekOf(n.date, date)
      BY <2>2, <2>3, <2>4, SameWeek
    <3>2. Weekday(n.date) - 1 \in 0..6
      BY <2>3, WeekdayType
    <3> QED
      BY <2>1, <3>1, <3>2 DEF WeekNotifications
  <2>5. ASSUME NEW i \in 0..6, NEW n \in weekNotifications[i]
        PROVE  n \in allNotifications /\ Weekday(n.date) - 1 = i
    BY <2>1, <2>5 DEF WeekNotifications
  <2> QED
    BY <2>4, <2>5 DEF SheetShowsWeek
<1> QED
  BY <1>1, Invariance, PTL

\* When every read has been shown, no post of another board is on the page, however the
\* changes of the board and the answers, filtered by the board of their moment, interleave.
THEOREM PostsAreOfBoardAlways == Spec => []PostsAreOfBoard
<1>1. IInv => PostsAreOfBoard
  BY DEF IInv, LastIsOfBoard, OfBoard, PostsAreOfBoard
<1> QED
  BY <1>1, Invariance, PTL
=============================================================================
