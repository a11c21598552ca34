---------------------------- MODULE CalendarPage ----------------------------
(***************************************************************************)
(* The calendar tab of InsideBoardView: CalendarPageView, its sheet with the  *)
(* scheduled posts of a week, and AppDatePickerViewModel, which lays out a   *)
(* month.                                                                   *)
(*                                                                          *)
(* The page reads the pending notifications of UNUserNotificationCenter.    *)
(* The answer comes on another thread, is filtered there by the board shown *)
(* at that moment, and is assigned later, on the main queue.                *)
(***************************************************************************)
EXTENDS Gregorian, Sequences

CONSTANTS
    Boards,     \* the boards of the user
    Posts,      \* posts that may be scheduled
    BoardOf,    \* the board of each post
    Dates,      \* bound: dates for which posts are scheduled
    Taps,       \* bound: dates whose cells the user taps
    Months,     \* bound: months the user leafs through
    Today,      \* the dates on which the page may be opened first
    Clock,      \* bound: the dates of the clock
    MaxReads    \* bound: reads of the notification center in flight

ASSUME BoardOfAssumption == BoardOf \in [Posts -> Boards]
ASSUME MaxReadsAssumption == MaxReads \in Nat
ASSUME DatesAssumption == Dates \cup Taps \subseteq CalendarDates
ASSUME MonthsAssumption == Months \subseteq CalendarMonths
ASSUME ClockAssumption ==
    Today \subseteq Clock /\ \A d \in Clock : MonthOf(d) \in Months /\ d \in DatesOf(MonthOf(d))

VARIABLES
    today,      \* the clock
    pending,    \* pending notifications, one for a post
    board,      \* the board shown by InsideBoardView
    open,       \* is the tab shown?
    date, allNotifications, scheduledDates, weekNotifications,
                \* @State of CalendarPageView
    control,    \* controlDate: its month
    days,       \* days of AppDatePickerViewModel
    reads,      \* number of getPendingNotificationRequests under way
    main        \* the main queue: filtered answers, oldest first

pageVars == <<date, allNotifications, scheduledDates, weekNotifications>>
pickerVars == <<control, days>>
queueVars == <<reads, main>>
vars == <<today, pending, board, open, pageVars, pickerVars, queueVars>>

Notification == [uid : Posts, date : Dates]
NoDate == <<>>
AllDates == (UNION {DatesOf(m) : m \in Months}) \cup Dates \cup Taps
Cell == [day : 0..31, date : AllDates \cup {NoDate},
         isSelected : BOOLEAN, isToday : BOOLEAN]

TypeOK ==
    /\ today \in AllDates
    /\ pending \subseteq Notification
    /\ board \in Boards
    /\ open \in BOOLEAN
    /\ date \in AllDates
    /\ allNotifications \subseteq Notification
    /\ scheduledDates \subseteq Dates
    /\ weekNotifications \in [0..6 -> SUBSET Notification]
    /\ control \in Months
    /\ days \in Seq(Cell)
    /\ reads \in 0..MaxReads
    /\ main \in Seq(SUBSET Notification)

-----------------------------------------------------------------------------
(* The month.                                                                *)

Blank == [day |-> 0, date |-> NoDate, isSelected |-> FALSE, isToday |-> FALSE]
DayCell(d, scheduled, now) ==
    [day |-> d[3], date |-> d, isSelected |-> d \in scheduled, isToday |-> d = now]

\* Mutant: the blanks of the first week are one too many.
BuildDaysShifted(month, scheduled, now) ==
    LET ord   == Weekday(<<month[1], month[2], 1>>)
        cells == [i \in 1..ord |-> Blank]
                   \o [d \in 1..MonthLength(month[1], month[2]) |->
                          DayCell(<<month[1], month[2], d>>, scheduled, now)]
    IN  cells \o [i \in 1..(42 - Len(cells)) |-> Blank]

\* buildDays: blanks up to the weekday of the first, the days, blanks up to 42.
BuildDays(month, scheduled, now) ==
    LET ord   == Weekday(<<month[1], month[2], 1>>)
        cells == [i \in 1..(ord - 1) |-> Blank]
                   \o [d \in 1..MonthLength(month[1], month[2]) |->
                          DayCell(<<month[1], month[2], d>>, scheduled, now)]
    IN  cells \o [i \in 1..(42 - Len(cells)) |-> Blank]

-----------------------------------------------------------------------------
(* The week.                                                                 *)

InWeekOf(d, e) == WeekOfYear(d) = WeekOfYear(e)

NoWeek == [i \in 0..6 |-> {}]

\* Mutant: the index of the day is the weekday itself.
WeekNotificationsFromOne(all, d) ==
    [i \in 1..7 |-> {n \in all : InWeekOf(n.date, d) /\ Weekday(n.date) = i}]

\* getWeekNotifications: the notifications of the week, by the index of their day.
WeekNotifications(all, d) ==
    [i \in 0..6 |-> {n \in all : InWeekOf(n.date, d) /\ Weekday(n.date) - 1 = i}]

-----------------------------------------------------------------------------
(* The page.                                                                 *)

\* getNotifications
GetNotifications == reads + Len(main) < MaxReads /\ reads' = reads + 1

Init ==
    /\ today \in Today
    /\ pending = {}
    /\ board \in Boards
    /\ open = FALSE
    /\ date = today
    /\ allNotifications = {} /\ scheduledDates = {} /\ weekNotifications = NoWeek
    /\ control = MonthOf(today)
    /\ days = BuildDays(control, {}, today)
    /\ reads = 0 /\ main = <<>>

\* The tab's view is new each time: date is Date(), the picker shows its month.
\* (While the tab is closed the variables of the view mean nothing.)
OpenTab ==
    /\ ~open
    /\ open' = TRUE
    /\ date' = today
    /\ control' = MonthOf(today)
    /\ days' = BuildDays(control', {}, today)
    /\ GetNotifications
    /\ UNCHANGED <<today, pending, board, allNotifications, scheduledDates,
                   weekNotifications, main>>

\* Another tab: what answers later finds no view.
CloseTab ==
    /\ open
    /\ open' = FALSE
    /\ allNotifications' = {} /\ scheduledDates' = {} /\ weekNotifications' = NoWeek
    /\ date' = today
    /\ control' = MonthOf(today)
    /\ days' = BuildDays(control', {}, today)
    /\ reads' = 0 /\ main' = <<>>
    /\ UNCHANGED <<today, pending, board>>

\* Mutant: the page does not notice.
ChangeBoardUnnoticed(b) ==
    /\ b # board
    /\ board' = b
    /\ UNCHANGED <<today, pending, open, pageVars, pickerVars, queueVars>>

\* The profile sheet changes the board, and the page reads again.
ChangeBoard(b) ==
    /\ b # board
    /\ board' = b
    /\ IF open THEN GetNotifications ELSE UNCHANGED reads
    /\ UNCHANGED <<today, pending, open, pageVars, pickerVars, main>>

\* Filtered on the thread of the answer by the board of that moment.
NotificationsRead ==
    /\ reads > 0
    /\ reads' = reads - 1
    /\ main' = Append(main, {n \in pending : BoardOf[n.uid] = board})
    /\ UNCHANGED <<today, pending, board, open, pageVars, pickerVars>>

\* Mutant: the picker does not observe the scheduled dates.
NotificationsShownUnobserved ==
    /\ main # <<>>
    /\ main' = Tail(main)
    /\ allNotifications' = Head(main)
    /\ scheduledDates' = {n.date : n \in Head(main)}
    /\ weekNotifications' = WeekNotifications(allNotifications', date)
    /\ UNCHANGED <<today, pending, board, open, date, pickerVars, reads>>

\* The block of the main queue; a change of the dates rebuilds the month.
NotificationsShown ==
    /\ main # <<>>
    /\ main' = Tail(main)
    /\ allNotifications' = Head(main)
    /\ scheduledDates' = {n.date : n \in Head(main)}
    /\ weekNotifications' = WeekNotifications(allNotifications', date)
    /\ days' = IF scheduledDates' = scheduledDates THEN days
               ELSE BuildDays(control, scheduledDates', today)
    /\ UNCHANGED <<today, pending, board, open, date, control, reads>>

\* incrMonth, decrMonth, show(month:year:)
ShowMonth(month) ==
    /\ open
    /\ control' = month
    /\ days' = BuildDays(month, scheduledDates, today)
    /\ UNCHANGED <<today, pending, board, open, pageVars, queueVars>>

Leaf ==
    \/ AddMonths(control, 1) \in Months /\ ShowMonth(AddMonths(control, 1))
    \/ AddMonths(control, -1) \in Months /\ ShowMonth(AddMonths(control, -1))
    \/ \E month \in Months : ShowMonth(month)

\* Mutant: the week of the sheet stays.
SelectDayOnly(i) ==
    /\ open
    /\ days[i].date \in Taps
    /\ date' = days[i].date
    /\ UNCHANGED <<today, pending, board, open, allNotifications, scheduledDates,
                   weekNotifications, pickerVars, queueVars>>

\* selectDay, and onChange(of: date) of the page.
SelectDay(i) ==
    /\ open
    /\ days[i].date \in Taps
    /\ date' = days[i].date
    /\ weekNotifications' = WeekNotifications(allNotifications, date')
    /\ UNCHANGED <<today, pending, board, open, allNotifications, scheduledDates,
                   pickerVars, queueVars>>

\* The publish button of a notification in the sheet: the page is not told.
Publish(n) ==
    /\ open
    /\ n \in UNION {weekNotifications[i] : i \in 0..6}
    /\ pending' = pending \ {n}
    /\ UNCHANGED <<today, board, open, pageVars, pickerVars, queueVars>>

-----------------------------------------------------------------------------
(* The rest of the app and the world.                                        *)

\* The screens of a post, in another tab, schedule it, again perhaps.
Schedule(p, d) ==
    /\ ~open
    /\ DayNumber(d) >= DayNumber(today)
    /\ pending' = {n \in pending : n.uid # p} \cup {[uid |-> p, date |-> d]}
    /\ UNCHANGED <<today, board, open, pageVars, pickerVars, queueVars>>

\* A notification fires, or its post is deleted.
NotificationLeaves(n) ==
    /\ n \in pending
    /\ pending' = pending \ {n}
    /\ UNCHANGED <<today, board, open, pageVars, pickerVars, queueVars>>

Midnight ==
    /\ Tomorrow(today) \in Clock
    /\ today' = Tomorrow(today)
    /\ UNCHANGED <<pending, board, open, pageVars, pickerVars, queueVars>>

Next ==
    \/ OpenTab \/ CloseTab
    \/ \E b \in Boards : ChangeBoard(b)
    \/ NotificationsRead \/ NotificationsShown
    \/ Leaf
    \/ \E i \in DOMAIN days : SelectDay(i)
    \/ \E n \in Notification : Publish(n) \/ NotificationLeaves(n)
    \/ \E p \in Posts, d \in Dates : Schedule(p, d)
    \/ Midnight

Spec == Init /\ [][Next]_vars

-----------------------------------------------------------------------------
(* Properties.                                                               *)

\* Each day of the month shown is there once, in order, in the column of its
\* weekday, and six rows are always enough.
MonthIsAligned ==
    LET shown == {i \in DOMAIN days : days[i].day # 0}
    IN  /\ Len(days) = 42
        /\ {days[i].date : i \in shown} = DatesOf(control)
        /\ \A i, j \in shown : i < j => days[i].day < days[j].day
        /\ \A i \in shown : /\ days[i].date[3] = days[i].day
                             /\ Weekday(days[i].date) = ((i - 1) % 7) + 1

\* A day is marked exactly if the page knows a post scheduled for it, whichever
\* of the month and the scheduled dates changed last.
MarksAreScheduled ==
    \A i \in DOMAIN days :
        days[i].day # 0 => (days[i].isSelected <=> days[i].date \in scheduledDates)

\* The sheet leaves out no post of the week of the selected day, and lists each
\* under its own weekday.
SheetShowsWeek ==
    open =>
        /\ \A n \in allNotifications :
               WeekStart(n.date) = WeekStart(date) =>
                   n \in weekNotifications[Weekday(n.date) - 1]
        /\ \A i \in 0..6 : \A n \in weekNotifications[i] :
               n \in allNotifications /\ Weekday(n.date) - 1 = i

\* When every read has been shown, no post of another board is on the page.
PostsAreOfBoard ==
    reads = 0 /\ main = <<>> => \A n \in allNotifications : BoardOf[n.uid] = board

\* Localizable.strings:52 calls what the sheet lists "Events of the week".
EventsAreOfTheWeek ==
    \A i \in 0..6 : \A n \in weekNotifications[i] : WeekStart(n.date) = WeekStart(date)
=============================================================================
