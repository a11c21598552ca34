--------------------------- MODULE MCCalendarPage ---------------------------
(* Around the turn of the year 2020/2021, which splits a week between them.  *)
EXTENDS CalendarPage

CONSTANTS home, shop, p1, p2

MCBoards == {home, shop}
MCPosts == {p1, p2}
MCBoardOf == [p \in MCPosts |-> IF p = p1 THEN home ELSE shop]
MCDates == {<<2020, 12, 31>>, <<2021, 1, 2>>}
MCTaps == {<<2020, 12, 20>>, <<2020, 12, 28>>, <<2021, 1, 1>>}
MCMonths == {<<2020, 12>>, <<2021, 1>>, <<2021, 2>>}
MCToday == {<<2020, 12, 31>>}
MCClock == {<<2020, 12, 31>>, <<2021, 1, 1>>}

\* A year's worth of months: a post scheduled for its last week.
MCYearDates == {<<2021, 12, 28>>}
MCYearTaps == {<<2021, 1, 1>>}
MCYearToday == {<<2021, 1, 1>>}
MCYearMonths == {<<2021, m>> : m \in 1..12}
=============================================================================
