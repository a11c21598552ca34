SPECIFICATION Spec
CONSTANTS
    home = home
    shop = shop
    p1 = p1
    p2 = p2
    FirstWeekday = 1
    MinimalDays = 1
    Boards <- MCBoards
    Posts <- MCPosts
    BoardOf <- MCBoardOf
    Clock <- MCClock
    MaxReads = 2
    Dates <- MCDates
    Taps <- MCTaps
    Months <- MCMonths
    Today <- MCToday
INVARIANTS
    TypeOK
    MonthIsAligned
    MarksAreScheduled
    SheetShowsWeek
    PostsAreOfBoard
