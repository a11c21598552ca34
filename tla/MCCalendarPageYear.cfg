SPECIFICATION Spec
CONSTANTS
    home = home
    shop = shop
    p1 = p1
    p2 = p2
    FirstWeekday = 1
    MinimalDays = 1
    Boards <- MCBoards
    Posts <- MCPosts
    BoardOf <- MCBoardOf
    Clock <- MCYearToday
    MaxReads = 2
    Dates <- MCYearDates
    Taps <- MCYearTaps
    Months <- MCYearMonths
    Today <- MCYearToday
INVARIANTS
    EventsAreOfTheWeek
