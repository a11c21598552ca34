SPECIFICATION FairSpec
CONSTANTS
    b1 = b1
    b2 = b2
    p1 = p1
    s1 = s1
    s2 = s2
    Boards = {b1}
    Posts = {}
    Slots = {s1, s2}
    NoUid = NoUid
    Nil = Nil
    Tabs = {0, 1}
    MaxWrites = 1
    ReadOutcomes = {TRUE, FALSE}
    WriteOutcomes = {TRUE}

PROPERTIES
    SpinnerStops
CHECK_DEADLOCK FALSE
