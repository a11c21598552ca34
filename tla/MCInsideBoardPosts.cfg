SPECIFICATION Spec
CONSTANTS
    b1 = b1
    b2 = b2
    p1 = p1
    s1 = s1
    s2 = s2
    Boards = {b1, b2}
    Posts = {p1}
    Slots = {s1}
    NoUid = NoUid
    Nil = Nil
    Tabs = {0, 1}
    MaxWrites = 2
    ReadOutcomes = {TRUE}
    WriteOutcomes = {TRUE, FALSE}
SYMMETRY Symmetry
INVARIANTS
    NotificationHasPost
PROPERTIES
    DeletionSilences
CHECK_DEADLOCK FALSE
