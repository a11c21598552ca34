SPECIFICATION FairSpec
CONSTANTS
    s1 = s1
    Slots = {s1}
    MaxVersion = 2
    MaxSaves = 2
    Nil = Nil
INVARIANTS
    TypeOK
    ShownIsStored
    CoverFollows
PROPERTIES
    NoLostUpdate
    ProgressEnds
CHECK_DEADLOCK FALSE
