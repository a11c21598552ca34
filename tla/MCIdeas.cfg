SPECIFICATION FairSpec
CONSTANTS
    home = home
    shop = shop
    i1 = i1
    p1 = p1
    title1 = title1
    Boards = {home, shop}
    Ideas = {i1}
    Pastes = {p1}
    BoardOf <- MCBoardOf
    TitleOf <- MCTitleOf
    NoPaste = NoPaste
    NoSort = NoSort
    AllCards = AllCards
    Nil = Nil
    MaxWrites = 1
    MaxMain = 1
INVARIANTS
    TypeOK
    ListFollowsBoard
PROPERTIES
    UpdateKeepsPaste
    UpdatedIdeaExists
    StoredIdeaAppears
CHECK_DEADLOCK FALSE
