SPECIFICATION Spec
CONSTANTS
    home = home
    p1 = p1
    p2 = p2
    v1 = v1
    p3 = p3
    Boards = {home}
    Empty = Empty
    Nothing = Nothing
    PostsOf <- MCPostsOf
    Versions = {v1}
    MaxLoads = 1
    MaxAnswers = 1
INVARIANTS
    TypeOK
    PreviewIsOwn
    SavedIsOwn
    CrashNeedsReload
PROPERTIES
    DragMovesOne
