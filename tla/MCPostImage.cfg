SPECIFICATION FairSpec
CONSTANTS
    i1 = i1
    i2 = i2
    g1 = g1
    g2 = g2
    Images = {i1, i2}
    GetSlots = {g1, g2}
    NoImage = NoImage
    MaxCalls = 3
INVARIANTS
    TypeOK
    LocalIsLatest
    RemoteSettles
PROPERTIES
    UploadsOnlyPicked
    OverlayGoes
