SPECIFICATION DeviceFairSpec
CONSTANTS
    ana = ana
    clea = clea
    NoUser = NoUser
    EmailUsers <- MCEmailUsers
    AppleUsers <- MCAppleUsers
    MaxFetches = 2
INVARIANTS
    DeviceTypeOK
    LoadingIsCall
    OutOnlyAfterFailure
    NewcomerSeesOwn
    DiesOnlyAfterFailure
PROPERTIES
    LoadingEnds
    ImplementsAccount
