SPECIFICATION FairSpec
CONSTANTS
    a = a
    b = b
    k1 = k1
    NoLaunch = NoLaunch
    Launches <- MCLaunches
    KeyNames <- MCKeyNames
    MaxTries = 2
INVARIANTS
    NoOrphanServer
    NoOrphanKeypair
    KeptServerReachable
    PrivateKeyRemoved
    DoneIsComplete
PROPERTIES
    KeypairNotStolen
    LaunchEnds
CHECK_DEADLOCK FALSE
