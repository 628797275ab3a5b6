SPECIFICATION PagesFairSpec
CONSTANTS
    c1 = c1
    c2 = c2
    c3 = c3
    c4 = c4
    c5 = c5
    a = a
    b = b
    n = n
    Changes <- MCChanges
    Accounts <- MCAccounts
    Owner <- MCOwner
    Period <- MCPeriod
    Nameless <- MCNameless
    Tools <- MCTools
    PageSize = 2
    MaxMoves = 2
    MaxOffset = 8
INVARIANTS
    NothingMissed
    NoneTwice
    RollComplete
PROPERTIES
    WalkEnds
CHECK_DEADLOCK FALSE
