SPECIFICATION FairSpec
CONSTANTS
    NRows = 2
    Columns <- Table
    GAUGES = {"ttime"}
    COUNTERS <- Counted
    Blank <- Empty
    MaxServed = 2
    MaxStops = 1
    MaxFaults = 1
    MaxDeaths = 1
INVARIANTS
    NoDoubleCount
    NothingLost
PROPERTIES
    CatchesUp
