SPECIFICATION FairSpec
CONSTANTS
    f1 = f1
    f2 = f2
    r1 = r1
    r2 = r2
    Files <- MCFiles
    Runs <- MCRuns
    MaxChanges = 3
    MaxFaults = 2
INVARIANTS
    ReleasedComplete
    Grace
PROPERTIES
    VolumeSpec
    
