SPECIFICATION FairSpec
CONSTANTS
    g1 = g1
    g2 = g2
    a1 = a1
    a2 = a2
    b1 = b1
    o1 = o1
    Master = master
    Review = review
    Hosts <- GitHosts
    Git <- MCGit
    Afs <- MCNone
    Baremetal <- MCNone
    Controller <- MCNone
    Compute <- MCNone
    Scripts <- RunAll
    Disableable <- OneGit
    Forks = 2
    MaxHead = 2
    MaxChanges = 1
    MaxFaults = 2
INVARIANTS
    GitBeforeGerrit
PROPERTIES
    VersionArrives
