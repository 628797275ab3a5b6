SPECIFICATION FairSpec
CONSTANTS
    g1 = g1
    g2 = g2
    a1 = a1
    a2 = a2
    b1 = b1
    o1 = o1
    Master = master
    Review = review
    Hosts <- OtherHosts
    Git <- MCNone
    Afs <- OneAfs
    Baremetal <- MCBaremetal
    Controller <- MCNone
    Compute <- MCNone
    Scripts <- Both
    Disableable <- SomeHosts
    Forks = 2
    MaxHead = 0
    MaxChanges = 2
    MaxFaults = 1
INVARIANTS
    ScriptsApart
    DisabledSkipped
PROPERTIES
    EveryHostRuns
