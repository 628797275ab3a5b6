SPECIFICATION FairSpec
CONSTANTS
    Changes <- MCChanges
    NoChange = NoChange
    None = None
    zuul_inline = TRUE
    Threads = {t1, t2}
    MaxPatchset = 2
INVARIANTS
    Watched
PROPERTIES
    LeftThreadsEnd
    HiddenThreadsEnd
