SPECIFICATION SpamSpec
CONSTANTS
    Authors = {a, s}
    Spammer = s
    MaxComments = 4
    MaxMessages = 2
INVARIANTS
    NoDanglingParent
    AllOrNothing
    OthersKept
CHECK_DEADLOCK FALSE
