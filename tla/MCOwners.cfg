SPECIFICATION Spec
CONSTANTS
    Teams = {t1, t2}
    Accounts = {1, 2, 3}
    Addresses = {1, 2}
    Dates = {1, 2}
    Details <- OddDetails
    Atcs = {2}
    Stamp = 9
    None = None
    MaxChanges = 3
    MaxAtcs = 1
SYMMETRY Symmetry
CHECK_DEADLOCK FALSE
INVARIANTS
    AddressesKept
    MergedUnlessBridged
    EveryChangeCounts
    EveryVoterListed
