SPECIFICATION Spec
CONSTANTS
    Teams = {t1}
    Accounts = {1, 2, 3}
    Addresses = {1, 2}
    Dates = {1}
    Details <- FewDetails
    Atcs = {}
    Stamp = 9
    None = None
    MaxChanges = 3
    MaxAtcs = 0
CHECK_DEADLOCK FALSE
INVARIANTS
    DuplicatesMerged
