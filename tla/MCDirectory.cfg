CONSTANTS
    Keys = {k1, k2}
    MaxInvokers = 6
    MaxChanges = 1
    MaxRefused = 1
SPECIFICATION FairSpec
INVARIANTS
    InvokersAccounted
PROPERTIES
    ImplementsTable
    Refreshes
CHECK_DEADLOCK FALSE
