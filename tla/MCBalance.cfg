CONSTANTS
    Keys = {k1, k2, k3}
    MaxInvokers = 4
    MaxSteps = 4
    Callers = {c1, c2}
    Strategies = {"random", "cpu", "hash"}
SPECIFICATION BalanceSpec
INVARIANTS
    RoutedToListed
CHECK_DEADLOCK FALSE
SYMMETRY Symmetry
