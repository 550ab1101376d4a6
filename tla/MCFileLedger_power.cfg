SPECIFICATION Spec
CONSTANTS
    k1 = k1
    k2 = k2
    all = all
    route = route
    a1 = a1
    NoProc = NoProc
    NoRes = NoRes
    Procs = {p1, p2}
    Keys = {k1, k2}
    Ids = {i1, i2}
    Accounts = {a1}
    Scopes <- MCScopes
    Specs <- MCRouteSpecs
    CallCap <- MCCallCap
    MoneyCap <- MCMoneyCap
    MonthOf <- MCMonthOf
    Faults = {"abort", "power"}
    MaxCost = 1
    MaxActual = 1
    MaxSeq = 3
    LastDay = 1
SYMMETRY Symmetry
INVARIANTS
    NothingToldIsLost
CHECK_DEADLOCK FALSE
