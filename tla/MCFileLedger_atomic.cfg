SPECIFICATION Spec
CONSTANTS
    k1 = k1
    k2 = k2
    all = all
    route = route
    a1 = a1
    NoProc = NoProc
    NoRes = NoRes
    Procs = {p1, p2}
    Keys = {k1, k2}
    Ids = {i1, i2}
    Accounts = {a1}
    Scopes <- MCScopes
    Specs <- MCSpecs
    CallCap <- MCCallCap
    MoneyCap <- MCMoneyCap
    MonthOf <- MCMonthOf
    Faults = {}
    MaxCost = 1
    MaxActual = 2
    MaxSeq = 4
    LastDay = 2
SYMMETRY Symmetry
INVARIANTS
    CompactionIsAtomic
CHECK_DEADLOCK FALSE
