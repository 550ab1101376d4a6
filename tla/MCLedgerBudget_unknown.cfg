SPECIFICATION Spec
CONSTANTS
    k1 = k1
    k2 = k2
    i1 = i1
    i2 = i2
    i3 = i3
    all = all
    route = route
    a1 = a1
    a2 = a2
    Keys = {k1, k2}
    Ids = {i1, i2, i3}
    Accounts = {a1}
    Scopes <- MCScopes
    Specs <- MCSpecs
    CallCap <- MCCallCap
    MoneyCap <- MCMoneyCap
    MaxCost = 2
    MaxActual = 3
    LastDay = 2
SYMMETRY Symmetry
INVARIANTS
    UnknownCanBeReconciled
