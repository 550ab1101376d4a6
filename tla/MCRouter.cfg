SPECIFICATION Spec
CONSTANTS
    k1 = k1
    all = all
    a1 = a1
    a2 = a2
    c1 = c1
    c2 = c2
    NoRes = NoRes
    Keys = {k1}
    Ids <- MCIds
    Accounts = {a1, a2}
    Specs = {}
    Calls = {c1, c2}
    Scopes <- MCScopes
    CallCap <- MCCallCap
    MoneyCap <- MCMoneyCap
    KeyOf <- MCSameKey
    Plans <- MCPlans
    ApprovedUntil <- MCApproved
    MaxCost = 1
    MaxActual = 2
    LastDay = 2
INVARIANTS
    EveryBillIsHeld
    OneBillPerKeyAndDay
    
    DefiniteFailureIsSettled
PROPERTIES
    EveryCallEnds
