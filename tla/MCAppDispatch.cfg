SPECIFICATION Spec
CONSTANTS
    c1 = c1
    c2 = c2
    NoRes = NoRes
    Calls = {c1, c2}
    Lanes <- MCLanes
    Threshold <- MCThreshold
    Ids <- MCIds
    Names = {"full", "credit"}
    Cap = 2
    MaxCost = 1
    MaxActual = 1
    TTL = 1
    LastTime = 2
    DayOf <- MCDayOf
SYMMETRY Symmetry
INVARIANTS
    EveryBillIsHeld
    SentWithinCap
    NothingLeftBehind
    
    
CHECK_DEADLOCK FALSE
