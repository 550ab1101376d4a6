SPECIFICATION Spec
CONSTANTS
    Ids = {i1, i2}
    Names = {budget_100}
    Cap = 2
    MaxCost = 2
    MaxActual = 3
    TTL = 1
    LastTime = 3
    DayOf <- MCDayOf
SYMMETRY Symmetry
INVARIANTS
    WithinCap
    SpendIsTheSumOfCharges
    HeldUntilTTL

    
