SPECIFICATION Spec
CONSTANTS
    Ids = {i1, i2, i3}
    Names = {budget_100}
    Cap = 2
    MaxCost = 2
    MaxActual = 2
    TTL = 1
    LastTime = 3
    DayOf <- MCDayOf
SYMMETRY Symmetry
PROPERTIES
    DamageBlocksTheDay
