SPECIFICATION Spec
CONSTANTS
    Keys = {k1, k2}
    Vals = {small1, small2, large}
    Large = {large}
    LargeSize = 2
    Sizes = {1, 2, 4, 8, 16}
    MaxSize = 16
    StartSize = 4
    GrowAt = 1
    RehashAt = 2
    None = None
INVARIANTS
    WellFormed
    OneStray
PROPERTY
    KeepsMap
CHECK_DEADLOCK FALSE
