SPECIFICATION Spec
CONSTANTS
    Coros = {c1, c2, c3}
    NoLock = NoLock
    Barging = TRUE
INVARIANT
    MutualExclusion
