SPECIFICATION FairSpec
CONSTANTS
    Coros = {c1, c2, c3, c4, c5}
    NoLock = NoLock
    Barging = FALSE
INVARIANTS
    MutualExclusion
    NoLostHandoff
    LockKnown
PROPERTIES
    KeepsOrder
    WaiterServed
