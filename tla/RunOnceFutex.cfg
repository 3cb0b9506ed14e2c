SPECIFICATION FairSpec
CONSTANTS
    Threads = {t1, t2, t3}
    LLSC = FALSE
    WeakOrder = FALSE
INVARIANTS
    RunsOnce
    ReturnSeesInit
    SleeperMarked
PROPERTIES
    KeepsPromise
    CallReturns
