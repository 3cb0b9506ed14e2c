SPECIFICATION ListFairSpec
CONSTANT Threads = {t1, t2, t3, t4}
INVARIANTS
    NodesAlive
    OnListOnce
PROPERTIES
    ListKeepsPromise
    ListCallReturns
