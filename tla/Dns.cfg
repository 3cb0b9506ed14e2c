SPECIFICATION FairSpec
CONSTANTS
    Lookups = {l1, l2}
    Trids = {t1, t2, t3}
    Period = 2
    MaxTries = 2
    None = None
    Restart = FALSE
INVARIANTS
    Heard
    TimerEarly
    SlotsWhole
PROPERTIES
    LookupEnds
    SocketCloses
