SPECIFICATION FairSpec
CONSTANTS
    Ops = {w1, w2, w3}
    Nil = Nil
    InitSlots = 1
    MaxDelay = 1
    GrowInTimeouts = FALSE
INVARIANTS
    LinksAgree
    FreeListsWhole
    EventsPaired
    NoEventLost
PROPERTIES
    TimeoutServed
