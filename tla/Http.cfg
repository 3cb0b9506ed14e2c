SPECIFICATION FairSpec
CONSTANTS
    Gets = {g1, g2, g3}
    Posts = {p1}
    Elsewhere = {{g3}}
    None = None
INVARIANTS
    CheckedRightAnswer
    OneOnSocket
    SentOnce
    ReaderServed
    OneOrigin
PROPERTIES
    KeepsOrder
    RequestEnds
CHECK_DEADLOCK FALSE
