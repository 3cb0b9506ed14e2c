SPECIFICATION FairSpec
CONSTANTS
    N = 4
    S = 2
    Chunk = 1
    Cap = 2
    Reads <- MCReads
    None = None
INVARIANTS
    InOrder
    ReadWaits
PROPERTIES
    ReadEnds
    SendEnds
