SPECIFICATION Spec
SYMMETRY Alike
CONSTANTS
    Items = {a, b, c, d, e}
    Hashes = {0, 1, 3, 6}
    MinSize = 4
    Free = Free
    Tomb = Tomb
INVARIANTS
    Findable
    ShownOnce
