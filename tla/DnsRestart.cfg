SPECIFICATION Spec
CONSTANTS
    Lookups = {l1, l2}
    Trids = {t1, t2}
    Period = 1
    MaxTries = 1
    None = None
    Restart = TRUE
INVARIANT
    Heard
