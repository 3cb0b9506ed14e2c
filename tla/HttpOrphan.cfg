SPECIFICATION Spec
CONSTANTS
    Gets = {g1}
    Posts = {p1}
    Elsewhere = {{}}
    None = None
INVARIANT
    RightAnswer
CHECK_DEADLOCK FALSE
