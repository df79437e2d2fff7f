SPECIFICATION Spec
CONSTANTS
    Ids = {i1}
    Watchers = {w1}
    None = none
    StartBound = 2
CHECK_DEADLOCK FALSE
INVARIANTS
    PaidOnce
