SPECIFICATION Spec
CONSTANTS
    Ids = {n1, n2}
    Requests = {r1, r2}
    None = none
    RestartBound = 1
SYMMETRY NodeSymmetry
\* Every uuid may be used up.
CHECK_DEADLOCK FALSE
INVARIANTS
    TypeOK
    ListMirrorsBucket
PROPERTIES
    CallsTakeEffect
