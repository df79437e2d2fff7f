SPECIFICATION Spec
CONSTANTS
    Wifis = {w1, w2}
    Requests = {r1, r2}
    Attempt = attempt
    None = none
    RestartBound = 1
SYMMETRY WifiSymmetry
INVARIANTS
    TypeOK
    ConnectedIsSaved
PROPERTIES
    ConnectionsHold
