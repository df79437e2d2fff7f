SPECIFICATION Spec
CONSTANTS
    Ids = {u1, u2}
    Clients = {c1}
    None = none
    ProgressBound = 1
    RestartBound = 1
SYMMETRY UpdateSymmetry
\* Every request may have returned and the last notification may hang.
CHECK_DEADLOCK FALSE
INVARIANTS
    TypeOK
    InstalledIsTrue
    OutcomeSaved
PROPERTIES
    UpdatesTakeTurns
