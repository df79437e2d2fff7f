SPECIFICATION Spec
CONSTANTS
    Ids = {i1}
    Watchers = {w1}
    None = none
    StartBound = 2
\* Everybody may be waiting for the next invoice.
CHECK_DEADLOCK FALSE
INVARIANTS
    TypeOK
    PaidPerStart
    CancelledIsSilent
PROPERTIES
    EndsAfterStop
    BilledByStream
