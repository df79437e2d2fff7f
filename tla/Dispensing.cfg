SPECIFICATION FairSpec
CONSTANTS
    TouchBound = 1
    Payments = {p1}
    NoPayment = none
\* The process may end, and machine.Stop may hang on a cancelled client.
CHECK_DEADLOCK FALSE
INVARIANTS
    TypeOK
    MotorHasOwner
    BuzzerHasOwner
    SafeWhileRunning
    OffAfterExit
PROPERTIES
    OneTurnPerPayment
    PaymentDispensed
    StopEndsProcess
