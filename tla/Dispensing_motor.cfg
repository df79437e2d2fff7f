SPECIFICATION Spec
CONSTANTS
    TouchBound = 1
    Payments = {p1}
    NoPayment = none
CHECK_DEADLOCK FALSE
INVARIANTS
    MotorOffAtEnd
