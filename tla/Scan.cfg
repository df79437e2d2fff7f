SPECIFICATION FairSpec
CONSTANTS
    Scans = {s1, s2}
    Wifis = {w1}
    None = none
    QueueSize = 1
    DoneBound = 2
\* Every scan may have returned, failed, or wait for a ScanDone that does not come.
CHECK_DEADLOCK FALSE
INVARIANTS
    TypeOK
    ReturnedCleansUp
    PanicNeedsOverlap
PROPERTIES
    NoNetworkLost
    ScanReturns
    ListedNotified
