SPECIFICATION FairSpec
CONSTANTS
    Ids = {i1, i2}
    Watchers = {w1}
    None = none
    StartBound = 1
\* Everybody may be waiting for the next invoice.
CHECK_DEADLOCK FALSE
PROPERTIES
    PaidUnlessWatcherGone
