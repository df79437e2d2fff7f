SPECIFICATION FairSpec
CONSTANTS
    Ids = {u1}
    Clients = {c1, c2}
    None = none
    ProgressBound = 1
    RestartBound = 0
CHECK_DEADLOCK FALSE
PROPERTIES
    ReleasedUnlessClientGone
