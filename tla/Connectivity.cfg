SPECIFICATION FairSpec
CONSTANTS
    Services = {pos}
    Nodes = nodes
    None = none
    ChangeBound = 3
\* The process may end, or everybody may wait for the next change.
CHECK_DEADLOCK FALSE
INVARIANTS
    TypeOK
    StopReachesListen
    NewsOnTheWay
PROPERTIES
    RegisteredHears
    StartsPublish
    LoopsEnd
