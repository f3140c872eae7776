SPECIFICATION FairSpec
CONSTANTS
    MaxTimer = 2
    Intervals = {0, 1}
    MaxTime = 4
    MaxCalls = 4
    MaxDepth = 2
    Precision = 2
    Hang = 1
    Uses = {}
INVARIANTS
    ListsExact
    OncePerWalk
    TickLive
PROPERTY Expires
CHECK_DEADLOCK FALSE
