SPECIFICATION FairSpec
CONSTANTS
    Sizes <- MCSizes
    Capacity = 2
    ReadMax = 2
    MaxCalls = 5
    MaxDepth = 9
    DelInWait = FALSE
INVARIANTS
    TypeOK
    FreedUnused
PROPERTIES
    ImplementsPipe
    Drained
CHECK_DEADLOCK FALSE
