SPECIFICATION FairSpec
CONSTANTS
    MaxPromise = 4
    MaxFuture = 9
    MaxCalls = 6
    Contexts = {"all", "race"}
    Values = {"error", "promise", "continue", "future"}
    Uses = {}
INVARIANTS
    TypeOK
    NoDangling
    CallbackOnce
    PromiseOnce
    PendingExact
    ChainOrder
PROPERTIES
    Served
CHECK_DEADLOCK FALSE
