SPECIFICATION Spec
CONSTANTS
    MaxPromise = 3
    MaxFuture = 8
    MaxCalls = 4
    Contexts = {"all", "race"}
    Values = {}
    Uses = {"discard"}
INVARIANT PromiseOnce
CHECK_DEADLOCK FALSE
