SPECIFICATION Spec
CONSTANTS
    j1 = j1
    j2 = j2
    w1 = w1
    w2 = w2
    Jobs = {j1, j2}
    Threads = {w1, w2}
    NoJob = NoJob
    NoThread = NoThread
    InitMax = 1
    MaxValues = {2}
    MaxNotify = 1
    MaxResched = 1
    MaxFail = 0
    ReschedKinds = {"short"}
    Cancellable = {}
SYMMETRY Symmetry
INVARIANTS
    TypeOK
    NoUseAfterRelease
    CallbackOnce
    NotifiedBeforeRelease
    EndMeansCompleted
    WaiterOnStack
    ShutdownOutcome
