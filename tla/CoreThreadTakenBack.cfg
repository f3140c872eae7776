SPECIFICATION Spec
CONSTANTS
    j1 = j1
    j2 = j2
    w1 = w1
    w2 = w2
    Jobs = {j1, j2}
    Threads = {w1, w2}
    NoJob = NoJob
    NoThread = NoThread
    InitMax = 2
    MaxValues = {}
    MaxNotify = 0
    MaxResched = 0
    MaxFail = 2
    ReschedKinds = {}
    Cancellable = {}
INVARIANT NoDoubleCallback
