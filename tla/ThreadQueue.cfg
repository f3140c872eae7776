SPECIFICATION FairSpec
CONSTANTS
    w1 = w1
    w2 = w2
    r1 = r1
    Writers = {w1, w2}
    Readers = {r1}
    NoThread = NoThread
    MaxMsg = 3
    MinSize = 3
    PoolMax = 1
    Sizes = {1, 2, 4}
    MaxOpen = 1
INVARIANTS
    TypeOK
    FreedUnused
    FetchedComplete
    PendingExact
PROPERTIES
    ImplementsMsgQueue
    AllFetched
