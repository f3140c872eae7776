SPECIFICATION FairSpec
CONSTANTS
    t1 = t1
    t2 = t2
    Threads = {t1, t2}
    Main = Main
    MaxOrders = 3
    MaxNest = 2
    Spurious = FALSE
INVARIANTS
    TypeOK
    Exclusive
    LoopIdentity
    NestingCounted
    SyncExecuted
    OrdersLive
    WakeupPending
PROPERTIES
    CallsReturn
