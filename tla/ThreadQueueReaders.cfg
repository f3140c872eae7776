SPECIFICATION Spec
CONSTANTS
    w1 = w1
    r1 = r1
    r2 = r2
    Writers = {w1}
    Readers = {r1, r2}
    NoThread = NoThread
    MaxMsg = 2
    MinSize = 3
    PoolMax = 1
    Sizes = {1}
    MaxOpen = 1
INVARIANT FreedUnused
