SPECIFICATION Spec
CONSTANTS
    Threads = {t1, t2, t3}
    Blocks = {b1, b2, b3}
    Values = {v0, v1}
    NoBlock = NoBlock
    NotCached = NotCached
    MAXOPBLOCKS = 1
    LOGSIZE = 3
    NLOG = 3
    MaxOpWrites = 1
    MaxCrashes = 0
INVARIANTS
    NoLogPanic
