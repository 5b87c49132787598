SPECIFICATION FairSpec
CONSTANTS
    Threads = {t1, t2}
    Blocks = {b1, b2}
    Values = {v0, v1}
    NoBlock = NoBlock
    NotCached = NotCached
    MAXOPBLOCKS = 4
    LOGSIZE = 8
    NLOG = 8
    MaxOpWrites = 2
    MaxCrashes = 2
INVARIANTS
    TypeOK
    NoLogPanic
    SleeperHasWaker
    QuiescentDurable
PROPERTIES
    ImplementsTransDisk
    CommitEnds
