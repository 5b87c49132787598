SPECIFICATION Spec
CONSTANTS
    Threads = {t1, t2}
    Hands = {h1, h2}
    LogBlocks = {l1}
    HomeBlocks = {b1, b2, b3}
    Blocks <- MCBlocks
    Nested <- MCNested
    Values = {v0, v1}
    NBUF = 2
    NoBlock = NoBlock
    NoThread = NoThread
    Nothing = Nothing
    MaxPinned = 1
SYMMETRY Symmetry
INVARIANTS
    TypeOK
    SleeperHasWaker
PROPERTIES
    OnlyBgetPanics
    ImplementsBlockStore
