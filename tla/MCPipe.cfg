SPECIFICATION Spec
CONSTANTS
    Procs = {p1, p2}
    NoResult = NoResult
    Junk = Junk
    NFILE = 3
    NOFILE = 2
    PIPESIZE = 2
    WORD = 4
    Lengths = {1, 3}
INVARIANTS
    TypeOK
    PipeInUse
    NoLostWakeup
PROPERTIES
    ImplementsByteQueue
