SPECIFICATION Spec
CONSTANTS
    NPROC = 4
    cpu0 = cpu0
    cpu1 = cpu1
    CPUs = {cpu0}
    BootCPU = cpu0
    None = None
    MAX_PRIORITY = 4
    PRIORITY_GRANULARITY = 2
    DEFAULT_PRIORITY = 2
    Prios = {}
    KillArgs = {0, 3}
    SleepArgs = {}
    NPAGES = 6
    MaxPid = 5
    MaxTicks = 0
INVARIANTS
    PagesConserved
    PidsUnique
    ParentAlive
CHECK_DEADLOCK FALSE
