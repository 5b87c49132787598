SPECIFICATION FairSpec
CONSTANTS
    NPROC = 3
    cpu0 = cpu0
    cpu1 = cpu1
    CPUs = {cpu0}
    BootCPU = cpu0
    None = None
    MAX_PRIORITY = 4
    PRIORITY_GRANULARITY = 2
    DEFAULT_PRIORITY = 2
    Prios = {0}
    KillArgs = {2}
    SleepArgs = {1}
    NPAGES = 6
    MaxPid = 3
    MaxTicks = 1
PROPERTIES
    RunnableRuns
    KilledExits
    OrphanReaped
    SleepEnds
