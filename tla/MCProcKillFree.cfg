SPECIFICATION Spec
CONSTANTS
    NPROC = 3
    cpu0 = cpu0
    cpu1 = cpu1
    CPUs = {cpu0}
    BootCPU = cpu0
    None = None
    MAX_PRIORITY = 4
    PRIORITY_GRANULARITY = 2
    DEFAULT_PRIORITY = 2
    Prios = {}
    KillArgs = {0}
    SleepArgs = {}
    NPAGES = 4
    MaxPid = 2
    MaxTicks = 0
PROPERTIES
    KillHitsProcess
