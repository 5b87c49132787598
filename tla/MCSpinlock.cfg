SPECIFICATION Spec
CONSTANTS
    cpu0 = cpu0
    cpu1 = cpu1
    tickslock = tickslock
    ptable = ptable
    None = None
    CPUs = {cpu0, cpu1}
    Locks = {tickslock, ptable}
    Order <- MCOrder
INVARIANTS
    TypeOK
    MutualExclusion
    OwnerUninterruptible
    NoPanic
    InterruptsRestored
PROPERTIES
    ImplementsAtomicLock
