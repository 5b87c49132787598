-------------------------------- MODULE Proc --------------------------------
(***************************************************************************)
(* proc.c: the process table, the per-CPU priority scheduler, fork, exit,  *)
(* wait, sleep, wakeup, kill and yield, with the parts of trap.c (timer    *)
(* interrupt, faults, the killed tests), sysproc.c (sys_sleep) and init.c  *)
(* that drive them.                                                        *)
(*                                                                         *)
(* A step is what a CPU does between two points where another CPU or an    *)
(* interrupt can get in: a critical section of ptable.lock is one step     *)
(* until swtch() hands the lock, still held, to another thread; writes     *)
(* outside the lock (allocproc(), fork()) are steps of their own.  Spin    *)
(* locks are atomic, which module Spinlock justifies.                      *)
(***************************************************************************)
EXTENDS Integers, FiniteSets

CONSTANTS
    NPROC,                 \* size of the process table
    CPUs, BootCPU,         \* the CPU with cpuid() = 0 counts the ticks
    None,                  \* a lock nobody holds
    MAX_PRIORITY, PRIORITY_GRANULARITY, DEFAULT_PRIORITY,
    Prios,                 \* arguments of sys_setprio()
    KillArgs,              \* arguments of sys_kill()
    SleepArgs,             \* arguments of sys_sleep()
    NPAGES,                \* pages kalloc() starts with
    MaxPid,                \* bound: fork() is not called beyond it
    MaxTicks               \* bound: ticks stops there

ASSUME ProcAssumption ==
    /\ NPROC \in Nat \ {0} /\ NPAGES \in Nat /\ NPAGES >= 2
    /\ BootCPU \in CPUs /\ None \notin CPUs
    /\ MAX_PRIORITY \in Nat \ {0} /\ PRIORITY_GRANULARITY \in Nat \ {0}
    /\ DEFAULT_PRIORITY \in 0..MAX_PRIORITY
    /\ Prios \subseteq Int /\ KillArgs \subseteq Int /\ SleepArgs \subseteq Nat
    /\ MaxPid \in Nat \ {0} /\ MaxTicks \in Nat

VARIABLES
    (* struct proc, per slot of ptable.proc *)
    state, pid, parent, chan, killed, priority,
    kstack,     \* kstack[p]: p owns a kernel stack
    pgdir,      \* pgdir[p]: p owns a page directory
    ctx,        \* ctx[p]: where swtch(.., p->context) resumes p
    (* the kernel path each process is on *)
    pc,
    newp,       \* newp[p]: fork()'s np
    wake,       \* wake[p]: sys_sleep()'s ticks0 + n
    sh,         \* init.c's variable pid: the shell, 0 before the fork
    (* globals *)
    nextpid, freePages, lock, tickslock, ticks,
    (* struct cpu and scheduler()'s locals *)
    cproc,      \* cproc[c]: c->proc
    idx,        \* idx[c]: the slot the scan looks at next
    threshold,
    cpc,        \* cpc[c]: what the CPU is doing
    sti         \* sti[c]: interrupts on while scheduler() holds no lock

vars == <<state, pid, parent, chan, killed, priority, kstack, pgdir, ctx,
          pc, newp, wake, sh, nextpid, freePages, lock, tickslock, ticks,
          cproc, idx, threshold, cpc, sti>>

Procs == 1..NPROC
Null == 0                      \* the null struct proc *
initproc == 1                  \* userinit() gets the first slot
TicksChan == NPROC + 1         \* &ticks; wait() sleeps on the process itself

States == {"UNUSED", "EMBRYO", "SLEEPING", "RUNNABLE", "RUNNING", "ZOMBIE"}

(* sched/scan: scheduler() outside/inside ptable.lock.  return: swtch() has  *)
(* landed in a process, which holds the lock.  run: the process executes.    *)
(* tick: clock interrupt, ticks counted and tickslock held.  yield: about to *)
(* yield().  swtch: the process is in sched(), with the lock.                *)
CPUStates == {"sched", "scan", "return", "run", "tick", "yield", "swtch",
              "panic"}

(* user; syscall: past the killed test at entry; fork_*: allocproc() before  *)
(* kalloc(), fork() before copyuvm(), fork() before RUNNABLE; sleep_test and *)
(* sleep_enter hold tickslock, sleep_relock wants it back; exit and exit_irq *)
(* are in exit(), from a system call and from an interrupt or fault.         *)
PCs == {"user", "syscall", "fork_kstack", "fork_copy", "fork_run",
        "sleep_test", "sleep_enter", "sleep_relock", "exit", "exit_irq"}

Contexts == {"none", "forkret", "yield", "wait", "ticks"}

TypeOK ==
    /\ state \in [Procs -> States]
    /\ pid \in [Procs -> 0..MaxPid]
    /\ parent \in [Procs -> Procs \cup {Null}]
    /\ chan \in [Procs -> 0..NPROC + 1]
    /\ killed \in [Procs -> BOOLEAN]
    /\ priority \in [Procs -> Int]
    /\ kstack \in [Procs -> BOOLEAN]
    /\ pgdir \in [Procs -> BOOLEAN]
    /\ ctx \in [Procs -> Contexts]
    /\ pc \in [Procs -> PCs]
    /\ newp \in [Procs -> Procs \cup {Null}]
    /\ wake \in [Procs -> 0..MaxTicks]
    /\ sh \in 0..MaxPid
    /\ nextpid \in 1..MaxPid + 1
    /\ freePages \in Nat
    /\ lock \in CPUs \cup {None}
    /\ tickslock \in CPUs \cup {None}
    /\ ticks \in 0..MaxTicks
    /\ cproc \in [CPUs -> Procs \cup {Null}]
    /\ idx \in [CPUs -> 1..NPROC + 1]
    /\ threshold \in [CPUs -> Nat]
    /\ cpc \in [CPUs -> CPUStates]
    /\ sti \in [CPUs -> BOOLEAN]

\* main(): userinit() has made init, every CPU has entered scheduler().
Init ==
    /\ state = [p \in Procs |-> IF p = initproc THEN "RUNNABLE" ELSE "UNUSED"]
    /\ pid = [p \in Procs |-> IF p = initproc THEN 1 ELSE 0]
    /\ parent = [p \in Procs |-> Null]
    /\ chan = [p \in Procs |-> 0]
    /\ killed = [p \in Procs |-> FALSE]
    /\ priority = [p \in Procs |-> IF p = initproc THEN 1 ELSE 0]
    /\ kstack = [p \in Procs |-> p = initproc]
    /\ pgdir = [p \in Procs |-> p = initproc]
    /\ ctx = [p \in Procs |-> IF p = initproc THEN "forkret" ELSE "none"]
    /\ pc = [p \in Procs |-> "user"]
    /\ newp = [p \in Procs |-> Null]
    /\ wake = [p \in Procs |-> 0]
    /\ sh = 0
    /\ nextpid = 2
    /\ freePages = NPAGES - 2
    /\ lock = None /\ tickslock = None /\ ticks = 0
    /\ cproc = [c \in CPUs |-> Null]
    /\ idx = [c \in CPUs |-> 1]
    /\ threshold = [c \in CPUs |-> 0]
    /\ cpc = [c \in CPUs |-> "sched"]
    /\ sti = [c \in CPUs |-> TRUE]

slots == <<state, pid, parent, chan, killed, priority, kstack, pgdir, ctx>>
paths == <<pc, newp, wake, sh>>
memory == <<nextpid, freePages>>
locks == <<lock, tickslock, ticks>>
cpus == <<cproc, idx, threshold, cpc, sti>>

-----------------------------------------------------------------------------
(* Helpers *)

\* Process p executes on CPU c, outside ptable.lock, at label of its path.
RunsAt(c, p, label) == cpc[c] = "run" /\ cproc[c] = p /\ pc[p] = label

\* wakeup1(ch): the states after waking every sleeper on ch.
Woken(ch) == [p \in Procs |->
    IF state[p] = "SLEEPING" /\ chan[p] = ch THEN "RUNNABLE" ELSE state[p]]

\* ptable.lock is held into sched(); mutant: it is released before.
SchedUnlocked(c) == lock' = None
SchedLocked(c) == lock' = c

\* The end of a system call: trap() tests killed again before user space.
AfterSyscall(p) == IF killed[p] THEN "exit" ELSE "user"

\* s is the first slot, from slot i on, that satisfies P.
First(s, i, P(_)) ==
    s \in i..NPROC /\ P(s) /\ \A t \in i..s - 1 : ~P(t)

-----------------------------------------------------------------------------
(* scheduler() *)

\* acquire(&ptable.lock) at the start of a pass over the table.
SchedAcquire(c) ==
    /\ cpc[c] = "sched" /\ lock = None
    /\ lock' = c
    /\ cpc' = [cpc EXCEPT ![c] = "scan"]
    /\ UNCHANGED <<slots, paths, memory, tickslock, ticks, cproc, idx, threshold, sti>>

\* p++ in the scan; mutant: p advanced in the body of the loop as well.
NextSlotTwice(p) == p + 2
NextSlot(p) == p + 1

Eligible(c, p) == state[p] = "RUNNABLE" /\ priority[p] >= threshold[c]

\* The scan finds a process; swtch() lands in it with ptable.lock held.
SchedDispatch(c) == \E p \in Procs :
    /\ cpc[c] = "scan"
    /\ First(p, idx[c], LAMBDA q : Eligible(c, q))
    /\ state' = [state EXCEPT ![p] = "RUNNING"]
    /\ cproc' = [cproc EXCEPT ![c] = p]
    /\ idx' = [idx EXCEPT ![c] = NextSlot(p)]
    /\ cpc' = [cpc EXCEPT ![c] = "return"]
    /\ UNCHANGED <<pid, parent, chan, killed, priority, kstack, pgdir, ctx,
                   paths, memory, locks, threshold, sti>>

\* The head of scheduler()'s outer loop: sti(), threshold = 0.  Mutants: the
\* threshold is only set before the loop; sti() is only called before it.
NewRoundNoReset(c) == UNCHANGED threshold /\ sti' = [sti EXCEPT ![c] = TRUE]
NewRoundNoSti(c) == threshold' = [threshold EXCEPT ![c] = 0] /\ UNCHANGED sti
NewRound(c) == /\ threshold' = [threshold EXCEPT ![c] = 0]
               /\ sti' = [sti EXCEPT ![c] = TRUE]

\* The pass is over: release, and raise the threshold or, after the last
\* pass of a round, enable interrupts and start again from 0.
SchedEndPass(c) ==
    /\ cpc[c] = "scan"
    /\ \A p \in idx[c]..NPROC : ~Eligible(c, p)
    /\ lock' = None
    /\ idx' = [idx EXCEPT ![c] = 1]
    /\ LET up == threshold[c] + PRIORITY_GRANULARITY IN
       IF up < MAX_PRIORITY
       THEN threshold' = [threshold EXCEPT ![c] = up] /\ UNCHANGED sti
       ELSE NewRound(c)
    /\ cpc' = [cpc EXCEPT ![c] = "sched"]
    /\ UNCHANGED <<slots, paths, memory, tickslock, ticks, cproc>>

\* sched(): its panics, then swtch() back into scheduler()'s scan.  The intena
\* scheduler() inherits is the one of the thread that left: off after an
\* interrupt or a fault, on after a system call.
SchedSwtch(c) == LET p == cproc[c] IN
    /\ cpc[c] = "swtch"
    /\ IF lock # c \/ tickslock = c \/ state[p] = "RUNNING"
       THEN cpc' = [cpc EXCEPT ![c] = "panic"] /\ UNCHANGED <<cproc, sti>>
       ELSE /\ cpc' = [cpc EXCEPT ![c] = "scan"]
            /\ cproc' = [cproc EXCEPT ![c] = Null]
            /\ sti' = [sti EXCEPT ![c] = ctx[p] # "yield" /\ pc[p] # "exit_irq"]
    /\ UNCHANGED <<slots, paths, memory, locks, idx, threshold>>

-----------------------------------------------------------------------------
(* A process resumes from swtch() *)

\* forkret(), then trapret: no test of killed.
ForkRet(c) == LET p == cproc[c] IN
    /\ cpc[c] = "return" /\ ctx[p] = "forkret"
    /\ lock' = None
    /\ ctx' = [ctx EXCEPT ![p] = "none"]
    /\ cpc' = [cpc EXCEPT ![c] = "run"]
    /\ UNCHANGED <<state, pid, parent, chan, killed, priority, kstack, pgdir,
                   paths, memory, tickslock, ticks, cproc, idx, threshold, sti>>

\* The end of yield(), and trap()'s test of killed after it.
YieldReturn(c) == LET p == cproc[c] IN
    /\ cpc[c] = "return" /\ ctx[p] = "yield"
    /\ lock' = None
    /\ ctx' = [ctx EXCEPT ![p] = "none"]
    /\ pc' = [pc EXCEPT ![p] = IF @ = "user" /\ killed[p] THEN "exit_irq" ELSE @]
    /\ cpc' = [cpc EXCEPT ![c] = "run"]
    /\ UNCHANGED <<state, pid, parent, chan, killed, priority, kstack, pgdir,
                   newp, wake, sh, memory, tickslock, ticks, cproc, idx, threshold, sti>>

\* The end of sleep(&ticks, &tickslock), before it acquires tickslock again.
TicksReturn(c) == LET p == cproc[c] IN
    /\ cpc[c] = "return" /\ ctx[p] = "ticks"
    /\ chan' = [chan EXCEPT ![p] = 0]
    /\ lock' = None
    /\ ctx' = [ctx EXCEPT ![p] = "none"]
    /\ cpc' = [cpc EXCEPT ![c] = "run"]
    /\ UNCHANGED <<state, pid, parent, killed, priority, kstack, pgdir,
                   paths, memory, tickslock, ticks, cproc, idx, threshold, sti>>

-----------------------------------------------------------------------------
(* Interrupts and faults: trap() *)

\* Where an interrupt can be taken: in scheduler() outside the lock, or in a
\* process that holds no spin lock and did not enter exit() from a gate that
\* turned interrupts off.
Interruptible(c) ==
    \/ cpc[c] = "sched" /\ sti[c]
    \/ cpc[c] = "run" /\ pc[cproc[c]] \notin {"sleep_test", "sleep_enter", "exit_irq"}

\* The end of trap() for the clock: exit() for a killed process in user space,
\* else yield(); an interrupted scheduler() just continues.
AfterTick(c) ==
    LET p == cproc[c]
        dies == p # Null /\ killed[p] /\ pc[p] = "user"
    IN  /\ cpc' = [cpc EXCEPT ![c] = IF p = Null THEN "sched"
                                     ELSE IF dies THEN "run" ELSE "yield"]
        /\ pc' = IF dies THEN [pc EXCEPT ![p] = "exit_irq"] ELSE pc

\* The clock of the boot CPU: acquire(&tickslock); ticks++.
TimerTick(c) ==
    /\ c = BootCPU /\ Interruptible(c)
    /\ tickslock = None
    /\ tickslock' = c
    /\ ticks' = IF ticks < MaxTicks THEN ticks + 1 ELSE ticks
    /\ cpc' = [cpc EXCEPT ![c] = "tick"]
    /\ UNCHANGED <<slots, paths, memory, lock, cproc, idx, threshold, sti>>

\* wakeup(&ticks); release(&tickslock).
TimerWakeup(c) ==
    /\ cpc[c] = "tick" /\ lock = None
    /\ state' = Woken(TicksChan)
    /\ tickslock' = None
    /\ AfterTick(c)
    /\ UNCHANGED <<pid, parent, chan, killed, priority, kstack, pgdir, ctx,
                   newp, wake, sh, memory, lock, ticks, cproc, idx, threshold, sti>>

\* The clock of any other CPU only makes the process yield.
TimerOther(c) ==
    /\ c # BootCPU /\ cpc[c] = "run" /\ Interruptible(c)
    /\ AfterTick(c)
    /\ UNCHANGED <<slots, newp, wake, sh, memory, locks, cproc, idx, threshold, sti>>

\* yield(): RUNNABLE under ptable.lock, then sched().
Yield(c) == LET p == cproc[c] IN
    /\ cpc[c] = "yield" /\ lock = None
    /\ SchedLocked(c)
    /\ state' = [state EXCEPT ![p] = "RUNNABLE"]
    /\ ctx' = [ctx EXCEPT ![p] = "yield"]
    /\ cpc' = [cpc EXCEPT ![c] = "swtch"]
    /\ UNCHANGED <<pid, parent, chan, killed, priority, kstack, pgdir,
                   paths, memory, tickslock, ticks, cproc, idx, threshold, sti>>

\* A fault in user space: killed is set, without ptable.lock, and the process
\* exits.  init's code does not fault.
Fault(c, p) ==
    /\ RunsAt(c, p, "user") /\ p # initproc
    /\ killed' = [killed EXCEPT ![p] = TRUE]
    /\ pc' = [pc EXCEPT ![p] = "exit_irq"]
    /\ UNCHANGED <<state, pid, parent, chan, priority, kstack, pgdir, ctx,
                   newp, wake, sh, memory, locks, cpus>>

\* A system call: trap() tests killed, then calls syscall().
Trap(c, p) ==
    /\ RunsAt(c, p, "user")
    /\ pc' = [pc EXCEPT ![p] = IF killed[p] THEN "exit" ELSE "syscall"]
    /\ UNCHANGED <<slots, newp, wake, sh, memory, locks, cpus>>

\* The system call returns.
Return(p) == pc' = [pc EXCEPT ![p] = AfterSyscall(p)]

-----------------------------------------------------------------------------
(* fork() *)

\* init.c calls fork() when it has no shell; the bound MaxPid ends the forks.
CallsFork(p) == nextpid <= MaxPid /\ (p = initproc => sh = 0)

\* init.c exits when fork() fails.
ForkFails(p) == IF p = initproc THEN pc' = [pc EXCEPT ![p] = "exit"] ELSE Return(p)

\* p->pid = nextpid++; mutant: the increment is lost.
AllocPidNoIncrement(s) == pid' = [pid EXCEPT ![s] = nextpid] /\ UNCHANGED nextpid
AllocPid(s) == /\ pid' = [pid EXCEPT ![s] = nextpid]
               /\ nextpid' = nextpid + 1

\* allocproc(): the first UNUSED slot becomes EMBRYO, under ptable.lock.
ForkSlot(c, p) ==
    /\ RunsAt(c, p, "syscall") /\ lock = None
    /\ CallsFork(p)
    /\ \E s \in Procs :
        /\ First(s, 1, LAMBDA q : state[q] = "UNUSED")
        /\ state' = [state EXCEPT ![s] = "EMBRYO"]
        /\ AllocPid(s)
        /\ newp' = [newp EXCEPT ![p] = s]
    /\ pc' = [pc EXCEPT ![p] = "fork_kstack"]
    /\ UNCHANGED <<parent, chan, killed, priority, kstack, pgdir, ctx,
                   wake, sh, freePages, locks, cpus>>

\* allocproc(): no UNUSED slot.
ForkNoSlot(c, p) ==
    /\ RunsAt(c, p, "syscall") /\ lock = None
    /\ CallsFork(p)
    /\ \A s \in Procs : state[s] # "UNUSED"
    /\ ForkFails(p)
    /\ UNCHANGED <<slots, newp, wake, sh, memory, locks, cpus>>

\* allocproc(): the kernel stack with a context that resumes in forkret() and
\* returns to user space, and the default priority.
ForkStack(c, p) == LET np == newp[p] IN
    /\ RunsAt(c, p, "fork_kstack") /\ freePages > 0
    /\ freePages' = freePages - 1
    /\ kstack' = [kstack EXCEPT ![np] = TRUE]
    /\ ctx' = [ctx EXCEPT ![np] = "forkret"]
    /\ priority' = [priority EXCEPT ![np] = DEFAULT_PRIORITY]
    /\ pc' = [pc EXCEPT ![p] = "fork_copy", ![np] = "user"]
    /\ UNCHANGED <<state, pid, parent, chan, killed, pgdir, newp, wake, sh,
                   nextpid, locks, cpus>>

\* allocproc(): kalloc() fails; UNUSED again, without the lock and with the
\* pid left in the slot.
ForkNoStack(c, p) ==
    /\ RunsAt(c, p, "fork_kstack") /\ freePages = 0
    /\ state' = [state EXCEPT ![newp[p]] = "UNUSED"]
    /\ newp' = [newp EXCEPT ![p] = Null]
    /\ ForkFails(p)
    /\ UNCHANGED <<pid, parent, chan, killed, priority, kstack, pgdir, ctx,
                   wake, sh, memory, locks, cpus>>

\* copyuvm() (one page stands for the whole copy) and np->parent = curproc.
ForkCopy(c, p) == LET np == newp[p] IN
    /\ RunsAt(c, p, "fork_copy") /\ freePages > 0
    /\ freePages' = freePages - 1
    /\ pgdir' = [pgdir EXCEPT ![np] = TRUE]
    /\ parent' = [parent EXCEPT ![np] = p]
    /\ pc' = [pc EXCEPT ![p] = "fork_run"]
    /\ UNCHANGED <<state, pid, chan, killed, priority, kstack, ctx, newp, wake,
                   sh, nextpid, locks, cpus>>

\* kfree(np->kstack); mutant: forgotten.
LeakStack(np) == UNCHANGED <<kstack, freePages>>
FreeStack(np) == /\ kstack' = [kstack EXCEPT ![np] = FALSE]
                 /\ freePages' = freePages + 1

\* copyuvm() fails: the kernel stack is freed, the slot UNUSED again.
ForkNoCopy(c, p) == LET np == newp[p] IN
    /\ RunsAt(c, p, "fork_copy") /\ freePages = 0
    /\ FreeStack(np)
    /\ state' = [state EXCEPT ![np] = "UNUSED"]
    /\ newp' = [newp EXCEPT ![p] = Null]
    /\ ForkFails(p)
    /\ UNCHANGED <<pid, parent, chan, killed, priority, pgdir, ctx, wake, sh,
                   nextpid, locks, cpus>>

\* np->state = RUNNABLE under ptable.lock; init remembers the shell's pid.
ForkRun(c, p) == LET np == newp[p] IN
    /\ RunsAt(c, p, "fork_run") /\ lock = None
    /\ state' = [state EXCEPT ![np] = "RUNNABLE"]
    /\ sh' = IF p = initproc THEN pid[np] ELSE sh
    /\ newp' = [newp EXCEPT ![p] = Null]
    /\ Return(p)
    /\ UNCHANGED <<pid, parent, chan, killed, priority, kstack, pgdir, ctx,
                   wake, memory, locks, cpus>>

-----------------------------------------------------------------------------
(* exit() *)

\* The exit system call; init.c only exits when fork() fails.
CallExit(c, p) ==
    /\ RunsAt(c, p, "syscall") /\ p # initproc
    /\ pc' = [pc EXCEPT ![p] = "exit"]
    /\ UNCHANGED <<slots, newp, wake, sh, memory, locks, cpus>>

Exiting(c, p) == RunsAt(c, p, "exit") \/ RunsAt(c, p, "exit_irq")

\* panic("init exiting")
InitExiting(c, p) ==
    /\ Exiting(c, p) /\ p = initproc
    /\ cpc' = [cpc EXCEPT ![c] = "panic"]
    /\ UNCHANGED <<slots, paths, memory, locks, cproc, idx, threshold, sti>>

Children(p) == {q \in Procs : parent[q] = p}
Zombies(p) == {q \in Children(p) : state[q] = "ZOMBIE"}

\* The children exit() gives to init; mutant: only those that still live.
OrphansLive(p) == Children(p) \ Zombies(p)
Orphans(p) == Children(p)

\* Whom exit() wakes if asleep in wait(): the parent, and init when it is given
\* a ZOMBIE; mutant: the parent is not woken.
ExitWakesInit(p) == {q \in {initproc} : Zombies(p) # {}}
ExitWakes(p) == {parent[p]} \cup {q \in {initproc} : Zombies(p) # {}}

\* Files closed, then under ptable.lock: wakeups, the children given to init,
\* a ZOMBIE that enters sched().
Exit(c, p) ==
    /\ Exiting(c, p) /\ p # initproc /\ lock = None
    /\ SchedLocked(c)
    /\ parent' = [q \in Procs |-> IF q \in Orphans(p) THEN initproc ELSE parent[q]]
    /\ state' = [q \in Procs |->
          IF q = p THEN "ZOMBIE"
          ELSE IF state[q] = "SLEEPING" /\ chan[q] \in ExitWakes(p) THEN "RUNNABLE"
          ELSE state[q]]
    /\ cpc' = [cpc EXCEPT ![c] = "swtch"]
    /\ UNCHANGED <<pid, chan, killed, priority, kstack, pgdir, ctx, paths,
                   memory, tickslock, ticks, cproc, idx, threshold, sti>>

-----------------------------------------------------------------------------
(* wait() *)

\* init.c waits while it has a shell, and when the bound allows no new one.
CallsWait(p) == p = initproc => sh # 0 \/ nextpid > MaxPid

\* p is at the top of wait()'s loop with ptable.lock: it has just acquired it,
\* or sleep() has returned.
InWait(c, p) ==
    \/ RunsAt(c, p, "syscall") /\ lock = None /\ CallsWait(p)
    \/ cpc[c] = "return" /\ cproc[c] = p /\ ctx[p] = "wait"

\* wait() returns r (a pid or -1): the lock is free; init.c forks a new shell
\* when its shell is gone.
WaitReturns(c, p, r) ==
    /\ lock' = None
    /\ Return(p)
    /\ ctx' = [ctx EXCEPT ![p] = "none"]
    /\ chan' = [chan EXCEPT ![p] = 0]
    /\ cpc' = [cpc EXCEPT ![c] = "run"]
    /\ sh' = IF p = initproc /\ r \in {sh, -1} THEN 0 ELSE sh

\* The first ZOMBIE child is freed.
WaitReap(c, p) ==
    /\ InWait(c, p)
    /\ \E z \in Procs :
        /\ First(z, 1, LAMBDA q : q \in Zombies(p))
        /\ kstack' = [kstack EXCEPT ![z] = FALSE]
        /\ pgdir' = [pgdir EXCEPT ![z] = FALSE]
        /\ freePages' = freePages + 2
        /\ pid' = [pid EXCEPT ![z] = 0]
        /\ parent' = [parent EXCEPT ![z] = Null]
        /\ killed' = [killed EXCEPT ![z] = FALSE]
        /\ state' = [state EXCEPT ![z] = "UNUSED"]
        /\ WaitReturns(c, p, pid[z])
    /\ UNCHANGED <<priority, newp, wake, nextpid, tickslock, ticks,
                   cproc, idx, threshold, sti>>

\* No children, or the caller has been killed.
WaitFails(c, p) ==
    /\ InWait(c, p) /\ Zombies(p) = {}
    /\ Children(p) = {} \/ killed[p]
    /\ WaitReturns(c, p, -1)
    /\ UNCHANGED <<state, pid, parent, killed, priority, kstack, pgdir, newp, wake,
                   memory, tickslock, ticks, cproc, idx, threshold, sti>>

\* sleep(curproc, &ptable.lock): the lock stays held into sched().
WaitSleep(c, p) ==
    /\ InWait(c, p) /\ Zombies(p) = {}
    /\ Children(p) # {} /\ ~killed[p]
    /\ SchedLocked(c)
    /\ chan' = [chan EXCEPT ![p] = p]
    /\ state' = [state EXCEPT ![p] = "SLEEPING"]
    /\ ctx' = [ctx EXCEPT ![p] = "wait"]
    /\ cpc' = [cpc EXCEPT ![c] = "swtch"]
    /\ UNCHANGED <<pid, parent, killed, priority, kstack, pgdir, paths, memory,
                   tickslock, ticks, cproc, idx, threshold, sti>>

-----------------------------------------------------------------------------
(* sys_sleep() *)

\* acquire(&tickslock); ticks0 = ticks.
SleepCall(c, p, n) ==
    /\ RunsAt(c, p, "syscall") /\ p # initproc
    /\ ticks + n <= MaxTicks
    /\ tickslock = None
    /\ tickslock' = c
    /\ wake' = [wake EXCEPT ![p] = ticks + n]
    /\ pc' = [pc EXCEPT ![p] = "sleep_test"]
    /\ UNCHANGED <<slots, newp, sh, memory, lock, ticks, cpus>>

\* while(ticks - ticks0 < n): done, or killed, both of which return.
SleepDone(c, p) ==
    /\ RunsAt(c, p, "sleep_test")
    /\ ticks >= wake[p] \/ killed[p]
    /\ tickslock' = None
    /\ wake' = [wake EXCEPT ![p] = 0]
    /\ Return(p)
    /\ UNCHANGED <<slots, newp, sh, memory, lock, ticks, cpus>>

\* Mutant of SleepAgain: tickslock is released before sleep() takes ptable.lock.
SleepAgainReleases(c, p) ==
    /\ RunsAt(c, p, "sleep_test")
    /\ ticks < wake[p] /\ ~killed[p]
    /\ pc' = [pc EXCEPT ![p] = "sleep_enter"]
    /\ tickslock' = None
    /\ UNCHANGED <<slots, newp, wake, sh, memory, lock, ticks, cpus>>

\* Not yet, and not killed when myproc()->killed was read.
SleepAgain(c, p) ==
    /\ RunsAt(c, p, "sleep_test")
    /\ ticks < wake[p] /\ ~killed[p]
    /\ pc' = [pc EXCEPT ![p] = "sleep_enter"]
    /\ UNCHANGED <<slots, newp, wake, sh, memory, locks, cpus>>

\* release(lk) in sleep(); mutant: forgotten.
KeepLk == UNCHANGED tickslock
ReleaseLk == tickslock' = None

\* sleep(&ticks, &tickslock): ptable.lock first, then tickslock is let go.
SleepEnter(c, p) ==
    /\ RunsAt(c, p, "sleep_enter") /\ lock = None
    /\ SchedLocked(c)
    /\ ReleaseLk
    /\ chan' = [chan EXCEPT ![p] = TicksChan]
    /\ state' = [state EXCEPT ![p] = "SLEEPING"]
    /\ ctx' = [ctx EXCEPT ![p] = "ticks"]
    /\ pc' = [pc EXCEPT ![p] = "sleep_relock"]
    /\ cpc' = [cpc EXCEPT ![c] = "swtch"]
    /\ UNCHANGED <<pid, parent, killed, priority, kstack, pgdir, newp, wake, sh,
                   memory, ticks, cproc, idx, threshold, sti>>

\* The end of sleep(): acquire(&tickslock).
SleepRelock(c, p) ==
    /\ RunsAt(c, p, "sleep_relock") /\ tickslock = None
    /\ tickslock' = c
    /\ pc' = [pc EXCEPT ![p] = "sleep_test"]
    /\ UNCHANGED <<slots, newp, wake, sh, memory, lock, ticks, cpus>>

-----------------------------------------------------------------------------
(* kill(), sys_setprio() *)

\* "Wake process from sleep if necessary"; mutants: always; never.
KilledStateAlways(q) == "RUNNABLE"
KilledStateNever(q) == state[q]
KilledState(q) == IF state[q] = "SLEEPING" THEN "RUNNABLE" ELSE state[q]

\* kill(k): the first slot with that pid, whatever its state.
Kill(c, p, k) ==
    /\ RunsAt(c, p, "syscall") /\ p # initproc /\ lock = None
    /\ \E q \in Procs :
        /\ First(q, 1, LAMBDA r : pid[r] = k)
        /\ killed' = [killed EXCEPT ![q] = TRUE]
        /\ state' = [state EXCEPT ![q] = KilledState(q)]
        /\ pc' = [pc EXCEPT ![p] = IF killed[p] \/ q = p THEN "exit" ELSE "user"]
    /\ UNCHANGED <<pid, parent, chan, priority, kstack, pgdir, ctx,
                   newp, wake, sh, memory, locks, cpus>>

\* kill() of a pid no slot has returns -1.
KillNobody(c, p, k) ==
    /\ RunsAt(c, p, "syscall") /\ p # initproc /\ lock = None
    /\ \A q \in Procs : pid[q] # k
    /\ Return(p)
    /\ UNCHANGED <<slots, newp, wake, sh, memory, locks, cpus>>

\* Only too large a priority is clipped.
SetPrio(c, p, n) ==
    /\ RunsAt(c, p, "syscall") /\ p # initproc
    /\ priority' = [priority EXCEPT ![p] = IF MAX_PRIORITY > n THEN n ELSE MAX_PRIORITY]
    /\ Return(p)
    /\ UNCHANGED <<state, pid, parent, chan, killed, kstack, pgdir, ctx,
                   newp, wake, sh, memory, locks, cpus>>

-----------------------------------------------------------------------------
Scheduler(c) == SchedAcquire(c) \/ SchedDispatch(c) \/ SchedEndPass(c) \/ SchedSwtch(c)

Resume(c) == ForkRet(c) \/ YieldReturn(c) \/ TicksReturn(c)

Timer(c) == TimerTick(c) \/ TimerOther(c)

Fork(c, p) == \/ ForkStack(c, p) \/ ForkNoStack(c, p)
              \/ ForkCopy(c, p) \/ ForkNoCopy(c, p) \/ ForkRun(c, p)

Wait(c, p) == WaitReap(c, p) \/ WaitFails(c, p) \/ WaitSleep(c, p)

Sleep(c, p) == \/ SleepDone(c, p) \/ SleepAgain(c, p)
               \/ SleepEnter(c, p) \/ SleepRelock(c, p)

\* syscall() dispatches the call that the user program has made.
Syscall(c, p) == \/ ForkSlot(c, p) \/ ForkNoSlot(c, p) \/ CallExit(c, p)
                 \/ \E n \in SleepArgs : SleepCall(c, p, n)
                 \/ \E k \in KillArgs : Kill(c, p, k) \/ KillNobody(c, p, k)
                 \/ \E n \in Prios : SetPrio(c, p, n)

\* What process p does in the kernel.
Kernel(c, p) == \/ Syscall(c, p) \/ Fork(c, p) \/ Wait(c, p) \/ Sleep(c, p)
                \/ InitExiting(c, p) \/ Exit(c, p)

\* What CPU c does between the scheduler and a process.
Switch(c) == Resume(c) \/ TimerWakeup(c) \/ Yield(c)

Next == \E c \in CPUs :
    \/ Scheduler(c) \/ Switch(c) \/ Timer(c)
    \/ \E p \in Procs : Trap(c, p) \/ Fault(c, p) \/ Kernel(c, p)

Spec == Init /\ [][Next]_vars

(* Fairness.  A CPU goes on executing the kernel, and between two clock         *)
(* interrupts it gets somewhere: scheduler() and a process inside the kernel   *)
(* make progress even if they are interrupted again and again.  The pending    *)
(* clock interrupt is taken when interrupts come on often enough.  init.c      *)
(* keeps making system calls; no other user program is assumed to.             *)
Fairness == \A c \in CPUs :
    /\ WF_vars(Switch(c)) /\ SF_vars(Scheduler(c))
    /\ SF_vars(Timer(c))
    /\ \A p \in Procs : SF_vars(Kernel(c, p))
    /\ SF_vars(Trap(c, initproc))

FairSpec == Spec /\ Fairness

-----------------------------------------------------------------------------
(* Safety *)

OnCPU(c, p) == cproc[c] = p /\ cpc[c] # "swtch"

\* A process is RUNNING exactly while one CPU executes it: no process on two
\* CPUs, none RUNNING and forgotten (scheduler(), yield(), sleep(), exit()).
RunningOnOneCPU ==
    \A p \in Procs :
        /\ \A c, d \in CPUs : cproc[c] = p /\ cproc[d] = p => c = d
        /\ state[p] = "RUNNING" <=> \E c \in CPUs : OnCPU(c, p)

\* The stack and page table a CPU executes on are not freed under it, not even
\* those of a ZOMBIE on its way from exit() to the swtch() in sched(), and the
\* one of a process that will run exist.
StackInUse ==
    /\ \A c \in CPUs : cproc[c] # Null => kstack[cproc[c]] /\ pgdir[cproc[c]]
    /\ \A p \in Procs : state[p] \in {"RUNNABLE", "RUNNING", "SLEEPING"}
                            => kstack[p] /\ pgdir[p]

\* No wakeup is lost between wait() and exit(): a process asleep in wait() has
\* children, none of them a ZOMBIE (its own or one it was given), and has not
\* been killed.
NoMissedExit ==
    \A p \in Procs : state[p] = "SLEEPING" /\ ctx[p] = "wait"
        => Children(p) # {} /\ Zombies(p) = {} /\ ~killed[p]

\* No wakeup is lost between sys_sleep() and the clock: who sleeps on &ticks
\* still has ticks to wait for, unless the wakeup for the last one is on its way.
NoMissedTick ==
    \A p \in Procs : state[p] = "SLEEPING" /\ ctx[p] = "ticks"
        => ticks < wake[p] \/ cpc[BootCPU] = "tick"

\* Pages are conserved, and a free slot owns none, whatever step of fork()
\* failed: nothing leaks from fork(), exit() and wait().
PagesConserved ==
    /\ freePages + Cardinality({p \in Procs : kstack[p]})
                 + Cardinality({p \in Procs : pgdir[p]}) = NPAGES
    /\ \A p \in Procs : state[p] = "UNUSED" => ~kstack[p] /\ ~pgdir[p]

\* kill() and wait() name a process by its pid: no two live processes share one
\* and init's is 1.
PidsUnique ==
    \A p, q \in Procs :
        /\ state[p] # "UNUSED" => pid[p] > 0
        /\ state[p] # "UNUSED" /\ pid[p] = pid[q] => p = q
        /\ pid[p] = 1 <=> p = initproc

\* Every process but init has a parent that can still wait() for it.
ParentAlive ==
    \A p \in Procs \ {initproc} : state[p] \notin {"UNUSED", "EMBRYO"}
        => /\ parent[p] # Null
           /\ state[parent[p]] \notin {"UNUSED", "EMBRYO", "ZOMBIE"}

\* No panic of sched() is ever reached: only init's exit() can panic.
NoSchedPanic ==
    \A c \in CPUs : cpc[c] = "panic"
        => cproc[c] = initproc /\ pc[initproc] \in {"exit", "exit_irq"}

\* A ZOMBIE stays one until its parent reaps it; kill() and wakeup() do not
\* bring it back.
ReapedByParent ==
    [][\A p \in Procs : state[p] = "ZOMBIE" /\ state'[p] # "ZOMBIE"
          => state'[p] = "UNUSED" /\ \E c \in CPUs : cproc[c] = parent[p]]_vars

\* "Kill the process with the given pid": killed is only ever set for a process,
\* so that a process is not killed before it exists.
KillHitsProcess ==
    [][\A p \in Procs : killed'[p] /\ ~killed[p] => state[p] # "UNUSED"]_vars

-----------------------------------------------------------------------------
(* The inductive invariant behind RunningOnOneCPU, StackInUse and             *)
(* NoSchedPanic: what each CPU state says of the locks and the table.          *)

ForkPCs == {"fork_kstack", "fork_copy", "fork_run"}

\* fork() has a slot from allocproc() on.
TypeInv == TypeOK /\ \A p \in Procs : pc[p] \in ForkPCs => newp[p] \in Procs

\* c->proc is set exactly when the CPU executes a process.
CPUShape == \A c \in CPUs :
    /\ cpc[c] \in {"return", "run", "yield", "swtch", "panic"} => cproc[c] \in Procs
    /\ cpc[c] \in {"sched", "scan"} => cproc[c] = Null

\* ptable.lock goes with the CPU through swtch(), in both directions.
LockShape == \A c \in CPUs : lock = c <=> cpc[c] \in {"scan", "return", "swtch"}

\* tickslock is held by the clock handler and by sys_sleep(), whose process
\* keeps its CPU meanwhile.
TickShape ==
    /\ \A c \in CPUs : tickslock = c <=>
          \/ cpc[c] = "tick"
          \/ cpc[c] = "run" /\ pc[cproc[c]] \in {"sleep_test", "sleep_enter"}
    /\ \A p \in Procs : pc[p] \in {"sleep_test", "sleep_enter"}
          => \E c \in CPUs : cpc[c] = "run" /\ cproc[c] = p

\* A process in sched() has left RUNNING.
SwtchShape == \A c \in CPUs :
    cpc[c] = "swtch" => state[cproc[c]] \in {"RUNNABLE", "SLEEPING", "ZOMBIE"}

\* fork()'s new slot is an EMBRYO no other fork() works on.
ForkShape == \A p \in Procs : pc[p] \in ForkPCs =>
    /\ state[newp[p]] = "EMBRYO"
    /\ \A q \in Procs : pc[q] \in ForkPCs /\ newp[q] = newp[p] => q = p

\* Stack and page directory, from the step of fork() that allocates each until
\* wait() frees both.
MemoryShape == \A p \in Procs :
    /\ state[p] \in {"RUNNABLE", "RUNNING", "SLEEPING", "ZOMBIE"} => kstack[p] /\ pgdir[p]
    /\ pc[p] \in {"fork_copy", "fork_run"} => kstack[newp[p]]
    /\ pc[p] = "fork_run" => pgdir[newp[p]]

IInv == /\ TypeInv
        /\ CPUShape /\ LockShape /\ TickShape /\ SwtchShape /\ ForkShape /\ MemoryShape
        /\ RunningOnOneCPU /\ NoSchedPanic

-----------------------------------------------------------------------------
(* Liveness *)

Panicked == \E c \in CPUs : cpc[c] = "panic"

\* "Give up the CPU for one scheduling round": every RUNNABLE process runs.
RunnableRuns ==
    \A p \in Procs : state[p] = "RUNNABLE" ~> state[p] = "RUNNING" \/ Panicked

\* A killed process, asleep, waiting or computing, becomes a ZOMBIE.
KilledExits ==
    \A p \in Procs \ {initproc} :
        killed[p] /\ state[p] \in {"RUNNABLE", "RUNNING", "SLEEPING"}
            ~> state[p] = "ZOMBIE" \/ Panicked

\* A ZOMBIE whose parent has exited is reaped by init.
OrphanReaped ==
    \A p \in Procs \ {initproc} :
        state[p] = "ZOMBIE" /\ parent[p] = initproc ~> state[p] = "UNUSED" \/ Panicked

\* sys_sleep() returns.
SleepEnds ==
    \A p \in Procs : pc[p] \in {"sleep_test", "sleep_enter", "sleep_relock"}
        ~> pc[p] \in {"user", "exit"} \/ Panicked
=============================================================================
