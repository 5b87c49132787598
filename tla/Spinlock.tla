------------------------------ MODULE Spinlock ------------------------------
(***************************************************************************)
(* spinlock.c, instruction by instruction where another CPU or an          *)
(* interrupt can get in between: pushcli/popcli, the xchg, the store that  *)
(* frees the lock.  A CPU runs one kernel thread and, while its interrupt  *)
(* flag is set, may be interrupted by a handler that takes locks itself    *)
(* (timer: tickslock, ptable.lock; disk: idelock; console: cons.lock).     *)
(* A handler runs with interrupts off (interrupt gate) and is therefore    *)
(* never interrupted itself.                                               *)
(*                                                                         *)
(* How the callers use the locks is a parameter: <<l, m>> \in Order when   *)
(* some kernel path acquires m while it holds l.  Locks are released in    *)
(* any order (sleep() releases lk after it took ptable.lock).              *)
(***************************************************************************)
EXTENDS Integers, FiniteSets

CONSTANTS CPUs, Locks, Order, None

ASSUME LockAssumption ==
    /\ None \notin CPUs \cup (CPUs \X {"thread", "handler"})
    /\ Order \subseteq Locks \X Locks
    /\ \A l \in Locks : <<l, l>> \notin Order

VARIABLES
    locked,   \* locked[l]: lk->locked
    lcpu,     \* lcpu[l]: lk->cpu, the CPU recorded as holder
    fl,       \* fl[c]: the interrupt flag of eflags
    ncli,     \* ncli[c]: depth of pushcli nesting
    intena,   \* intena[c]: were interrupts on before the outermost pushcli?
    level,    \* level[c]: what the CPU executes, its thread or a handler
    wantOn,   \* wantOn[c]: has the thread executed sti() (scheduler())?
    pc,       \* pc[x]: where execution context x is in spinlock.c
    lk,       \* lk[x]: the lock that acquire/release was called with
    eflags,   \* eflags[x]: pushcli's local variable
    held      \* held[x]: locks whose critical section x is in

perCPU == <<fl, ncli, intena, level, wantOn>>
perLock == <<locked, lcpu>>
perCtx == <<pc, lk, eflags, held>>
vars == <<locked, lcpu, fl, ncli, intena, level, wantOn, pc, lk, eflags, held>>

Contexts == CPUs \X {"thread", "handler"}

PCs == {"idle", "cli", "test", "xchg", "owner",        \* acquire()
        "clear", "store", "popcli", "panic"}           \* release()

TypeOK ==
    /\ locked \in [Locks -> BOOLEAN]
    /\ lcpu \in [Locks -> CPUs \cup {None}]
    /\ fl \in [CPUs -> BOOLEAN]
    /\ ncli \in [CPUs -> Nat]
    /\ intena \in [CPUs -> BOOLEAN]
    /\ level \in [CPUs -> {"thread", "handler"}]
    /\ wantOn \in [CPUs -> BOOLEAN]
    /\ pc \in [Contexts -> PCs]
    /\ lk \in [Contexts -> Locks \cup {None}]
    /\ eflags \in [Contexts -> BOOLEAN]
    /\ held \in [Contexts -> SUBSET Locks]

\* initlock() for every lock; a CPU starts with interrupts off.
Init ==
    /\ locked = [l \in Locks |-> FALSE]
    /\ lcpu = [l \in Locks |-> None]
    /\ fl = [c \in CPUs |-> FALSE]
    /\ ncli = [c \in CPUs |-> 0]
    /\ intena = [c \in CPUs |-> FALSE]
    /\ level = [c \in CPUs |-> "thread"]
    /\ wantOn = [c \in CPUs |-> FALSE]
    /\ pc = [x \in Contexts |-> "idle"]
    /\ lk = [x \in Contexts |-> None]
    /\ eflags = [x \in Contexts |-> FALSE]
    /\ held = [x \in Contexts |-> {}]

Running(x) == level[x[1]] = x[2]

At(x, label) == Running(x) /\ pc[x] = label

Goto(x, label) == pc' = [pc EXCEPT ![x] = label]

\* holding(): lk->locked && lk->cpu == mycpu().  Two loads, but only this CPU
\* ever stores its own number, so they may be one step.
Holding(c, l) == locked[l] /\ lcpu[l] = c

-----------------------------------------------------------------------------
(* acquire() *)

\* A caller enters acquire(); pushcli() has read eflags and not yet run cli().
AcquireCall(x, l) ==
    /\ At(x, "idle")
    /\ l \notin held[x]
    /\ \A m \in held[x] : <<m, l>> \in Order
    /\ eflags' = [eflags EXCEPT ![x] = fl[x[1]]]
    /\ lk' = [lk EXCEPT ![x] = l]
    /\ Goto(x, "cli")
    /\ UNCHANGED <<perCPU, perLock, held>>

\* Mutants of PushcliRest: the cli() forgotten; intena saved at every depth.
PushcliNoCli(x) == LET c == x[1] IN
    /\ At(x, "cli")
    /\ intena' = [intena EXCEPT ![c] = IF ncli[c] = 0 THEN eflags[x] ELSE @]
    /\ ncli' = [ncli EXCEPT ![c] = @ + 1]
    /\ Goto(x, "test")
    /\ UNCHANGED <<perLock, fl, level, wantOn, lk, eflags, held>>

PushcliSavesNested(x) == LET c == x[1] IN
    /\ At(x, "cli")
    /\ fl' = [fl EXCEPT ![c] = FALSE]
    /\ intena' = [intena EXCEPT ![c] = eflags[x]]
    /\ ncli' = [ncli EXCEPT ![c] = @ + 1]
    /\ Goto(x, "test")
    /\ UNCHANGED <<perLock, level, wantOn, lk, eflags, held>>

\* cli() and the rest of pushcli(), which nothing on this CPU can interrupt.
PushcliRest(x) == LET c == x[1] IN
    /\ At(x, "cli")
    /\ fl' = [fl EXCEPT ![c] = FALSE]
    /\ intena' = [intena EXCEPT ![c] = IF ncli[c] = 0 THEN eflags[x] ELSE @]
    /\ ncli' = [ncli EXCEPT ![c] = @ + 1]
    /\ Goto(x, "test")
    /\ UNCHANGED <<perLock, level, wantOn, lk, eflags, held>>

\* if(holding(lk)) panic("acquire")
TestHolding(x) ==
    /\ At(x, "test")
    /\ Goto(x, IF Holding(x[1], lk[x]) THEN "panic" ELSE "xchg")
    /\ UNCHANGED <<perCPU, perLock, lk, eflags, held>>

\* Mutant of Xchg: the lock is taken whatever the exchange returned.
XchgUntested(x) ==
    /\ At(x, "xchg")
    /\ locked' = [locked EXCEPT ![lk[x]] = TRUE]
    /\ held' = [held EXCEPT ![x] = @ \cup {lk[x]}]
    /\ Goto(x, "owner")
    /\ UNCHANGED <<perCPU, lcpu, lk, eflags>>

\* The xchg that finds the lock free; one that does not changes nothing.
Xchg(x) ==
    /\ At(x, "xchg")
    /\ ~locked[lk[x]]
    /\ locked' = [locked EXCEPT ![lk[x]] = TRUE]
    /\ held' = [held EXCEPT ![x] = @ \cup {lk[x]}]
    /\ Goto(x, "owner")
    /\ UNCHANGED <<perCPU, lcpu, lk, eflags>>

\* lk->cpu = mycpu()
RecordOwner(x) ==
    /\ At(x, "owner")
    /\ lcpu' = [lcpu EXCEPT ![lk[x]] = x[1]]
    /\ Goto(x, "idle")
    /\ UNCHANGED <<perCPU, locked, lk, eflags, held>>

-----------------------------------------------------------------------------
(* release() *)

\* if(!holding(lk)) panic("release")
ReleaseCall(x, l) ==
    /\ At(x, "idle")
    /\ l \in held[x]
    /\ lk' = [lk EXCEPT ![x] = l]
    /\ Goto(x, IF Holding(x[1], l) THEN "clear" ELSE "panic")
    /\ UNCHANGED <<perCPU, perLock, eflags, held>>

\* lk->cpu = 0
ClearOwner(x) ==
    /\ At(x, "clear")
    /\ lcpu' = [lcpu EXCEPT ![lk[x]] = None]
    /\ Goto(x, "store")
    /\ UNCHANGED <<perCPU, locked, lk, eflags, held>>

\* movl $0, lk->locked: from here another CPU may own the lock.
StoreZero(x) ==
    /\ At(x, "store")
    /\ locked' = [locked EXCEPT ![lk[x]] = FALSE]
    /\ held' = [held EXCEPT ![x] = @ \ {lk[x]}]
    /\ Goto(x, "popcli")
    /\ UNCHANGED <<perCPU, lcpu, lk, eflags>>

\* Mutant of Popcli: sti() without the test that the nesting is over.
PopcliEarlySti(x) == LET c == x[1] IN
    /\ At(x, "popcli")
    /\ IF fl[c] \/ ncli[c] = 0
       THEN Goto(x, "panic") /\ UNCHANGED <<fl, ncli>>
       ELSE /\ ncli' = [ncli EXCEPT ![c] = @ - 1]
            /\ fl' = [fl EXCEPT ![c] = intena[c]]
            /\ Goto(x, "idle")
    /\ UNCHANGED <<perLock, intena, level, wantOn, lk, eflags, held>>

\* Mutant of Popcli: both tests of ncli decrement it.
PopcliTwice(x) == LET c == x[1] IN
    /\ At(x, "popcli")
    /\ IF fl[c] \/ ncli[c] = 0
       THEN Goto(x, "panic") /\ UNCHANGED <<fl, ncli>>
       ELSE /\ ncli' = [ncli EXCEPT ![c] = @ - 2]
            /\ fl' = [fl EXCEPT ![c] = ncli[c] = 2 /\ intena[c]]
            /\ Goto(x, "idle")
    /\ UNCHANGED <<perLock, intena, level, wantOn, lk, eflags, held>>

\* popcli() panics "popcli - interruptible" or "popcli", or undoes a pushcli().
Popcli(x) == LET c == x[1] IN
    /\ At(x, "popcli")
    /\ IF fl[c] \/ ncli[c] = 0
       THEN Goto(x, "panic") /\ UNCHANGED <<fl, ncli>>
       ELSE /\ ncli' = [ncli EXCEPT ![c] = @ - 1]
            /\ fl' = [fl EXCEPT ![c] = ncli[c] = 1 /\ intena[c]]
            /\ Goto(x, "idle")
    /\ UNCHANGED <<perLock, intena, level, wantOn, lk, eflags, held>>

-----------------------------------------------------------------------------
(* interrupts *)

\* scheduler()'s sti(), at a point where it holds no lock.
Sti(c) == LET x == <<c, "thread">> IN
    /\ At(x, "idle") /\ held[x] = {}
    /\ fl' = [fl EXCEPT ![c] = TRUE]
    /\ wantOn' = [wantOn EXCEPT ![c] = TRUE]
    /\ UNCHANGED <<perLock, ncli, intena, level, perCtx>>

\* A device interrupts: the gate clears fl and the handler starts.
Interrupt(c) ==
    /\ fl[c] /\ level[c] = "thread"
    /\ level' = [level EXCEPT ![c] = "handler"]
    /\ fl' = [fl EXCEPT ![c] = FALSE]
    /\ UNCHANGED <<perLock, ncli, intena, wantOn, perCtx>>

\* trapret: iret restores the eflags of the interrupted thread, fl set.
Iret(c) == LET x == <<c, "handler">> IN
    /\ At(x, "idle") /\ held[x] = {}
    /\ level' = [level EXCEPT ![c] = "thread"]
    /\ fl' = [fl EXCEPT ![c] = TRUE]
    /\ UNCHANGED <<perLock, ncli, intena, wantOn, perCtx>>

-----------------------------------------------------------------------------
AcquireStep(x) == \/ \E l \in Locks : AcquireCall(x, l)
                  \/ PushcliRest(x) \/ TestHolding(x)
                  \/ Xchg(x) \/ RecordOwner(x)

ReleaseStep(x) == \/ \E l \in Locks : ReleaseCall(x, l)
                  \/ ClearOwner(x) \/ StoreZero(x) \/ Popcli(x)

Next == \/ \E x \in Contexts : AcquireStep(x) \/ ReleaseStep(x)
        \/ \E c \in CPUs : Sti(c) \/ Interrupt(c) \/ Iret(c)

Spec == Init /\ [][Next]_vars

-----------------------------------------------------------------------------
(* Properties *)

\* Two execution contexts are never in the critical section of one lock, be
\* they on two CPUs or a thread and the handler that interrupted it
\* (acquire/release, the kernel's only mutual exclusion).
MutualExclusion ==
    \A x, y \in Contexts : x # y => held[x] \cap held[y] = {}

\* "disable interrupts to avoid deadlock": while a lock is owned, or is being
\* spun for, its CPU takes no interrupt.  So a handler never waits for a lock
\* of the thread it interrupted.
OwnerUninterruptible ==
    \A x \in Contexts :
        held[x] # {} \/ pc[x] \in {"test", "xchg"} => Running(x) /\ ~fl[x[1]]

\* None of the four panics of spinlock.c is reached by callers that follow
\* Order: not "acquire", "release", "popcli - interruptible" or "popcli".
NoPanic == \A x \in Contexts : pc[x] # "panic"

\* "they are matched": after the outermost popcli() a thread has the interrupt
\* flag it had before (on once it has run sti()), and a handler, which was
\* entered with interrupts off, never has them on.
InterruptsRestored ==
    \A x \in Contexts :
        At(x, "idle") /\ held[x] = {}
            => fl[x[1]] = (x[2] = "thread" /\ wantOn[x[1]])

\* The contexts in the critical section of l.
Owner(l) == {x \in Contexts : l \in held[x]}

owners == [l \in Locks |-> Owner(l)]

Abstract == INSTANCE AtomicLock WITH Threads <- Contexts, owner <- owners

\* The instructions of acquire() and release() implement the atomic lock that
\* every other module takes them for.
ImplementsAtomicLock == Abstract!Spec

=============================================================================
