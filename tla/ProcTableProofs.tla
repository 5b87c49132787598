--------------------------- MODULE ProcTableProofs ---------------------------
(***************************************************************************)
(* What fork(), exit(), wait(), sleep(), wakeup() and kill() promise of    *)
(* the process table as a whole: pids are unique, every process has a      *)
(* parent that can wait() for it, pages are conserved, no exit and no tick *)
(* is missed by a sleeper, and only its parent reaps a ZOMBIE.  They are   *)
(* proved together, over the invariant of ProcProofs.                      *)
(***************************************************************************)
EXTENDS ProcProofs, FiniteSetTheorems

-----------------------------------------------------------------------------
(* The inductive invariant, next to IInv *)

Live == {"RUNNABLE", "RUNNING", "SLEEPING"}

\* A pid is never given out twice, and init's slot is never free.
PidShape ==
    /\ PidsUnique
    /\ nextpid >= 2
    /\ \A p \in Procs : pid[p] < nextpid

\* p->parent is null until fork() sets it and after wait() frees the slot; the
\* process that forks is alive meanwhile, and so is init, always.
TreeShape ==
    /\ ParentAlive
    /\ state[initproc] \in Live /\ parent[initproc] = Null
    /\ \A p \in Procs :
          /\ parent[p] # p
          /\ state[p] = "UNUSED" => parent[p] = Null
          /\ pc[p] \in ForkPCs => state[p] \in {"RUNNABLE", "RUNNING"}
          /\ pc[p] \in {"fork_kstack", "fork_copy"} => parent[newp[p]] = Null
          /\ pc[p] = "fork_run" => parent[newp[p]] = p

\* What the slot fork() works on owns already.
PageShape ==
    /\ PagesConserved
    /\ \A p \in Procs :
          /\ pc[p] = "fork_kstack" => ~kstack[newp[p]] /\ ~pgdir[newp[p]]
          /\ pc[p] = "fork_copy" => ~pgdir[newp[p]]

\* The context a process will resume with tells where in the kernel it is, and
\* what it sleeps on; on a CPU it has none.
ContextShape ==
    /\ \A c \in CPUs : cpc[c] \in {"run", "tick", "yield", "panic"} /\ cproc[c] # Null
          => ctx[cproc[c]] = "none"
    /\ \A p \in Procs :
          /\ ctx[p] = "wait" => pc[p] = "syscall"
          /\ ctx[p] = "ticks" => pc[p] = "sleep_relock"
          /\ state[p] = "SLEEPING" => \/ ctx[p] = "wait" /\ chan[p] = p
                                      \/ ctx[p] = "ticks" /\ chan[p] = TicksChan

\* No wakeup is lost, and none is about to be: the ticks cannot advance between
\* sys_sleep()'s test and sleep(), because tickslock is held.
WakeupShape ==
    /\ NoMissedExit
    /\ NoMissedTick
    /\ \A p \in Procs : pc[p] = "sleep_enter" => ticks < wake[p]

TableInv == PidShape /\ TreeShape /\ PageShape /\ ContextShape /\ WakeupShape

-----------------------------------------------------------------------------
(* Lemmas about the operators *)

\* A CPU that is not in sched() executes a RUNNING process.
LEMMA Running ==
  ASSUME IInv, NEW c \in CPUs, NEW p \in Procs, cproc[c] = p, cpc[c] # "swtch"
  PROVE  state[p] = "RUNNING"
  BY DEF IInv, RunningOnOneCPU, OnCPU

\* The process in wait()'s loop executes on the CPU, whether it has just called
\* wait() or come back from sleep().
LEMMA WaiterRuns ==
  ASSUME IInv, ContextShape, NEW c \in CPUs, NEW p \in Procs, InWait(c, p)
  PROVE  cproc[c] = p /\ state[p] = "RUNNING" /\ pc[p] = "syscall" /\ cpc[c] \in {"run", "return"}
<1>1. cproc[c] = p /\ cpc[c] \in {"run", "return"}
  BY DEF InWait, RunsAt
<1>2. pc[p] = "syscall"
  BY DEF InWait, RunsAt, ContextShape
<1> QED BY <1>1, <1>2, Running

\* sched() finds its conditions met and swtch() lands in scheduler()'s scan.
LEMMA SwtchLands ==
  ASSUME IInv, NEW c \in CPUs, SchedSwtch(c)
  PROVE  /\ cpc[c] = "swtch"
         /\ cpc' = [cpc EXCEPT ![c] = "scan"]
         /\ cproc' = [cproc EXCEPT ![c] = Null]
         /\ UNCHANGED <<slots, paths, memory, locks, idx, threshold>>
  BY DEF IInv, TypeInv, TypeOK, SchedSwtch, LockShape, TickShape, SwtchShape, CPUShape

\* fork()'s slot is not the caller, not init's and nobody else's.
LEMMA ForkSlotApart ==
  ASSUME IInv, TreeShape, NEW c \in CPUs, NEW p \in Procs, cpc[c] = "run", cproc[c] = p,
         pc[p] \in ForkPCs
  PROVE  /\ state[p] = "RUNNING"
         /\ newp[p] \in Procs /\ state[newp[p]] = "EMBRYO"
         /\ newp[p] # p /\ newp[p] # initproc
         /\ \A q \in Procs : pc[q] \in ForkPCs /\ q # p => newp[q] # newp[p]
<1>1. state[p] = "RUNNING"
  BY Running
<1>2. newp[p] \in Procs /\ state[newp[p]] = "EMBRYO"
  BY DEF IInv, TypeInv, ForkShape
<1>3. \A q \in Procs : pc[q] \in ForkPCs /\ q # p => newp[q] # newp[p]
  BY DEF IInv, ForkShape
<1> QED BY <1>1, <1>2, <1>3 DEF TreeShape, Live

\* The page counted for a slot that gets one, and for one that loses it.
LEMMA PageCount ==
  ASSUME NEW f \in [Procs -> BOOLEAN], NEW g \in [Procs -> BOOLEAN], NEW p \in Procs,
         \A q \in Procs : q # p => g[q] = f[q]
  PROVE  /\ Cardinality({q \in Procs : f[q]}) \in Nat
         /\ ~f[p] /\ g[p] => Cardinality({q \in Procs : g[q]})
                                = Cardinality({q \in Procs : f[q]}) + 1
         /\ f[p] /\ ~g[p] => Cardinality({q \in Procs : g[q]})
                                = Cardinality({q \in Procs : f[q]}) - 1
<1> DEFINE S == {q \in Procs : f[q]}
<1>1. IsFiniteSet(S)
  <2>1. IsFiniteSet(Procs)
    BY ProcAssumption, FS_Interval DEF Procs
  <2> QED BY <2>1, FS_Subset
<1>2. Cardinality(S) \in Nat
  BY <1>1, FS_CardinalityType
<1>3. ASSUME ~f[p], g[p]
      PROVE  Cardinality({q \in Procs : g[q]}) = Cardinality(S) + 1
  <2>1. {q \in Procs : g[q]} = S \cup {p}
    BY <1>3
  <2>2. p \notin S
    BY <1>3
  <2> QED BY <1>1, <2>1, <2>2, FS_AddElement
<1>4. ASSUME f[p], ~g[p]
      PROVE  Cardinality({q \in Procs : g[q]}) = Cardinality(S) - 1
  <2>1. {q \in Procs : g[q]} = S \ {p}
    BY <1>4
  <2>2. p \in S
    BY <1>4
  <2> QED BY <1>1, <2>1, <2>2, FS_RemoveElement
<1> QED BY <1>2, <1>3, <1>4

-----------------------------------------------------------------------------
(* What most steps leave alone *)

\* Slots are neither allocated, filled nor freed, no process dies, and no fork()
\* advances: every step but those of fork(), exit() and a successful wait().
Calm ==
    /\ UNCHANGED <<pid, parent, kstack, pgdir, nextpid, freePages>>
    /\ \A p \in Procs :
          /\ state'[p] = state[p] \/ (state[p] \in Live /\ state'[p] \in Live)
          /\ pc'[p] \in ForkPCs =>
                /\ pc'[p] = pc[p] /\ newp'[p] = newp[p]
                /\ state'[p] = "SLEEPING" => state[p] = "SLEEPING"

\* Nobody falls asleep, starts to execute or moves while it has a context.
SameContexts ==
    /\ UNCHANGED <<ctx, chan>>
    /\ \A c \in CPUs : cpc'[c] \in {"run", "tick", "yield", "panic"} =>
          cpc[c] \in {"run", "tick", "yield", "panic"} /\ cproc'[c] = cproc[c]
    /\ \A p \in Procs :
          /\ pc'[p] = pc[p] \/ ctx[p] = "none"
          /\ state'[p] = "SLEEPING" => state[p] = "SLEEPING"

\* Nothing happens that a sleeper has to be told of.
Quiet ==
    /\ UNCHANGED <<parent, ticks, wake>>
    /\ cpc[BootCPU] = "tick" => cpc'[BootCPU] = "tick"
    /\ \A p \in Procs :
          /\ state'[p] = "ZOMBIE" => state[p] = "ZOMBIE"
          /\ state'[p] = "SLEEPING" => /\ state[p] = "SLEEPING" /\ ctx'[p] = ctx[p]
                                       /\ killed'[p] => killed[p]
          /\ pc'[p] = "sleep_enter" => pc[p] = "sleep_enter"

\* A calm step keeps the pids apart.
LEMMA CalmPids ==
  ASSUME TypeInv, TypeInv', PidShape, Calm
  PROVE  PidShape'
  BY DEF PidShape, PidsUnique, Calm, Live, TypeInv, TypeOK

\* A calm step keeps the tree of processes.
LEMMA CalmTree ==
  ASSUME TypeInv, TypeInv', TreeShape, Calm
  PROVE  TreeShape'
<1> USE Slots DEF TypeInv, TypeOK
<1>1. ParentAlive'
  BY DEF TreeShape, ParentAlive, Calm, Live
<1>2. (state[initproc] \in Live /\ parent[initproc] = Null)'
  BY DEF TreeShape, Calm
<1>3. ASSUME NEW p \in Procs
      PROVE  (/\ parent[p] # p
              /\ state[p] = "UNUSED" => parent[p] = Null
              /\ pc[p] \in ForkPCs => state[p] \in {"RUNNABLE", "RUNNING"}
              /\ pc[p] \in {"fork_kstack", "fork_copy"} => parent[newp[p]] = Null
              /\ pc[p] = "fork_run" => parent[newp[p]] = p)'
  <2>1. (parent[p] # p /\ (state[p] = "UNUSED" => parent[p] = Null))'
    BY DEF TreeShape, Calm, Live
  <2>2. (pc[p] \in ForkPCs => state[p] \in {"RUNNABLE", "RUNNING"})'
    BY DEF TreeShape, Calm, Live
  <2>3. (/\ pc[p] \in {"fork_kstack", "fork_copy"} => parent[newp[p]] = Null
         /\ pc[p] = "fork_run" => parent[newp[p]] = p)'
    BY DEF TreeShape, Calm, ForkPCs
  <2> QED BY <2>1, <2>2, <2>3
<1> QED BY <1>1, <1>2, <1>3 DEF TreeShape

\* A calm step keeps the pages.
LEMMA CalmPages ==
  ASSUME TypeInv, TypeInv', PageShape, Calm
  PROVE  PageShape'
<1>1. PagesConserved'
  BY DEF PageShape, PagesConserved, Calm, Live
<1>2. (\A p \in Procs : /\ pc[p] = "fork_kstack" => ~kstack[newp[p]] /\ ~pgdir[newp[p]]
                        /\ pc[p] = "fork_copy" => ~pgdir[newp[p]])'
  BY DEF PageShape, Calm, ForkPCs
<1> QED BY <1>1, <1>2 DEF PageShape

\* Contexts stay what they say.
LEMMA ContextsSame ==
  ASSUME TypeInv, TypeInv', ContextShape, SameContexts
  PROVE  ContextShape'
  BY DEF ContextShape, SameContexts, TypeInv, TypeOK

\* A quiet step loses no wakeup.
LEMMA QuietWakeups ==
  ASSUME TypeInv, TypeInv', WakeupShape, Quiet
  PROVE  WakeupShape'
<1>1. NoMissedExit'
  BY DEF WakeupShape, NoMissedExit, Quiet, Children, Zombies
<1>2. NoMissedTick'
  BY ProcAssumption DEF WakeupShape, NoMissedTick, Quiet
<1>3. (\A p \in Procs : pc[p] = "sleep_enter" => ticks < wake[p])'
  BY DEF WakeupShape, Quiet
<1> QED BY <1>1, <1>2, <1>3 DEF WakeupShape

-----------------------------------------------------------------------------
(* The initial state *)

\* userinit() leaves one process, init, with a stack and a page directory.
LEMMA InitTableInv == Init => TableInv
<1> SUFFICES ASSUME Init PROVE TableInv
  OBVIOUS
<1> USE ProcAssumption, Slots DEF Init
<1>1. PidShape
  BY DEF PidShape, PidsUnique, initproc
<1>2. TreeShape
  BY DEF TreeShape, ParentAlive, Live, ForkPCs
<1>3. PageShape
  <2>1. {p \in Procs : kstack[p]} = {initproc} /\ {p \in Procs : pgdir[p]} = {initproc}
    OBVIOUS
  <2>2. Cardinality({initproc}) = 1
    BY FS_Singleton
  <2>3. freePages + 1 + 1 = NPAGES
    OBVIOUS
  <2>4. freePages + Cardinality({p \in Procs : kstack[p]})
                  + Cardinality({p \in Procs : pgdir[p]}) = NPAGES
    BY <2>1, <2>2, <2>3
  <2> QED BY <2>4 DEF PageShape, PagesConserved
<1>4. ContextShape
  BY DEF ContextShape
<1>5. WakeupShape
  BY DEF WakeupShape, NoMissedExit, NoMissedTick
<1> QED BY <1>1, <1>2, <1>3, <1>4, <1>5 DEF TableInv

-----------------------------------------------------------------------------
(* The steps, seen as calm, quiet and context-keeping ones *)

\* What scheduler(), swtch() and the clock leave alone.
LEMMA CpuSteps ==
  ASSUME IInv, TypeInv', TableInv, NEW c \in CPUs, Scheduler(c) \/ Switch(c) \/ Timer(c)
  PROVE  Calm
<1> USE Slots
    DEF IInv, TypeInv, TypeOK, slots, paths, memory, locks, cpus, SchedLocked, NewRound,
        Calm, Live, ForkPCs
<1>1. CASE SchedAcquire(c)
  BY <1>1 DEF SchedAcquire
<1>2. CASE SchedDispatch(c)
  BY <1>2 DEF SchedDispatch, First, Eligible
<1>3. CASE SchedEndPass(c)
  BY <1>3 DEF SchedEndPass
<1>4. CASE SchedSwtch(c)
  BY <1>4 DEF SchedSwtch
<1>5. CASE ForkRet(c)
  BY <1>5 DEF ForkRet
<1>6. CASE YieldReturn(c)
  BY <1>6 DEF YieldReturn
<1>7. CASE TicksReturn(c)
  BY <1>7 DEF TicksReturn
<1>8. CASE TimerTick(c)
  BY <1>8 DEF TimerTick
<1>9. CASE TimerWakeup(c)
  BY <1>9 DEF TimerWakeup, Woken, AfterTick
<1>10. CASE TimerOther(c)
  BY <1>10 DEF TimerOther, AfterTick
<1>11. CASE Yield(c)
  <2>1. cproc[c] \in Procs /\ state[cproc[c]] = "RUNNING"
    BY <1>11, Running DEF Yield, CPUShape
  <2> QED BY <1>11, <2>1 DEF Yield
<1> QED BY <1>1, <1>2, <1>3, <1>4, <1>5, <1>6, <1>7, <1>8, <1>9, <1>10, <1>11
        DEF Scheduler, Switch, Resume, Timer

\* The steps of a process that are not fork()'s, exit()'s or a successful wait()'s.
CalmCall(c, p) ==
    \/ Trap(c, p) \/ Fault(c, p) \/ ForkNoSlot(c, p) \/ CallExit(c, p)
    \/ \E n \in SleepArgs : SleepCall(c, p, n)
    \/ \E k \in KillArgs : Kill(c, p, k) \/ KillNobody(c, p, k)
    \/ \E n \in Prios : SetPrio(c, p, n)
    \/ WaitFails(c, p) \/ WaitSleep(c, p) \/ Sleep(c, p) \/ InitExiting(c, p)

\* What these leave alone.
LEMMA CallSteps ==
  ASSUME IInv, TypeInv', TableInv, NEW c \in CPUs, NEW p \in Procs, CalmCall(c, p)
  PROVE  Calm
<1> USE Slots
    DEF IInv, TypeInv, TypeOK, slots, paths, memory, locks, cpus, SchedLocked, RunsAt,
        Return, AfterSyscall, ReleaseLk, KilledState, Calm, Live, ForkPCs, TableInv
<1>1. CASE Trap(c, p)
  BY <1>1 DEF Trap
<1>2. CASE Fault(c, p)
  BY <1>2 DEF Fault
<1>3. CASE ForkNoSlot(c, p)
  BY <1>3 DEF ForkNoSlot, ForkFails
<1>4. CASE CallExit(c, p)
  BY <1>4 DEF CallExit
<1>5. ASSUME NEW n \in SleepArgs, SleepCall(c, p, n) PROVE Calm
  BY <1>5 DEF SleepCall
<1>6. ASSUME NEW k \in KillArgs, Kill(c, p, k) PROVE Calm
  BY <1>6 DEF Kill
<1>7. ASSUME NEW k \in KillArgs, KillNobody(c, p, k) PROVE Calm
  BY <1>7 DEF KillNobody
<1>8. ASSUME NEW n \in Prios, SetPrio(c, p, n) PROVE Calm
  BY <1>8 DEF SetPrio
<1>9. CASE WaitFails(c, p)
  BY <1>9 DEF WaitFails, WaitReturns
<1>10. CASE WaitSleep(c, p)
  <2>1. state[p] = "RUNNING" /\ pc[p] = "syscall"
    BY <1>10, WaiterRuns DEF WaitSleep
  <2> QED BY <1>10, <2>1 DEF WaitSleep
<1>11. CASE SleepDone(c, p)
  BY <1>11 DEF SleepDone
<1>12. CASE SleepAgain(c, p)
  BY <1>12 DEF SleepAgain
<1>13. CASE SleepEnter(c, p)
  <2>1. state[p] = "RUNNING"
    BY <1>13, Running DEF SleepEnter
  <2> QED BY <1>13, <2>1 DEF SleepEnter
<1>14. CASE SleepRelock(c, p)
  BY <1>14 DEF SleepRelock
<1>15. CASE InitExiting(c, p)
  BY <1>15 DEF InitExiting
<1> QED BY <1>1, <1>2, <1>3, <1>4, <1>5, <1>6, <1>7, <1>8, <1>9, <1>10, <1>11, <1>12,
           <1>13, <1>14, <1>15
        DEF CalmCall, Sleep

-----------------------------------------------------------------------------
(* Pids *)

\* The slots fork() takes and gives back and those wait() frees leave the pids
\* apart.
LEMMA PidsKept ==
  ASSUME IInv, TypeInv', TableInv, NEW c \in CPUs, NEW p \in Procs,
         ForkSlot(c, p) \/ Fork(c, p) \/ Exit(c, p) \/ WaitReap(c, p)
  PROVE  PidShape'
<1> USE Slots
    DEF IInv, TypeInv, TypeOK, paths, memory, locks, cpus, AllocPid, FreeStack,
        PidShape, PidsUnique, TableInv
<1>1. CASE ForkSlot(c, p)
  <2>1. PICK s \in Procs :
          /\ state[s] = "UNUSED"
          /\ state' = [state EXCEPT ![s] = "EMBRYO"]
          /\ pid' = [pid EXCEPT ![s] = nextpid] /\ nextpid' = nextpid + 1
    BY <1>1 DEF ForkSlot, First
  <2>2. s # initproc
    BY <2>1 DEF TreeShape, Live
  <2> QED BY <2>1, <2>2
<1>2. CASE ForkStack(c, p)
  BY <1>2 DEF ForkStack
<1>3. CASE ForkNoStack(c, p)
  BY <1>3 DEF ForkNoStack
<1>4. CASE ForkCopy(c, p)
  BY <1>4 DEF ForkCopy
<1>5. CASE ForkNoCopy(c, p)
  BY <1>5 DEF ForkNoCopy
<1>6. CASE ForkRun(c, p)
  <2>1. state[newp[p]] = "EMBRYO"
    BY <1>6, ForkSlotApart DEF ForkRun, RunsAt, ForkPCs
  <2> QED BY <1>6, <2>1 DEF ForkRun
<1>7. CASE Exit(c, p)
  <2>1. state[p] = "RUNNING"
    BY <1>7, Running DEF Exit, Exiting, RunsAt
  <2> QED BY <1>7, <2>1 DEF Exit
<1>8. CASE WaitReap(c, p)
  <2>1. PICK z \in Procs :
          /\ state[z] = "ZOMBIE"
          /\ state' = [state EXCEPT ![z] = "UNUSED"]
          /\ pid' = [pid EXCEPT ![z] = 0] /\ nextpid' = nextpid
    BY <1>8 DEF WaitReap, First, Zombies
  <2>2. z # initproc
    BY <2>1 DEF TreeShape, Live
  <2> QED BY <2>1, <2>2
<1> QED BY <1>1, <1>2, <1>3, <1>4, <1>5, <1>6, <1>7, <1>8 DEF Fork

-----------------------------------------------------------------------------
(* The tree of processes *)

\* fork() links its slot into the tree before anybody may run it, or leaves it
\* without parent.
LEMMA ForkTree ==
  ASSUME IInv, TypeInv', TableInv, NEW c \in CPUs, NEW p \in Procs,
         ForkSlot(c, p) \/ Fork(c, p)
  PROVE  TreeShape'
<1> USE Slots
    DEF IInv, TypeInv, TypeOK, paths, memory, locks, cpus, AllocPid, FreeStack, RunsAt,
        Return, AfterSyscall, ForkPCs, Live, TableInv
<1>1. CASE ForkSlot(c, p)
  <2>1. PICK s \in Procs :
          /\ state[s] = "UNUSED"
          /\ state' = [state EXCEPT ![s] = "EMBRYO"]
          /\ newp' = [newp EXCEPT ![p] = s]
    BY <1>1 DEF ForkSlot, First
  <2>2. state[p] = "RUNNING"
    BY <1>1, Running DEF ForkSlot
  <2>3. UNCHANGED parent /\ pc' = [pc EXCEPT ![p] = "fork_kstack"]
    BY <1>1 DEF ForkSlot
  <2>4. ParentAlive'
    BY <2>1, <2>3 DEF TreeShape, ParentAlive
  <2>5. (state[initproc] \in Live /\ parent[initproc] = Null)'
    BY <2>1, <2>3 DEF TreeShape
  <2>6. ASSUME NEW q \in Procs
        PROVE  (/\ parent[q] # q
                /\ state[q] = "UNUSED" => parent[q] = Null
                /\ pc[q] \in ForkPCs => state[q] \in {"RUNNABLE", "RUNNING"}
                /\ pc[q] \in {"fork_kstack", "fork_copy"} => parent[newp[q]] = Null
                /\ pc[q] = "fork_run" => parent[newp[q]] = q)'
    <3>1. CASE q = p
      BY <3>1, <2>1, <2>2, <2>3 DEF TreeShape
    <3>2. CASE q # p
      BY <3>2, <2>1, <2>2, <2>3 DEF TreeShape
    <3> QED BY <3>1, <3>2
  <2> QED BY <2>4, <2>5, <2>6 DEF TreeShape
<1>2. CASE ForkStack(c, p)
  <2>1. newp[p] \in Procs /\ newp[p] # p /\ state[p] = "RUNNING"
    BY <1>2, ForkSlotApart DEF ForkStack
  <2>2. UNCHANGED <<parent, state, newp>> /\ pc' = [pc EXCEPT ![p] = "fork_copy", ![newp[p]] = "user"]
    BY <1>2 DEF ForkStack
  <2>3. pc[p] = "fork_kstack"
    BY <1>2 DEF ForkStack
  <2>4. ParentAlive'
    BY <2>2 DEF TreeShape, ParentAlive
  <2> QED BY <2>1, <2>2, <2>3, <2>4 DEF TreeShape
<1>3. CASE ForkNoStack(c, p)
  <2>1. /\ newp[p] \in Procs /\ newp[p] # p /\ newp[p] # initproc
        /\ state[newp[p]] = "EMBRYO" /\ pc[p] = "fork_kstack"
    BY <1>3, ForkSlotApart DEF ForkNoStack
  <2>2. /\ UNCHANGED parent /\ newp' = [newp EXCEPT ![p] = Null]
        /\ state' = [state EXCEPT ![newp[p]] = "UNUSED"]
        /\ pc'[p] \notin ForkPCs /\ \A q \in Procs : q # p => pc'[q] = pc[q]
    BY <1>3 DEF ForkNoStack, ForkFails
  <2>3. parent[newp[p]] = Null
    BY <2>1 DEF TreeShape
  <2>4. ParentAlive'
    BY <2>1, <2>2 DEF TreeShape, ParentAlive
  <2> QED BY <2>1, <2>2, <2>3, <2>4 DEF TreeShape
<1>4. CASE ForkCopy(c, p)
  <2>1. /\ newp[p] \in Procs /\ newp[p] # p /\ newp[p] # initproc
        /\ state[newp[p]] = "EMBRYO" /\ pc[p] = "fork_copy" /\ state[p] = "RUNNING"
        /\ \A q \in Procs : pc[q] \in ForkPCs /\ q # p => newp[q] # newp[p]
    BY <1>4, ForkSlotApart DEF ForkCopy
  <2>2. /\ UNCHANGED <<state, newp>> /\ parent' = [parent EXCEPT ![newp[p]] = p]
        /\ pc' = [pc EXCEPT ![p] = "fork_run"]
    BY <1>4 DEF ForkCopy
  <2>3. ParentAlive'
    BY <2>1, <2>2 DEF TreeShape, ParentAlive
  <2> QED BY <2>1, <2>2, <2>3 DEF TreeShape
<1>5. CASE ForkNoCopy(c, p)
  <2>1. /\ newp[p] \in Procs /\ newp[p] # p /\ newp[p] # initproc
        /\ state[newp[p]] = "EMBRYO" /\ pc[p] = "fork_copy"
    BY <1>5, ForkSlotApart DEF ForkNoCopy
  <2>2. /\ UNCHANGED parent /\ newp' = [newp EXCEPT ![p] = Null]
        /\ state' = [state EXCEPT ![newp[p]] = "UNUSED"]
        /\ pc'[p] \notin ForkPCs /\ \A q \in Procs : q # p => pc'[q] = pc[q]
    BY <1>5 DEF ForkNoCopy, ForkFails
  <2>3. parent[newp[p]] = Null
    BY <2>1 DEF TreeShape
  <2>4. ParentAlive'
    BY <2>1, <2>2 DEF TreeShape, ParentAlive
  <2> QED BY <2>1, <2>2, <2>3, <2>4 DEF TreeShape
<1>6. CASE ForkRun(c, p)
  <2>1. /\ newp[p] \in Procs /\ newp[p] # p /\ newp[p] # initproc
        /\ state[newp[p]] = "EMBRYO" /\ pc[p] = "fork_run" /\ state[p] = "RUNNING"
    BY <1>6, ForkSlotApart DEF ForkRun
  <2>2. /\ UNCHANGED parent /\ newp' = [newp EXCEPT ![p] = Null]
        /\ state' = [state EXCEPT ![newp[p]] = "RUNNABLE"]
        /\ pc'[p] \notin ForkPCs /\ \A q \in Procs : q # p => pc'[q] = pc[q]
    BY <1>6 DEF ForkRun
  <2>3. parent[newp[p]] = p
    BY <2>1 DEF TreeShape
  <2>4. ParentAlive'
    BY <2>1, <2>2, <2>3 DEF TreeShape, ParentAlive
  <2> QED BY <2>1, <2>2, <2>3, <2>4 DEF TreeShape
<1> QED BY <1>1, <1>2, <1>3, <1>4, <1>5, <1>6 DEF Fork

\* exit() hands its children to init, who lives; wait() frees a slot that is
\* nobody's parent.
LEMMA EndTree ==
  ASSUME IInv, TypeInv', TableInv, NEW c \in CPUs, NEW p \in Procs,
         Exit(c, p) \/ WaitReap(c, p)
  PROVE  TreeShape'
<1> USE Slots
    DEF IInv, TypeInv, TypeOK, paths, memory, locks, cpus, RunsAt,
        Return, AfterSyscall, ForkPCs, Live, TableInv
<1>1. CASE Exit(c, p)
  <2>1. state[p] = "RUNNING" /\ pc[p] \notin ForkPCs /\ p # initproc /\ p # Null
    BY <1>1, Running DEF Exit, Exiting
  <2>2. UNCHANGED <<pc, newp>>
    BY <1>1 DEF Exit
  <2>3. /\ state'[p] = "ZOMBIE"
        /\ \A q \in Procs : q # p => \/ state'[q] = state[q]
                                     \/ state[q] = "SLEEPING" /\ state'[q] = "RUNNABLE"
    BY <1>1 DEF Exit
  <2>4. \A q \in Procs : /\ parent[q] = p => parent'[q] = initproc
                         /\ parent[q] # p => parent'[q] = parent[q]
    BY <1>1 DEF Exit, Orphans, Children
  <2>5. (state[initproc] \in Live /\ parent[initproc] = Null)'
    BY <2>1, <2>3, <2>4 DEF TreeShape
  <2>6. ParentAlive'
    <3> SUFFICES ASSUME NEW q \in Procs \ {initproc}, state'[q] \notin {"UNUSED", "EMBRYO"}
                 PROVE  /\ parent'[q] # Null
                        /\ state'[parent'[q]] \notin {"UNUSED", "EMBRYO", "ZOMBIE"}
      BY DEF ParentAlive
    <3>1. /\ parent[q] # Null
          /\ state[parent[q]] \notin {"UNUSED", "EMBRYO", "ZOMBIE"}
      BY <2>1, <2>3 DEF TreeShape, ParentAlive
    <3>2. CASE parent[q] = p
      BY <3>2, <2>4, <2>5
    <3>3. CASE parent[q] # p
      BY <3>1, <3>3, <2>3, <2>4
    <3> QED BY <3>2, <3>3
  <2>7. ASSUME NEW q \in Procs
        PROVE  (/\ parent[q] # q
                /\ state[q] = "UNUSED" => parent[q] = Null
                /\ pc[q] \in ForkPCs => state[q] \in {"RUNNABLE", "RUNNING"}
                /\ pc[q] \in {"fork_kstack", "fork_copy"} => parent[newp[q]] = Null
                /\ pc[q] = "fork_run" => parent[newp[q]] = q)'
    <3>1. (parent[q] # q)'
      BY <2>1, <2>4 DEF TreeShape
    <3>2. (state[q] = "UNUSED" => parent[q] = Null)'
      BY <2>1, <2>3, <2>4 DEF TreeShape
    <3>3. (pc[q] \in ForkPCs => state[q] \in {"RUNNABLE", "RUNNING"})'
      BY <2>1, <2>2, <2>3 DEF TreeShape
    <3>4. (/\ pc[q] \in {"fork_kstack", "fork_copy"} => parent[newp[q]] = Null
           /\ pc[q] = "fork_run" => parent[newp[q]] = q)'
      BY <2>1, <2>2, <2>4 DEF TreeShape
    <3> QED BY <3>1, <3>2, <3>3, <3>4
  <2> QED BY <2>5, <2>6, <2>7 DEF TreeShape
<1>2. CASE WaitReap(c, p)
  <2>1. PICK z \in Procs :
          /\ state[z] = "ZOMBIE" /\ parent[z] = p
          /\ state' = [state EXCEPT ![z] = "UNUSED"]
          /\ parent' = [parent EXCEPT ![z] = Null]
    BY <1>2 DEF WaitReap, First, Zombies, Children
  <2>2. /\ UNCHANGED newp
        /\ pc'[p] \notin ForkPCs /\ \A q \in Procs : q # p => pc'[q] = pc[q]
    BY <1>2 DEF WaitReap, WaitReturns
  <2>3. ParentAlive'
    BY <2>1 DEF TreeShape, ParentAlive
  <2>4. \A q \in Procs : pc[q] \in ForkPCs => newp[q] # z /\ q # z
    BY <2>1 DEF TreeShape, ForkShape
  <2> QED BY <2>1, <2>2, <2>3, <2>4 DEF TreeShape
<1> QED BY <1>1, <1>2

-----------------------------------------------------------------------------
(* Pages *)

\* Each failing step of fork() gives back what the ones before it took, and
\* wait() what exit() left; exit() itself frees nothing.
LEMMA PagesKept ==
  ASSUME IInv, TypeInv', TableInv, NEW c \in CPUs, NEW p \in Procs,
         ForkSlot(c, p) \/ Fork(c, p) \/ Exit(c, p) \/ WaitReap(c, p)
  PROVE  PageShape'
<1> USE Slots
    DEF IInv, TypeInv, TypeOK, paths, memory, locks, cpus, AllocPid, FreeStack, RunsAt,
        Return, AfterSyscall, ForkPCs, TableInv
<1> DEFINE Stacks == {q \in Procs : kstack[q]}
           Dirs == {q \in Procs : pgdir[q]}
<1>0. /\ Cardinality(Stacks) \in Nat /\ Cardinality(Dirs) \in Nat
      /\ freePages + Cardinality(Stacks) + Cardinality(Dirs) = NPAGES
      /\ \A q \in Procs : state[q] = "UNUSED" => ~kstack[q] /\ ~pgdir[q]
  BY PageCount DEF PageShape, PagesConserved
<1>1. CASE ForkSlot(c, p)
  <2>1. PICK s \in Procs :
          /\ state[s] = "UNUSED"
          /\ state' = [state EXCEPT ![s] = "EMBRYO"]
          /\ newp' = [newp EXCEPT ![p] = s]
    BY <1>1 DEF ForkSlot, First
  <2>2. /\ UNCHANGED <<kstack, pgdir, freePages>>
        /\ pc' = [pc EXCEPT ![p] = "fork_kstack"]
    BY <1>1 DEF ForkSlot
  <2>3. PagesConserved'
    BY <1>0, <2>1, <2>2 DEF PagesConserved
  <2> QED BY <1>0, <2>1, <2>2, <2>3 DEF PageShape
<1>2. CASE ForkStack(c, p)
  <2>1. /\ newp[p] \in Procs /\ newp[p] # p /\ state[newp[p]] = "EMBRYO"
        /\ \A q \in Procs : pc[q] \in ForkPCs /\ q # p => newp[q] # newp[p]
    BY <1>2, ForkSlotApart DEF ForkStack
  <2>2. /\ UNCHANGED <<state, pgdir, newp>> /\ pc[p] = "fork_kstack"
        /\ freePages' = freePages - 1 /\ kstack' = [kstack EXCEPT ![newp[p]] = TRUE]
        /\ pc' = [pc EXCEPT ![p] = "fork_copy", ![newp[p]] = "user"]
    BY <1>2 DEF ForkStack
  <2>3. ~kstack[newp[p]] /\ ~pgdir[newp[p]]
    BY <2>2 DEF PageShape
  <2>4. Cardinality(Stacks)' = Cardinality(Stacks) + 1
    <3>1. PICK s \in Procs : s = newp[p]
      BY <2>1
    <3>2. ~kstack[s] /\ kstack'[s] /\ kstack' \in [Procs -> BOOLEAN]
      BY <2>2, <2>3, <3>1
    <3>3. \A q \in Procs : q # s => kstack'[q] = kstack[q]
      BY <2>2, <3>1
    <3> QED BY <3>2, <3>3, PageCount
  <2>5. (freePages + Cardinality(Stacks) + Cardinality(Dirs) = NPAGES)'
    BY <1>0, <2>2, <2>4
  <2>6. PagesConserved'
    BY <1>0, <2>1, <2>2, <2>5 DEF PagesConserved
  <2> QED BY <2>1, <2>2, <2>3, <2>6 DEF PageShape
<1>3. CASE ForkNoStack(c, p)
  <2>1. /\ newp[p] \in Procs /\ newp[p] # p
        /\ \A q \in Procs : pc[q] \in ForkPCs /\ q # p => newp[q] # newp[p]
    BY <1>3, ForkSlotApart DEF ForkNoStack
  <2>2. /\ UNCHANGED <<kstack, pgdir, freePages>> /\ pc[p] = "fork_kstack"
        /\ newp' = [newp EXCEPT ![p] = Null]
        /\ state' = [state EXCEPT ![newp[p]] = "UNUSED"]
        /\ pc'[p] \notin ForkPCs /\ \A q \in Procs : q # p => pc'[q] = pc[q]
    BY <1>3 DEF ForkNoStack, ForkFails
  <2>3. ~kstack[newp[p]] /\ ~pgdir[newp[p]]
    BY <2>2 DEF PageShape
  <2>4. PagesConserved'
    BY <1>0, <2>1, <2>2, <2>3 DEF PagesConserved
  <2> QED BY <2>1, <2>2, <2>4 DEF PageShape
<1>4. CASE ForkCopy(c, p)
  <2>1. /\ newp[p] \in Procs /\ newp[p] # p /\ state[newp[p]] = "EMBRYO"
        /\ \A q \in Procs : pc[q] \in ForkPCs /\ q # p => newp[q] # newp[p]
    BY <1>4, ForkSlotApart DEF ForkCopy
  <2>2. /\ UNCHANGED <<state, kstack, newp>> /\ pc[p] = "fork_copy"
        /\ freePages' = freePages - 1 /\ pgdir' = [pgdir EXCEPT ![newp[p]] = TRUE]
        /\ pc' = [pc EXCEPT ![p] = "fork_run"]
    BY <1>4 DEF ForkCopy
  <2>3. ~pgdir[newp[p]]
    BY <2>2 DEF PageShape
  <2>4. Cardinality(Dirs)' = Cardinality(Dirs) + 1
    <3>1. PICK s \in Procs : s = newp[p]
      BY <2>1
    <3>2. ~pgdir[s] /\ pgdir'[s] /\ pgdir' \in [Procs -> BOOLEAN]
      BY <2>2, <2>3, <3>1
    <3>3. \A q \in Procs : q # s => pgdir'[q] = pgdir[q]
      BY <2>2, <3>1
    <3> QED BY <3>2, <3>3, PageCount
  <2>5. (freePages + Cardinality(Stacks) + Cardinality(Dirs) = NPAGES)'
    BY <1>0, <2>2, <2>4
  <2>6. PagesConserved'
    BY <1>0, <2>1, <2>2, <2>5 DEF PagesConserved
  <2> QED BY <2>1, <2>2, <2>3, <2>6 DEF PageShape
<1>5. CASE ForkNoCopy(c, p)
  <2>1. /\ newp[p] \in Procs /\ newp[p] # p
        /\ \A q \in Procs : pc[q] \in ForkPCs /\ q # p => newp[q] # newp[p]
    BY <1>5, ForkSlotApart DEF ForkNoCopy
  <2>2. /\ UNCHANGED pgdir /\ pc[p] = "fork_copy"
        /\ freePages' = freePages + 1 /\ kstack' = [kstack EXCEPT ![newp[p]] = FALSE]
        /\ newp' = [newp EXCEPT ![p] = Null]
        /\ state' = [state EXCEPT ![newp[p]] = "UNUSED"]
        /\ pc'[p] \notin ForkPCs /\ \A q \in Procs : q # p => pc'[q] = pc[q]
    BY <1>5 DEF ForkNoCopy, ForkFails
  <2>3. ~pgdir[newp[p]] /\ kstack[newp[p]]
    BY <2>2 DEF PageShape, MemoryShape
  <2>4. Cardinality(Stacks)' = Cardinality(Stacks) - 1
    <3>1. PICK s \in Procs : s = newp[p]
      BY <2>1
    <3>2. kstack[s] /\ ~kstack'[s] /\ kstack' \in [Procs -> BOOLEAN]
      BY <2>2, <2>3, <3>1
    <3>3. \A q \in Procs : q # s => kstack'[q] = kstack[q]
      BY <2>2, <3>1
    <3> QED BY <3>2, <3>3, PageCount
  <2>5. (freePages + Cardinality(Stacks) + Cardinality(Dirs) = NPAGES)'
    BY <1>0, <2>2, <2>4
  <2>6. PagesConserved'
    BY <1>0, <2>1, <2>2, <2>3, <2>5 DEF PagesConserved
  <2> QED BY <2>1, <2>2, <2>6 DEF PageShape
<1>6. CASE ForkRun(c, p)
  <2>1. newp[p] \in Procs /\ newp[p] # p
    BY <1>6, ForkSlotApart DEF ForkRun
  <2>2. /\ UNCHANGED <<kstack, pgdir, freePages>>
        /\ newp' = [newp EXCEPT ![p] = Null]
        /\ state' = [state EXCEPT ![newp[p]] = "RUNNABLE"]
        /\ pc'[p] \notin ForkPCs /\ \A q \in Procs : q # p => pc'[q] = pc[q]
    BY <1>6 DEF ForkRun
  <2>3. PagesConserved'
    BY <1>0, <2>1, <2>2 DEF PagesConserved
  <2> QED BY <2>1, <2>2, <2>3 DEF PageShape
<1>7. CASE Exit(c, p)
  <2>1. UNCHANGED <<kstack, pgdir, freePages, pc, newp>>
    BY <1>7 DEF Exit
  <2>2. \A q \in Procs : state'[q] = "UNUSED" => state[q] = "UNUSED"
    BY <1>7 DEF Exit
  <2>3. PagesConserved'
    BY <1>0, <2>1, <2>2 DEF PagesConserved
  <2> QED BY <2>1, <2>3 DEF PageShape
<1>8. CASE WaitReap(c, p)
  <2>1. PICK z \in Procs :
          /\ state[z] = "ZOMBIE"
          /\ state' = [state EXCEPT ![z] = "UNUSED"]
          /\ kstack' = [kstack EXCEPT ![z] = FALSE]
          /\ pgdir' = [pgdir EXCEPT ![z] = FALSE]
          /\ freePages' = freePages + 2
    BY <1>8 DEF WaitReap, First, Zombies
  <2>2. /\ UNCHANGED newp
        /\ pc'[p] \notin ForkPCs /\ \A q \in Procs : q # p => pc'[q] = pc[q]
    BY <1>8 DEF WaitReap, WaitReturns
  <2>3. kstack[z] /\ pgdir[z]
    BY <2>1 DEF MemoryShape
  <2>4. /\ Cardinality(Stacks)' = Cardinality(Stacks) - 1
        /\ Cardinality(Dirs)' = Cardinality(Dirs) - 1
    <3>1. /\ kstack' \in [Procs -> BOOLEAN] /\ ~kstack'[z]
          /\ pgdir' \in [Procs -> BOOLEAN] /\ ~pgdir'[z]
      BY <2>1
    <3>2. \A q \in Procs : q # z => kstack'[q] = kstack[q] /\ pgdir'[q] = pgdir[q]
      BY <2>1
    <3> QED BY <2>3, <3>1, <3>2, PageCount
  <2>5. (freePages + Cardinality(Stacks) + Cardinality(Dirs) = NPAGES)'
    BY <1>0, <2>1, <2>4
  <2>6. PagesConserved'
    BY <1>0, <2>1, <2>5 DEF PagesConserved
  <2>7. \A q \in Procs : pc[q] \in ForkPCs => newp[q] # z
    BY <2>1 DEF ForkShape
  <2> QED BY <2>1, <2>2, <2>6, <2>7 DEF PageShape
<1> QED BY <1>1, <1>2, <1>3, <1>4, <1>5, <1>6, <1>7, <1>8 DEF Fork

-----------------------------------------------------------------------------
(* Contexts *)

\* Process p moves on CPU c, nobody falls asleep and no context changes.
Stays(c, p) ==
    /\ UNCHANGED <<ctx, chan, cproc>> /\ cpc[c] = "run" /\ cproc[c] = p
    /\ \A d \in CPUs : d # c => cpc'[d] = cpc[d]
    /\ \A q \in Procs : q # p => pc'[q] = pc[q]
    /\ \A q \in Procs : state'[q] = "SLEEPING" => state[q] = "SLEEPING"

\* The steps that give a process a context or take it, and those that do not.
LEMMA ContextsKept ==
  ASSUME IInv, TypeInv', TableInv, NEW c \in CPUs, NEW p \in Procs,
         \/ Scheduler(c) \/ Switch(c) \/ Timer(c)
         \/ CalmCall(c, p) \/ ForkSlot(c, p) \/ Fork(c, p) \/ Exit(c, p) \/ WaitReap(c, p)
  PROVE  ContextShape'
<1> USE Slots
    DEF IInv, TypeInv, TypeOK, slots, paths, memory, locks, cpus, SchedLocked, NewRound,
        AllocPid, FreeStack, RunsAt, Return, AfterSyscall, ReleaseLk, KilledState,
        Stays, TableInv
<1>1. CASE SchedAcquire(c)
  BY <1>1, ContextsSame DEF SchedAcquire, SameContexts
<1>2. CASE SchedDispatch(c)
  BY <1>2, ContextsSame DEF SchedDispatch, SameContexts
<1>3. CASE SchedEndPass(c)
  BY <1>3, ContextsSame DEF SchedEndPass, SameContexts
<1>4. CASE SchedSwtch(c)
  BY <1>4, ContextsSame, SwtchLands DEF SameContexts
<1>5. ASSUME NEW q \in Procs, cpc[c] = "return", cproc[c] = q,
             cpc' = [cpc EXCEPT ![c] = "run"], cproc' = cproc,
             ctx' = [ctx EXCEPT ![q] = "none"], state' = state,
             \A r \in Procs : r # q => pc'[r] = pc[r] /\ chan'[r] = chan[r]
      PROVE  ContextShape'
  <2>1. state[q] = "RUNNING"
    BY <1>5, Running
  <2>2. \A d \in CPUs : d # c => cproc[d] # q
    BY <1>5 DEF RunningOnOneCPU
  <2> QED BY <1>5, <2>1, <2>2 DEF ContextShape
<1>6. CASE ForkRet(c)
  <2>1. cproc[c] \in Procs
    BY <1>6 DEF ForkRet, CPUShape
  <2> QED BY <1>5, <1>6, <2>1 DEF ForkRet
<1>7. CASE YieldReturn(c)
  <2>1. cproc[c] \in Procs
    BY <1>7 DEF YieldReturn, CPUShape
  <2> QED BY <1>5, <1>7, <2>1 DEF YieldReturn
<1>8. CASE TicksReturn(c)
  <2>1. cproc[c] \in Procs
    BY <1>8 DEF TicksReturn, CPUShape
  <2> QED BY <1>5, <1>8, <2>1 DEF TicksReturn
<1>9. CASE TimerTick(c)
  <2>1. cpc[c] \in {"sched", "run"} /\ (cpc[c] = "sched" => cproc[c] = Null)
    BY <1>9 DEF TimerTick, Interruptible, CPUShape
  <2> QED BY <1>9, <2>1 DEF TimerTick, ContextShape
<1>10. CASE TimerWakeup(c)
  <2>1. /\ UNCHANGED <<ctx, chan, cproc>> /\ cpc[c] = "tick"
        /\ \A d \in CPUs : d # c => cpc'[d] = cpc[d]
        /\ \A q \in Procs : state'[q] = "SLEEPING" => state[q] = "SLEEPING"
    BY <1>10 DEF TimerWakeup, Woken, AfterTick
  <2>2. \A q \in Procs : pc'[q] = pc[q] \/ ctx[q] = "none"
    BY <1>10, <2>1 DEF TimerWakeup, AfterTick, ContextShape
  <2> QED BY <2>1, <2>2, ContextsSame DEF SameContexts
<1>11. CASE TimerOther(c)
  <2>1. /\ UNCHANGED <<ctx, chan, cproc, state>> /\ cpc[c] = "run"
        /\ \A d \in CPUs : d # c => cpc'[d] = cpc[d]
    BY <1>11 DEF TimerOther, AfterTick
  <2>2. \A q \in Procs : pc'[q] = pc[q] \/ ctx[q] = "none"
    BY <1>11, <2>1 DEF TimerOther, AfterTick, ContextShape
  <2> QED BY <2>1, <2>2, ContextsSame DEF SameContexts
<1>12. CASE Yield(c)
  <2>1. cproc[c] \in Procs /\ \A d \in CPUs : d # c => cproc[d] # cproc[c]
    BY <1>12 DEF Yield, CPUShape, RunningOnOneCPU
  <2> QED BY <1>12, <2>1 DEF Yield, ContextShape
<1>13. CASE CalmCall(c, p) /\ ~WaitFails(c, p) /\ ~WaitSleep(c, p) /\ ~SleepEnter(c, p)
  <2>1. Stays(c, p)
    <3>1. CASE Trap(c, p)
      BY <3>1 DEF Trap
    <3>2. CASE Fault(c, p)
      BY <3>2 DEF Fault
    <3>3. CASE ForkNoSlot(c, p)
      BY <3>3 DEF ForkNoSlot, ForkFails
    <3>4. CASE CallExit(c, p)
      BY <3>4 DEF CallExit
    <3>5. ASSUME NEW n \in SleepArgs, SleepCall(c, p, n) PROVE Stays(c, p)
      BY <3>5 DEF SleepCall
    <3>6. ASSUME NEW k \in KillArgs, Kill(c, p, k) PROVE Stays(c, p)
      BY <3>6 DEF Kill
    <3>7. ASSUME NEW k \in KillArgs, KillNobody(c, p, k) PROVE Stays(c, p)
      BY <3>7 DEF KillNobody
    <3>8. ASSUME NEW n \in Prios, SetPrio(c, p, n) PROVE Stays(c, p)
      BY <3>8 DEF SetPrio
    <3>9. CASE SleepDone(c, p)
      BY <3>9 DEF SleepDone
    <3>10. CASE SleepAgain(c, p)
      BY <3>10 DEF SleepAgain
    <3>11. CASE SleepRelock(c, p)
      BY <3>11 DEF SleepRelock
    <3>12. CASE InitExiting(c, p)
      BY <3>12 DEF InitExiting, Exiting
    <3> QED BY <1>13, <3>1, <3>2, <3>3, <3>4, <3>5, <3>6, <3>7, <3>8, <3>9, <3>10, <3>11, <3>12
            DEF CalmCall, Sleep
  <2>2. ctx[p] = "none"
    BY <2>1 DEF ContextShape
  <2> QED BY <2>1, <2>2, ContextsSame DEF SameContexts
<1>14. CASE WaitFails(c, p) \/ WaitReap(c, p)
  <2>1. /\ cproc[c] = p /\ state[p] = "RUNNING" /\ UNCHANGED cproc
        /\ cpc' = [cpc EXCEPT ![c] = "run"]
        /\ ctx' = [ctx EXCEPT ![p] = "none"]
        /\ \A q \in Procs : q # p => pc'[q] = pc[q] /\ chan'[q] = chan[q]
        /\ \A q \in Procs : state'[q] = "SLEEPING" => state[q] = "SLEEPING"
    <3>1. cproc[c] = p /\ state[p] = "RUNNING"
      BY <1>14, WaiterRuns DEF WaitFails, WaitReap
    <3>2. CASE WaitFails(c, p)
      BY <3>1, <3>2 DEF WaitFails, WaitReturns
    <3>3. CASE WaitReap(c, p)
      <4>1. PICK z \in Procs : /\ state' = [state EXCEPT ![z] = "UNUSED"]
                               /\ WaitReturns(c, p, pid[z])
        BY <3>3 DEF WaitReap
      <4> QED BY <3>1, <3>3, <4>1 DEF WaitReap, WaitReturns
    <3> QED BY <1>14, <3>2, <3>3
  <2>2. \A d \in CPUs : d # c => cproc[d] # p
    BY <2>1 DEF RunningOnOneCPU
  <2> QED BY <2>1, <2>2 DEF ContextShape
<1>15. CASE WaitSleep(c, p)
  <2>1. cproc[c] = p /\ pc[p] = "syscall"
    BY <1>15, WaiterRuns DEF WaitSleep
  <2>2. \A d \in CPUs : d # c => cproc[d] # p
    BY <2>1 DEF RunningOnOneCPU
  <2> QED BY <1>15, <2>1, <2>2 DEF WaitSleep, ContextShape
<1>16. CASE SleepEnter(c, p)
  <2>1. \A d \in CPUs : d # c => cproc[d] # p
    BY <1>16 DEF SleepEnter, RunningOnOneCPU
  <2> QED BY <1>16, <2>1 DEF SleepEnter, ContextShape
<1>17. CASE ForkStack(c, p)
  <2>1. /\ newp[p] \in Procs /\ newp[p] # p /\ state[newp[p]] = "EMBRYO"
    BY <1>17, ForkSlotApart DEF ForkStack, ForkPCs
  <2>2. /\ UNCHANGED <<state, chan, cproc, cpc>> /\ cpc[c] = "run" /\ cproc[c] = p
        /\ ctx' = [ctx EXCEPT ![newp[p]] = "forkret"]
        /\ pc' = [pc EXCEPT ![p] = "fork_copy", ![newp[p]] = "user"]
    BY <1>17 DEF ForkStack
  <2>3. \A d \in CPUs : cpc[d] # "swtch" => cproc[d] # newp[p]
    BY <2>1, Running
  <2>4. ctx[p] = "none"
    BY <2>2 DEF ContextShape
  <2> QED BY <2>1, <2>2, <2>3, <2>4 DEF ContextShape
<1>18. CASE ForkSlot(c, p) \/ ForkNoStack(c, p) \/ ForkCopy(c, p) \/ ForkNoCopy(c, p)
              \/ ForkRun(c, p) \/ Exit(c, p)
  <2>1. Stays(c, p)
    <3>1. CASE ForkSlot(c, p)
      <4>1. PICK s \in Procs : state' = [state EXCEPT ![s] = "EMBRYO"]
        BY <3>1 DEF ForkSlot
      <4> QED BY <3>1, <4>1 DEF ForkSlot
    <3>2. CASE ForkNoStack(c, p)
      BY <3>2 DEF ForkNoStack, ForkFails
    <3>3. CASE ForkCopy(c, p)
      BY <3>3 DEF ForkCopy, ForkFails
    <3>4. CASE ForkNoCopy(c, p)
      BY <3>4 DEF ForkNoCopy, ForkFails
    <3>5. CASE ForkRun(c, p)
      BY <3>5 DEF ForkRun
    <3>6. CASE Exit(c, p)
      BY <3>6 DEF Exit, Exiting
    <3> QED BY <1>18, <3>1, <3>2, <3>3, <3>4, <3>5, <3>6
  <2>2. ctx[p] = "none"
    BY <2>1 DEF ContextShape
  <2> QED BY <2>1, <2>2, ContextsSame DEF SameContexts
<1> QED BY <1>1, <1>2, <1>3, <1>4, <1>6, <1>7, <1>8, <1>9, <1>10, <1>11, <1>12, <1>13,
           <1>14, <1>15, <1>16, <1>17, <1>18
        DEF Scheduler, Switch, Resume, Timer, Fork

-----------------------------------------------------------------------------
(* Wakeups *)

\* What scheduler(), swtch() and the clock do to the sleepers: the clock's step
\* to "tick" announces the wakeup that its next step delivers.
LEMMA CpuWakeups ==
  ASSUME IInv, TypeInv', TableInv, NEW c \in CPUs, Scheduler(c) \/ Switch(c) \/ Timer(c)
  PROVE  WakeupShape'
<1> USE ProcAssumption, Slots
    DEF IInv, TypeInv, TypeOK, slots, paths, memory, locks, cpus, SchedLocked, NewRound,
        TableInv
<1>1. CASE SchedAcquire(c)
  BY <1>1, QuietWakeups DEF SchedAcquire, Quiet
<1>2. CASE SchedDispatch(c)
  BY <1>2, QuietWakeups DEF SchedDispatch, Quiet
<1>3. CASE SchedEndPass(c)
  BY <1>3, QuietWakeups DEF SchedEndPass, Quiet
<1>4. CASE SchedSwtch(c)
  BY <1>4, SwtchLands, QuietWakeups DEF Quiet
<1>5. CASE ForkRet(c) \/ YieldReturn(c) \/ TicksReturn(c)
  <2>1. cproc[c] \in Procs /\ state[cproc[c]] = "RUNNING"
    BY <1>5, Running DEF ForkRet, YieldReturn, TicksReturn, CPUShape
  <2>2. Quiet
    BY <1>5, <2>1 DEF ForkRet, YieldReturn, TicksReturn, Quiet
  <2> QED BY <2>2, QuietWakeups
<1>6. CASE TimerTick(c)
  <2>1. UNCHANGED <<parent, state, ctx, killed, wake, pc>> /\ cpc'[BootCPU] = "tick"
    BY <1>6 DEF TimerTick
  <2>2. NoMissedExit'
    BY <2>1 DEF WakeupShape, NoMissedExit, Children, Zombies
  <2>3. NoMissedTick'
    BY <2>1 DEF NoMissedTick
  <2>4. \A q \in Procs : pc[q] # "sleep_enter"
    BY <1>6 DEF TimerTick, TickShape
  <2> QED BY <2>1, <2>2, <2>3, <2>4 DEF WakeupShape
<1>7. CASE TimerWakeup(c)
  <2>1. /\ UNCHANGED <<parent, ctx, chan, killed, wake, ticks>>
        /\ state' = Woken(TicksChan)
        /\ \A q \in Procs : pc'[q] = "sleep_enter" => pc[q] = "sleep_enter"
    BY <1>7 DEF TimerWakeup, AfterTick
  <2>2. \A q \in Procs : /\ state'[q] = "SLEEPING" => state[q] = "SLEEPING" /\ ctx[q] = "wait"
                         /\ state'[q] = "ZOMBIE" => state[q] = "ZOMBIE"
    BY <2>1 DEF Woken, ContextShape
  <2>3. NoMissedExit'
    BY <2>1, <2>2 DEF WakeupShape, NoMissedExit, Children, Zombies
  <2>4. NoMissedTick'
    BY <2>1, <2>2 DEF NoMissedTick
  <2> QED BY <2>1, <2>3, <2>4 DEF WakeupShape
<1>8. CASE TimerOther(c)
  BY <1>8, QuietWakeups DEF TimerOther, AfterTick, Quiet
<1>9. CASE Yield(c)
  <2>1. cproc[c] \in Procs /\ state[cproc[c]] = "RUNNING"
    BY <1>9, Running DEF Yield, CPUShape
  <2> QED BY <1>9, <2>1, QuietWakeups DEF Yield, Quiet
<1> QED BY <1>1, <1>2, <1>3, <1>4, <1>5, <1>6, <1>7, <1>8, <1>9
        DEF Scheduler, Switch, Resume, Timer

\* sys_sleep() tests the ticks and goes to sleep under tickslock, wait() looks at
\* its children and goes to sleep under ptable.lock; kill() wakes whom it marks.
LEMMA CallWakeups ==
  ASSUME IInv, TypeInv', TableInv, NEW c \in CPUs, NEW p \in Procs, CalmCall(c, p)
  PROVE  WakeupShape'
<1> USE ProcAssumption, Slots
    DEF IInv, TypeInv, TypeOK, slots, paths, memory, locks, cpus, SchedLocked, RunsAt,
        Return, AfterSyscall, ReleaseLk, KilledState, TableInv
<1>1. CASE Trap(c, p)
  BY <1>1, QuietWakeups DEF Trap, Quiet
<1>2. CASE Fault(c, p)
  <2>1. state[p] = "RUNNING"
    BY <1>2, Running DEF Fault
  <2> QED BY <1>2, <2>1, QuietWakeups DEF Fault, Quiet
<1>3. CASE ForkNoSlot(c, p)
  BY <1>3, QuietWakeups DEF ForkNoSlot, ForkFails, Quiet
<1>4. CASE CallExit(c, p)
  BY <1>4, QuietWakeups DEF CallExit, Quiet
<1>5. ASSUME NEW n \in SleepArgs, SleepCall(c, p, n) PROVE WakeupShape'
  <2>1. state[p] = "RUNNING"
    BY <1>5, Running DEF SleepCall
  <2>2. /\ UNCHANGED <<parent, state, ctx, killed, ticks, cpc>>
        /\ pc'[p] # "sleep_enter"
        /\ \A q \in Procs : q # p => wake'[q] = wake[q] /\ pc'[q] = pc[q]
    BY <1>5 DEF SleepCall
  <2>3. NoMissedExit'
    BY <2>2 DEF WakeupShape, NoMissedExit, Children, Zombies
  <2>4. NoMissedTick'
    BY <2>1, <2>2 DEF WakeupShape, NoMissedTick
  <2> QED BY <2>2, <2>3, <2>4 DEF WakeupShape
<1>6. ASSUME NEW k \in KillArgs, Kill(c, p, k) PROVE WakeupShape'
  BY <1>6, QuietWakeups DEF Kill, Quiet
<1>7. ASSUME NEW k \in KillArgs, KillNobody(c, p, k) PROVE WakeupShape'
  BY <1>7, QuietWakeups DEF KillNobody, Quiet
<1>8. ASSUME NEW n \in Prios, SetPrio(c, p, n) PROVE WakeupShape'
  BY <1>8, QuietWakeups DEF SetPrio, Quiet
<1>9. CASE WaitFails(c, p)
  <2>1. state[p] = "RUNNING" /\ cpc[c] # "tick"
    BY <1>9, WaiterRuns DEF WaitFails
  <2> QED BY <1>9, <2>1, QuietWakeups DEF WaitFails, WaitReturns, Quiet
<1>10. CASE WaitSleep(c, p)
  <2>1. cpc[c] # "tick" /\ pc[p] = "syscall"
    BY <1>10, WaiterRuns DEF WaitSleep
  <2>2. /\ Children(p) # {} /\ Zombies(p) = {} /\ ~killed[p]
        /\ UNCHANGED <<parent, killed, ticks, wake, pc>>
        /\ state' = [state EXCEPT ![p] = "SLEEPING"]
        /\ ctx' = [ctx EXCEPT ![p] = "wait"]
        /\ cpc' = [cpc EXCEPT ![c] = "swtch"]
    BY <1>10 DEF WaitSleep
  <2>3. NoMissedExit'
    BY <2>2 DEF WakeupShape, NoMissedExit, Children, Zombies
  <2>4. NoMissedTick'
    BY <2>1, <2>2 DEF WakeupShape, NoMissedTick
  <2> QED BY <2>2, <2>3, <2>4 DEF WakeupShape
<1>11. CASE SleepDone(c, p)
  <2>1. state[p] = "RUNNING"
    BY <1>11, Running DEF SleepDone
  <2>2. /\ UNCHANGED <<parent, state, ctx, killed, ticks, cpc>>
        /\ pc'[p] # "sleep_enter"
        /\ \A q \in Procs : q # p => wake'[q] = wake[q] /\ pc'[q] = pc[q]
    BY <1>11 DEF SleepDone
  <2>3. NoMissedExit'
    BY <2>2 DEF WakeupShape, NoMissedExit, Children, Zombies
  <2>4. NoMissedTick'
    BY <2>1, <2>2 DEF WakeupShape, NoMissedTick
  <2> QED BY <2>2, <2>3, <2>4 DEF WakeupShape
<1>12. CASE SleepAgain(c, p)
  <2>1. /\ UNCHANGED <<parent, state, ctx, killed, ticks, wake, cpc>>
        /\ ticks < wake[p]
        /\ \A q \in Procs : q # p => pc'[q] = pc[q]
    BY <1>12 DEF SleepAgain
  <2>2. NoMissedExit'
    BY <2>1 DEF WakeupShape, NoMissedExit, Children, Zombies
  <2>3. NoMissedTick'
    BY <2>1 DEF WakeupShape, NoMissedTick
  <2> QED BY <2>1, <2>2, <2>3 DEF WakeupShape
<1>13. CASE SleepEnter(c, p)
  <2>1. state[p] = "RUNNING" /\ cpc[c] # "tick" /\ ticks < wake[p]
    BY <1>13, Running DEF SleepEnter, WakeupShape
  <2>2. /\ UNCHANGED <<parent, killed, ticks, wake>>
        /\ state' = [state EXCEPT ![p] = "SLEEPING"]
        /\ ctx' = [ctx EXCEPT ![p] = "ticks"]
        /\ cpc' = [cpc EXCEPT ![c] = "swtch"]
        /\ pc' = [pc EXCEPT ![p] = "sleep_relock"]
    BY <1>13 DEF SleepEnter
  <2>3. NoMissedExit'
    BY <2>2 DEF WakeupShape, NoMissedExit, Children, Zombies
  <2>4. NoMissedTick'
    BY <2>1, <2>2 DEF WakeupShape, NoMissedTick
  <2> QED BY <2>2, <2>3, <2>4 DEF WakeupShape
<1>14. CASE SleepRelock(c, p)
  BY <1>14, QuietWakeups DEF SleepRelock, Quiet
<1>15. CASE InitExiting(c, p)
  BY <1>15, QuietWakeups DEF InitExiting, Exiting, Quiet
<1> QED BY <1>1, <1>2, <1>3, <1>4, <1>5, <1>6, <1>7, <1>8, <1>9, <1>10, <1>11, <1>12,
           <1>13, <1>14, <1>15
        DEF CalmCall, Sleep

\* exit() wakes the parent, and init when it is given a ZOMBIE, in the section that
\* makes the change; fork() and wait() change the children of a RUNNING process.
LEMMA TableWakeups ==
  ASSUME IInv, TypeInv', TableInv, NEW c \in CPUs, NEW p \in Procs,
         ForkSlot(c, p) \/ Fork(c, p) \/ Exit(c, p) \/ WaitReap(c, p)
  PROVE  WakeupShape'
<1> USE ProcAssumption, Slots
    DEF IInv, TypeInv, TypeOK, paths, memory, locks, cpus, RunsAt, AllocPid, FreeStack,
        Return, AfterSyscall, ForkPCs, Live, TableInv
<1>1. CASE ForkSlot(c, p)
  <2>1. PICK s \in Procs : state' = [state EXCEPT ![s] = "EMBRYO"]
    BY <1>1 DEF ForkSlot
  <2> QED BY <1>1, <2>1, QuietWakeups DEF ForkSlot, Quiet
<1>2. CASE ForkStack(c, p)
  <2>1. newp[p] \in Procs /\ state[newp[p]] = "EMBRYO"
    BY <1>2, ForkSlotApart DEF ForkStack
  <2> QED BY <1>2, <2>1, QuietWakeups DEF ForkStack, Quiet
<1>3. CASE ForkNoStack(c, p)
  BY <1>3, QuietWakeups DEF ForkNoStack, ForkFails, Quiet
<1>4. CASE ForkCopy(c, p)
  <2>1. /\ newp[p] \in Procs /\ state[newp[p]] = "EMBRYO" /\ state[p] = "RUNNING"
        /\ parent[newp[p]] = Null
    BY <1>4, ForkSlotApart DEF ForkCopy, TreeShape
  <2>2. /\ UNCHANGED <<state, ctx, killed, ticks, wake, cpc>>
        /\ parent' = [parent EXCEPT ![newp[p]] = p]
        /\ pc' = [pc EXCEPT ![p] = "fork_run"]
    BY <1>4 DEF ForkCopy
  <2>3. \A q \in Procs : q # p => /\ Children(q)' = Children(q)
                                  /\ Zombies(q)' = Zombies(q)
    BY <2>1, <2>2 DEF Children, Zombies
  <2>4. NoMissedExit'
    BY <2>1, <2>2, <2>3 DEF WakeupShape, NoMissedExit
  <2>5. NoMissedTick'
    BY <2>2 DEF WakeupShape, NoMissedTick
  <2> QED BY <2>2, <2>4, <2>5 DEF WakeupShape
<1>5. CASE ForkNoCopy(c, p)
  BY <1>5, QuietWakeups DEF ForkNoCopy, ForkFails, Quiet
<1>6. CASE ForkRun(c, p)
  BY <1>6, QuietWakeups DEF ForkRun, Quiet
<1>7. CASE Exit(c, p)
  <2>1. state[p] = "RUNNING" /\ p # initproc /\ cpc[c] # "tick"
    BY <1>7, Running DEF Exit, Exiting
  <2>2. /\ UNCHANGED <<chan, killed, ctx, ticks, wake, pc>>
        /\ cpc' = [cpc EXCEPT ![c] = "swtch"]
        /\ \A q \in Procs : parent'[q] = IF parent[q] = p THEN initproc ELSE parent[q]
        /\ \A q \in Procs : q # p /\ state'[q] = "ZOMBIE" => state[q] = "ZOMBIE"
        /\ \A q \in Procs : state'[q] = "SLEEPING" =>
              /\ state[q] = "SLEEPING" /\ q # p
              /\ chan[q] # parent[p]
              /\ chan[q] = initproc => Zombies(p) = {}
    BY <1>7 DEF Exit, ExitWakes, Orphans, Children
  <2>3. NoMissedExit'
    <3> SUFFICES ASSUME NEW q \in Procs, state'[q] = "SLEEPING", ctx[q] = "wait"
                 PROVE  Children(q)' # {} /\ Zombies(q)' = {} /\ ~killed[q]
      BY <2>2 DEF NoMissedExit
    <3>1. /\ state[q] = "SLEEPING" /\ q # p
          /\ parent[p] # q /\ (q = initproc => Zombies(p) = {})
      BY <2>2 DEF ContextShape
    <3>2. Children(q) # {} /\ Zombies(q) = {} /\ ~killed[q]
      BY <3>1 DEF WakeupShape, NoMissedExit
    <3>3. Children(q)' # {}
      <4>1. PICK r \in Procs : parent[r] = q
        BY <3>2 DEF Children
      <4>2. parent'[r] = q
        BY <4>1, <3>1, <2>2
      <4> QED BY <4>2 DEF Children
    <3>4. ASSUME NEW r \in Procs, parent'[r] = q, state'[r] = "ZOMBIE"
          PROVE  FALSE
      <4>1. r # p
        BY <3>1, <3>4, <2>1, <2>2 DEF TreeShape
      <4>2. state[r] = "ZOMBIE"
        BY <3>4, <4>1, <2>2
      <4>3. CASE parent[r] = p
        BY <4>2, <4>3, <3>1, <3>4, <2>2 DEF Zombies, Children
      <4>4. CASE parent[r] # p
        BY <4>2, <4>4, <3>2, <3>4, <2>2 DEF Zombies, Children
      <4> QED BY <4>3, <4>4
    <3>5. Zombies(q)' = {}
      BY <3>4 DEF Zombies, Children
    <3> QED BY <3>2, <3>3, <3>5
  <2>4. NoMissedTick'
    BY <2>1, <2>2 DEF WakeupShape, NoMissedTick
  <2> QED BY <2>2, <2>3, <2>4 DEF WakeupShape
<1>8. CASE WaitReap(c, p)
  <2>1. state[p] = "RUNNING" /\ cpc[c] # "tick"
    BY <1>8, WaiterRuns DEF WaitReap
  <2>2. PICK z \in Procs :
          /\ parent[z] = p
          /\ state' = [state EXCEPT ![z] = "UNUSED"]
          /\ parent' = [parent EXCEPT ![z] = Null]
          /\ killed' = [killed EXCEPT ![z] = FALSE]
    BY <1>8 DEF WaitReap, First, Zombies, Children
  <2>3. /\ UNCHANGED <<ticks, wake>>
        /\ ctx' = [ctx EXCEPT ![p] = "none"]
        /\ cpc' = [cpc EXCEPT ![c] = "run"]
        /\ \A q \in Procs : pc'[q] = "sleep_enter" => pc[q] = "sleep_enter"
    BY <1>8 DEF WaitReap, WaitReturns
  <2>4. \A q \in Procs : q # p => /\ Children(q)' = Children(q)
                                  /\ Zombies(q)' \subseteq Zombies(q)
    BY <2>2 DEF Children, Zombies
  <2>5. NoMissedExit'
    BY <2>1, <2>2, <2>3, <2>4 DEF WakeupShape, NoMissedExit
  <2>6. NoMissedTick'
    BY <2>1, <2>2, <2>3 DEF WakeupShape, NoMissedTick
  <2> QED BY <2>3, <2>5, <2>6 DEF WakeupShape
<1> QED BY <1>1, <1>2, <1>3, <1>4, <1>5, <1>6, <1>7, <1>8 DEF Fork

-----------------------------------------------------------------------------
(* The theorems *)

\* A step of proc.c, trap.c or sysproc.c is one of these.
LEMMA Steps ==
  ASSUME Next
  PROVE  \E c \in CPUs :
            \/ Scheduler(c) \/ Switch(c) \/ Timer(c)
            \/ \E p \in Procs : \/ CalmCall(c, p) \/ ForkSlot(c, p) \/ Fork(c, p)
                                \/ Exit(c, p) \/ WaitReap(c, p)
  BY DEF Next, Kernel, Syscall, Wait, CalmCall

\* Every step keeps the invariant of the table.
LEMMA NextTableInv == IInv /\ TableInv /\ [Next]_vars => TableInv'
<1> SUFFICES ASSUME IInv, TableInv, [Next]_vars PROVE TableInv'
  OBVIOUS
<1>1. TypeInv /\ TypeInv'
  BY NextTypeInv DEF IInv
<1>2. ASSUME NEW c \in CPUs, Scheduler(c) \/ Switch(c) \/ Timer(c) PROVE TableInv'
  <2>1. Calm
    BY <1>1, <1>2, CpuSteps
  <2>2. ContextShape'
    BY <1>1, <1>2, Slots, ContextsKept
  <2>3. WakeupShape'
    BY <1>1, <1>2, CpuWakeups
  <2> QED BY <1>1, <2>1, <2>2, <2>3, CalmPids, CalmTree, CalmPages DEF TableInv
<1>3. ASSUME NEW c \in CPUs, NEW p \in Procs, CalmCall(c, p) PROVE TableInv'
  <2>1. Calm
    BY <1>1, <1>3, CallSteps
  <2>2. ContextShape'
    BY <1>1, <1>3, ContextsKept
  <2>3. WakeupShape'
    BY <1>1, <1>3, CallWakeups
  <2> QED BY <1>1, <2>1, <2>2, <2>3, CalmPids, CalmTree, CalmPages DEF TableInv
<1>4. ASSUME NEW c \in CPUs, NEW p \in Procs,
             ForkSlot(c, p) \/ Fork(c, p) \/ Exit(c, p) \/ WaitReap(c, p)
      PROVE  TableInv'
  <2>1. TreeShape'
    BY <1>1, <1>4, ForkTree, EndTree
  <2>2. PidShape' /\ PageShape'
    BY <1>1, <1>4, PidsKept, PagesKept
  <2>3. ContextShape'
    BY <1>1, <1>4, ContextsKept
  <2>4. WakeupShape'
    BY <1>1, <1>4, TableWakeups
  <2> QED BY <2>1, <2>2, <2>3, <2>4 DEF TableInv
<1>5. CASE UNCHANGED vars
  <2>1. Calm /\ SameContexts /\ Quiet
    BY <1>5 DEF vars, Calm, SameContexts, Quiet
  <2> QED BY <1>1, <2>1, CalmPids, CalmTree, CalmPages, ContextsSame, QuietWakeups
          DEF TableInv
<1> QED BY <1>2, <1>3, <1>4, <1>5, Steps

\* So it holds in every reachable state.
LEMMA TableInvariance == Spec => []TableInv
  BY InitTableInv, NextTableInv, Invariance, PTL DEF Spec

\* kill() and wait() find the process they mean: no two slots in use share a pid.
THEOREM PidsUniqueHolds == Spec => []PidsUnique
<1>1. TableInv => PidsUnique
  BY DEF TableInv, PidShape
<1> QED BY <1>1, TableInvariance, PTL

\* Every process but init has a parent that has not exited: exit() gives its
\* children away before it dies.
THEOREM ParentAliveHolds == Spec => []ParentAlive
<1>1. TableInv => ParentAlive
  BY DEF TableInv, TreeShape
<1> QED BY <1>1, TableInvariance, PTL

\* fork(), with all its failing exits, exit() and wait() lose no page and free
\* none twice.
THEOREM PagesConservedHolds == Spec => []PagesConserved
<1>1. TableInv => PagesConserved
  BY DEF TableInv, PageShape
<1> QED BY <1>1, TableInvariance, PTL

\* Nobody sleeps in wait() with a ZOMBIE to reap, without children, or killed.
THEOREM NoMissedExitHolds == Spec => []NoMissedExit
<1>1. TableInv => NoMissedExit
  BY DEF TableInv, WakeupShape
<1> QED BY <1>1, TableInvariance, PTL

\* Nobody sleeps in sys_sleep() past its last tick, but for the moment between
\* ticks++ and wakeup(&ticks).
THEOREM NoMissedTickHolds == Spec => []NoMissedTick
<1>1. TableInv => NoMissedTick
  BY DEF TableInv, WakeupShape
<1> QED BY <1>1, TableInvariance, PTL

\* A ZOMBIE is only ever freed, and by its parent: no kill() or wakeup() brings it
\* back to life.
THEOREM ReapedByParentHolds == Spec => ReapedByParent
<1> DEFINE Reaped == \A p \in Procs : state[p] = "ZOMBIE" /\ state'[p] # "ZOMBIE"
                        => state'[p] = "UNUSED" /\ \E c \in CPUs : cproc[c] = parent[p]
<1>1. ASSUME IInv, TableInv, [Next]_vars PROVE Reaped
  <2>1. TypeInv /\ TypeInv'
    BY <1>1, NextTypeInv DEF IInv
  <2>2. ASSUME Calm PROVE Reaped
    BY <2>2 DEF Calm, Live
  <2>3. ASSUME NEW c \in CPUs, NEW p \in Procs, ForkSlot(c, p) \/ Fork(c, p) PROVE Reaped
    <3> USE <2>1, <1>1 DEF TypeInv, TypeOK, TableInv, RunsAt, ForkPCs
    <3>1. CASE ForkSlot(c, p)
      <4>1. PICK s \in Procs : state[s] = "UNUSED" /\ state' = [state EXCEPT ![s] = "EMBRYO"]
        BY <3>1 DEF ForkSlot, First
      <4> QED BY <4>1
    <3>2. CASE ForkStack(c, p) \/ ForkCopy(c, p)
      BY <3>2 DEF ForkStack, ForkCopy
    <3>3. CASE ForkNoStack(c, p) \/ ForkNoCopy(c, p) \/ ForkRun(c, p)
      <4>1. newp[p] \in Procs /\ state[newp[p]] = "EMBRYO"
        BY <3>3, ForkSlotApart DEF ForkNoStack, ForkNoCopy, ForkRun
      <4> QED BY <3>3, <4>1 DEF ForkNoStack, ForkNoCopy, ForkRun
    <3> QED BY <2>3, <3>1, <3>2, <3>3 DEF Fork
  <2>4. ASSUME NEW c \in CPUs, NEW p \in Procs, Exit(c, p) PROVE Reaped
    <3>1. state[p] = "RUNNING"
      BY <1>1, <2>4, Running DEF Exit, Exiting, RunsAt
    <3> QED BY <2>4, <3>1 DEF Exit
  <2>5. ASSUME NEW c \in CPUs, NEW p \in Procs, WaitReap(c, p) PROVE Reaped
    <3>1. PICK z \in Procs : parent[z] = p /\ state' = [state EXCEPT ![z] = "UNUSED"]
      BY <2>5 DEF WaitReap, First, Zombies, Children
    <3>2. cproc[c] = p
      BY <1>1, <2>5, WaiterRuns DEF WaitReap, TableInv
    <3>3. ASSUME NEW q \in Procs, state[q] = "ZOMBIE", state'[q] # "ZOMBIE"
          PROVE  state'[q] = "UNUSED" /\ \E d \in CPUs : cproc[d] = parent[q]
      <4>1. q = z /\ state'[q] = "UNUSED"
        BY <2>1, <3>1, <3>3 DEF TypeInv, TypeOK
      <4>2. cproc[c] = parent[q]
        BY <3>1, <3>2, <4>1
      <4> QED BY <4>1, <4>2
    <3> QED BY <3>3
  <2>6. CASE UNCHANGED vars
    BY <2>6 DEF vars
  <2>7. ASSUME NEW c \in CPUs, Scheduler(c) \/ Switch(c) \/ Timer(c) PROVE Reaped
    BY <1>1, <2>1, <2>2, <2>7, CpuSteps
  <2>8. ASSUME NEW c \in CPUs, NEW p \in Procs, CalmCall(c, p) PROVE Reaped
    BY <1>1, <2>1, <2>2, <2>8, CallSteps
  <2> QED BY <1>1, <2>3, <2>4, <2>5, <2>6, <2>7, <2>8, Steps
<1>2. IInv /\ TableInv /\ [Next]_vars
        => [\A p \in Procs : state[p] = "ZOMBIE" /\ state'[p] # "ZOMBIE"
              => state'[p] = "UNUSED" /\ \E c \in CPUs : cproc[c] = parent[p]]_vars
  BY <1>1
<1> QED BY <1>2, Invariance, TableInvariance, PTL DEF Spec, ReapedByParent
=============================================================================
