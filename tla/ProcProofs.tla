----------------------------- MODULE ProcProofs -----------------------------
(***************************************************************************)
(* The process table is well typed, a process is RUNNING on exactly one    *)
(* CPU, no CPU runs on a freed stack and sched() never panics: for every   *)
(* size of the table, every number of CPUs and pages, and all priorities.  *)
(***************************************************************************)
EXTENDS Proc, TLAPS

-----------------------------------------------------------------------------
(* Types *)

\* The members of the enumerations, as facts the provers can use.
LEMMA Members ==
  /\ {"UNUSED", "EMBRYO", "SLEEPING", "RUNNABLE", "RUNNING", "ZOMBIE"} = States
  /\ "UNUSED" \in States /\ "EMBRYO" \in States /\ "SLEEPING" \in States
  /\ "RUNNABLE" \in States /\ "RUNNING" \in States /\ "ZOMBIE" \in States
  /\ "sched" \in CPUStates /\ "scan" \in CPUStates /\ "return" \in CPUStates
  /\ "run" \in CPUStates /\ "tick" \in CPUStates /\ "yield" \in CPUStates
  /\ "swtch" \in CPUStates /\ "panic" \in CPUStates
  /\ "user" \in PCs /\ "syscall" \in PCs /\ "exit" \in PCs /\ "exit_irq" \in PCs
  /\ "fork_kstack" \in PCs /\ "fork_copy" \in PCs /\ "fork_run" \in PCs
  /\ "sleep_test" \in PCs /\ "sleep_enter" \in PCs /\ "sleep_relock" \in PCs
  /\ "none" \in Contexts /\ "forkret" \in Contexts /\ "yield" \in Contexts
  /\ "wait" \in Contexts /\ "ticks" \in Contexts
  BY DEF States, CPUStates, PCs, Contexts

\* init's slot, the null pointer and &ticks as members of the ranges they are
\* used in.
LEMMA Slots ==
  /\ initproc \in Procs /\ Null \notin Procs
  /\ \A p \in Procs : p + 1 \in 1..NPROC + 1 /\ p \in 0..NPROC + 1
  /\ 1 \in 1..NPROC + 1 /\ 0 \in 0..NPROC + 1 /\ TicksChan \in 0..NPROC + 1
  BY ProcAssumption DEF Procs, Null, initproc, TicksChan

\* The state userinit() and main() leave has the right types.
LEMMA InitTypeInv == Init => TypeInv
  BY ProcAssumption
  DEF Init, TypeInv, TypeOK, Procs, Null, initproc, States, CPUStates, PCs,
      Contexts, ForkPCs

\* Every step of proc.c, trap.c and sysproc.c keeps the types.
LEMMA NextTypeInv == TypeInv /\ [Next]_vars => TypeInv'
<1> SUFFICES ASSUME TypeInv, [Next]_vars PROVE TypeInv'
  OBVIOUS
<1> USE Members, Slots
    DEF TypeInv, TypeOK, ForkPCs, slots, paths, memory, locks, cpus, RunsAt,
        Return, AfterSyscall, SchedLocked, NextSlot, NewRound, AllocPid, FreeStack,
        ReleaseLk, KilledState
<1>1. ASSUME NEW c \in CPUs, Scheduler(c) \/ Switch(c) \/ Timer(c) PROVE TypeInv'
  <2>1. CASE SchedAcquire(c)
    BY <2>1 DEF SchedAcquire
  <2>2. CASE SchedDispatch(c)
    BY <2>2 DEF SchedDispatch
  <2>3. CASE SchedEndPass(c)
    <3>1. threshold' \in [CPUs -> Nat]
      BY <2>3, ProcAssumption DEF SchedEndPass
    <3>2. sti' \in [CPUs -> BOOLEAN]
      BY <2>3 DEF SchedEndPass
    <3> QED BY <2>3, <3>1, <3>2 DEF SchedEndPass
  <2>4. CASE SchedSwtch(c)
    <3>1. sti' \in [CPUs -> BOOLEAN]
      BY <2>4 DEF SchedSwtch
    <3>2. cproc' \in [CPUs -> Procs \cup {Null}] /\ cpc' \in [CPUs -> CPUStates]
      BY <2>4 DEF SchedSwtch
    <3> QED BY <2>4, <3>1, <3>2 DEF SchedSwtch
  <2>5. CASE ForkRet(c)
    BY <2>5 DEF ForkRet
  <2>6. CASE YieldReturn(c)
    BY <2>6 DEF YieldReturn
  <2>7. CASE TicksReturn(c)
    BY <2>7 DEF TicksReturn
  <2>8. CASE TimerTick(c)
    <3>1. ticks' \in 0..MaxTicks
      BY <2>8, ProcAssumption DEF TimerTick
    <3> QED BY <2>8, <3>1 DEF TimerTick
  <2>9. CASE TimerWakeup(c)
    BY <2>9 DEF TimerWakeup, Woken, AfterTick
  <2>10. CASE TimerOther(c)
    BY <2>10 DEF TimerOther, AfterTick
  <2>11. CASE Yield(c)
    BY <2>11 DEF Yield
  <2> QED BY <1>1, <2>1, <2>2, <2>3, <2>4, <2>5, <2>6, <2>7, <2>8, <2>9, <2>10, <2>11
          DEF Scheduler, Switch, Resume, Timer
<1>2. ASSUME NEW c \in CPUs, NEW p \in Procs, Trap(c, p) \/ Fault(c, p) \/ Kernel(c, p)
      PROVE  TypeInv'
  <2>1. CASE Trap(c, p)
    BY <2>1 DEF Trap
  <2>2. CASE Fault(c, p)
    BY <2>2 DEF Fault
  <2>3. CASE ForkSlot(c, p)
    <3>1. PICK s \in Procs :
            /\ state' = [state EXCEPT ![s] = "EMBRYO"]
            /\ AllocPid(s)
            /\ newp' = [newp EXCEPT ![p] = s]
      BY <2>3 DEF ForkSlot
    <3>2. nextpid \in 0..MaxPid /\ nextpid' \in 1..MaxPid + 1
      BY <2>3, ProcAssumption DEF ForkSlot, CallsFork
    <3>3. pid' \in [Procs -> 0..MaxPid]
      BY <3>1, <3>2
    <3> QED BY <2>3, <3>1, <3>2, <3>3 DEF ForkSlot
  <2>4. CASE ForkNoSlot(c, p)
    BY <2>4 DEF ForkNoSlot, ForkFails
  <2>5. CASE CallExit(c, p)
    BY <2>5 DEF CallExit
  <2>6. ASSUME NEW n \in SleepArgs, SleepCall(c, p, n) PROVE TypeInv'
    <3>1. ticks + n \in 0..MaxTicks
      BY <2>6, ProcAssumption DEF SleepCall
    <3>2. wake' \in [Procs -> 0..MaxTicks]
      BY <2>6, <3>1 DEF SleepCall
    <3> QED BY <2>6, <3>2 DEF SleepCall
  <2>7. ASSUME NEW k \in KillArgs, Kill(c, p, k) PROVE TypeInv'
    BY <2>7 DEF Kill
  <2>8. ASSUME NEW k \in KillArgs, KillNobody(c, p, k) PROVE TypeInv'
    BY <2>8 DEF KillNobody
  <2>9. ASSUME NEW n \in Prios, SetPrio(c, p, n) PROVE TypeInv'
    <3>1. (IF MAX_PRIORITY > n THEN n ELSE MAX_PRIORITY) \in Int
      BY <2>9, ProcAssumption
    <3>2. priority' \in [Procs -> Int]
      BY <2>9, <3>1 DEF SetPrio
    <3> QED BY <2>9, <3>2 DEF SetPrio
  <2>10. CASE ForkStack(c, p)
    <3>1. freePages' \in Nat
      BY <2>10 DEF ForkStack
    <3>2. priority' \in [Procs -> Int]
      BY <2>10, ProcAssumption DEF ForkStack
    <3> QED BY <2>10, <3>1, <3>2 DEF ForkStack
  <2>11. CASE ForkNoStack(c, p)
    BY <2>11 DEF ForkNoStack, ForkFails
  <2>12. CASE ForkCopy(c, p)
    BY <2>12 DEF ForkCopy
  <2>13. CASE ForkNoCopy(c, p)
    BY <2>13 DEF ForkNoCopy, ForkFails
  <2>14. CASE ForkRun(c, p)
    BY <2>14 DEF ForkRun
  <2>15. CASE WaitReap(c, p)
    <3>1. PICK z \in Procs :
            /\ kstack' = [kstack EXCEPT ![z] = FALSE]
            /\ pgdir' = [pgdir EXCEPT ![z] = FALSE]
            /\ freePages' = freePages + 2
            /\ pid' = [pid EXCEPT ![z] = 0]
            /\ parent' = [parent EXCEPT ![z] = Null]
            /\ killed' = [killed EXCEPT ![z] = FALSE]
            /\ state' = [state EXCEPT ![z] = "UNUSED"]
            /\ WaitReturns(c, p, pid[z])
      BY <2>15 DEF WaitReap
    <3>2. freePages' \in Nat /\ pid' \in [Procs -> 0..MaxPid]
      BY <3>1, ProcAssumption
    <3>3. sh' \in 0..MaxPid
      BY <3>1, ProcAssumption DEF WaitReturns
    <3> QED BY <2>15, <3>1, <3>2, <3>3 DEF WaitReap, WaitReturns
  <2>16. CASE WaitFails(c, p)
    <3>1. sh' \in 0..MaxPid
      BY <2>16, ProcAssumption DEF WaitFails, WaitReturns
    <3> QED BY <2>16, <3>1 DEF WaitFails, WaitReturns
  <2>17. CASE WaitSleep(c, p)
    BY <2>17 DEF WaitSleep
  <2>18. CASE SleepDone(c, p)
    <3>1. wake' \in [Procs -> 0..MaxTicks]
      BY <2>18, ProcAssumption DEF SleepDone
    <3> QED BY <2>18, <3>1 DEF SleepDone
  <2>19. CASE SleepAgain(c, p)
    BY <2>19 DEF SleepAgain
  <2>20. CASE SleepEnter(c, p)
    BY <2>20 DEF SleepEnter
  <2>21. CASE SleepRelock(c, p)
    BY <2>21 DEF SleepRelock
  <2>22. CASE InitExiting(c, p)
    BY <2>22 DEF InitExiting
  <2>23. CASE Exit(c, p)
    BY <2>23 DEF Exit
  <2> QED BY <1>2, <2>1, <2>2, <2>3, <2>4, <2>5, <2>6, <2>7, <2>8, <2>9, <2>10, <2>11, <2>12, <2>13, <2>14, <2>15, <2>16, <2>17, <2>18, <2>19, <2>20, <2>21, <2>22, <2>23
          DEF Kernel, Syscall, Fork, Wait, Sleep
<1>3. CASE UNCHANGED vars
  BY <1>3 DEF vars
<1> QED BY <1>1, <1>2, <1>3 DEF Next

-----------------------------------------------------------------------------
(* The inductive invariant *)

\* The inductive invariant holds when every CPU has entered scheduler().
LEMMA InitIInv == Init => IInv
<1> SUFFICES ASSUME Init PROVE IInv
  OBVIOUS
<1>1. TypeInv
  BY InitTypeInv
<1>2. CPUShape /\ LockShape /\ TickShape /\ SwtchShape /\ ForkShape /\ NoSchedPanic
  BY ProcAssumption
  DEF Init, CPUShape, LockShape, TickShape, SwtchShape, ForkShape, ForkPCs, NoSchedPanic
<1>3. MemoryShape /\ RunningOnOneCPU
  BY Slots DEF Init, MemoryShape, RunningOnOneCPU, OnCPU
<1> QED BY <1>1, <1>2, <1>3 DEF IInv

\* scheduler() and sched() keep the inductive invariant.
LEMMA SchedulerIInv ==
  ASSUME IInv, TypeInv', NEW c \in CPUs,
         SchedAcquire(c) \/ SchedDispatch(c) \/ SchedEndPass(c) \/ SchedSwtch(c)
  PROVE  IInv'
<1> USE ProcAssumption, Slots
    DEF IInv, TypeInv, TypeOK, ForkPCs, slots, paths, memory, locks, cpus, RunsAt,
        Return, AfterSyscall, SchedLocked, NextSlot, NewRound, AllocPid, FreeStack,
        ReleaseLk, KilledState
<1>1. CASE SchedAcquire(c)
  <2>1. CPUShape'
    BY <1>1 DEF SchedAcquire, CPUShape
  <2>2. LockShape'
    BY <1>1 DEF SchedAcquire, LockShape
  <2>3. TickShape'
    BY <1>1 DEF SchedAcquire, TickShape, CPUShape, LockShape, RunningOnOneCPU, OnCPU
  <2>4. SwtchShape'
    BY <1>1 DEF SchedAcquire, SwtchShape, CPUShape, LockShape, RunningOnOneCPU, OnCPU
  <2>5. ForkShape'
    BY <1>1 DEF SchedAcquire, ForkShape, CPUShape, RunningOnOneCPU, OnCPU
  <2>6. MemoryShape'
    BY <1>1 DEF SchedAcquire, MemoryShape, ForkShape, CPUShape, RunningOnOneCPU, OnCPU
  <2>7. RunningOnOneCPU'
    BY <1>1 DEF SchedAcquire, RunningOnOneCPU, OnCPU, CPUShape, LockShape, SwtchShape, ForkShape
  <2>8. NoSchedPanic'
    BY <1>1 DEF SchedAcquire, NoSchedPanic, CPUShape, LockShape, TickShape, SwtchShape
  <2> QED BY <2>1, <2>2, <2>3, <2>4, <2>5, <2>6, <2>7, <2>8 DEF IInv
<1>2. CASE SchedDispatch(c)
  <2>1. CPUShape'
    BY <1>2 DEF SchedDispatch, CPUShape
  <2>2. LockShape'
    BY <1>2 DEF SchedDispatch, LockShape
  <2>3. TickShape'
    BY <1>2 DEF SchedDispatch, TickShape, CPUShape, LockShape, RunningOnOneCPU, OnCPU
  <2>4. SwtchShape'
    BY <1>2 DEF SchedDispatch, SwtchShape, CPUShape, LockShape, RunningOnOneCPU, OnCPU
  <2>5. ForkShape'
    <3>1. PICK q \in Procs : /\ state[q] = "RUNNABLE"
                             /\ state' = [state EXCEPT ![q] = "RUNNING"]
                             /\ cproc' = [cproc EXCEPT ![c] = q]
      BY <1>2 DEF SchedDispatch, First, Eligible
    <3> QED BY <1>2, <3>1 DEF SchedDispatch, ForkShape
  <2>6. MemoryShape'
    <3>1. PICK q \in Procs : /\ state[q] = "RUNNABLE"
                             /\ state' = [state EXCEPT ![q] = "RUNNING"]
                             /\ cproc' = [cproc EXCEPT ![c] = q]
      BY <1>2 DEF SchedDispatch, First, Eligible
    <3> QED BY <1>2, <3>1 DEF SchedDispatch, MemoryShape
  <2>7. RunningOnOneCPU'
    <3>1. PICK q \in Procs : /\ state[q] = "RUNNABLE"
                             /\ state' = [state EXCEPT ![q] = "RUNNING"]
                             /\ cproc' = [cproc EXCEPT ![c] = q]
      BY <1>2 DEF SchedDispatch, First, Eligible
    <3> QED BY <1>2, <3>1 DEF SchedDispatch, RunningOnOneCPU, OnCPU, CPUShape, LockShape, SwtchShape
  <2>8. NoSchedPanic'
    BY <1>2 DEF SchedDispatch, NoSchedPanic, CPUShape, LockShape, TickShape, SwtchShape
  <2> QED BY <2>1, <2>2, <2>3, <2>4, <2>5, <2>6, <2>7, <2>8 DEF IInv
<1>3. CASE SchedEndPass(c)
  <2>1. CPUShape'
    BY <1>3 DEF SchedEndPass, CPUShape
  <2>2. LockShape'
    BY <1>3 DEF SchedEndPass, LockShape
  <2>3. TickShape'
    BY <1>3 DEF SchedEndPass, TickShape, CPUShape, LockShape, RunningOnOneCPU, OnCPU
  <2>4. SwtchShape'
    BY <1>3 DEF SchedEndPass, SwtchShape, CPUShape, LockShape, RunningOnOneCPU, OnCPU
  <2>5. ForkShape'
    BY <1>3 DEF SchedEndPass, ForkShape, CPUShape, RunningOnOneCPU, OnCPU
  <2>6. MemoryShape'
    BY <1>3 DEF SchedEndPass, MemoryShape, ForkShape, CPUShape, RunningOnOneCPU, OnCPU
  <2>7. RunningOnOneCPU'
    BY <1>3 DEF SchedEndPass, RunningOnOneCPU, OnCPU, CPUShape, LockShape, SwtchShape, ForkShape
  <2>8. NoSchedPanic'
    BY <1>3 DEF SchedEndPass, NoSchedPanic, CPUShape, LockShape, TickShape, SwtchShape
  <2> QED BY <2>1, <2>2, <2>3, <2>4, <2>5, <2>6, <2>7, <2>8 DEF IInv
<1>4. CASE SchedSwtch(c)
  <2>1. CPUShape'
    BY <1>4 DEF SchedSwtch, CPUShape
  <2>2. LockShape'
    BY <1>4 DEF SchedSwtch, LockShape, TickShape, SwtchShape
  <2>3. TickShape'
    <3>1. UNCHANGED <<tickslock, pc>> /\ cpc[c] = "swtch" /\ cpc'[c] \in {"scan", "panic"}
      BY <1>4 DEF SchedSwtch
    <3>2. \A d \in CPUs : d # c => cpc'[d] = cpc[d] /\ cproc'[d] = cproc[d]
      BY <1>4 DEF SchedSwtch
    <3>3. ASSUME NEW d \in CPUs
          PROVE  (tickslock = d <=>
                   \/ cpc[d] = "tick"
                   \/ cpc[d] = "run" /\ pc[cproc[d]] \in {"sleep_test", "sleep_enter"})'
      BY <3>1, <3>2 DEF TickShape
    <3>4. ASSUME NEW q \in Procs, pc[q] \in {"sleep_test", "sleep_enter"}
          PROVE  \E d \in CPUs : cpc'[d] = "run" /\ cproc'[d] = q
      BY <3>1, <3>2, <3>4 DEF TickShape
    <3> QED BY <3>1, <3>3, <3>4 DEF TickShape
  <2>4. SwtchShape'
    BY <1>4 DEF SchedSwtch, SwtchShape, CPUShape, LockShape, RunningOnOneCPU, OnCPU
  <2>5. ForkShape'
    BY <1>4 DEF SchedSwtch, ForkShape, CPUShape, RunningOnOneCPU, OnCPU
  <2>6. MemoryShape'
    BY <1>4 DEF SchedSwtch, MemoryShape, ForkShape, CPUShape, RunningOnOneCPU, OnCPU
  <2>7. RunningOnOneCPU'
    <3>1. /\ state[cproc[c]] # "RUNNING" /\ cproc[c] \in Procs /\ state' = state
          /\ cproc' = [cproc EXCEPT ![c] = Null] /\ cpc' = [cpc EXCEPT ![c] = "scan"]
      BY <1>4 DEF SchedSwtch, LockShape, TickShape, SwtchShape, CPUShape
    <3> QED BY <1>4, <3>1 DEF RunningOnOneCPU, OnCPU, SchedSwtch
  <2>8. NoSchedPanic'
    BY <1>4 DEF SchedSwtch, NoSchedPanic, CPUShape, LockShape, TickShape, SwtchShape
  <2> QED BY <2>1, <2>2, <2>3, <2>4, <2>5, <2>6, <2>7, <2>8 DEF IInv
<1> QED BY <1>1, <1>2, <1>3, <1>4

\* A process that comes back from swtch() keeps it.
LEMMA ResumeIInv ==
  ASSUME IInv, TypeInv', NEW c \in CPUs,
         ForkRet(c) \/ YieldReturn(c) \/ TicksReturn(c)
  PROVE  IInv'
<1> USE ProcAssumption, Slots
    DEF IInv, TypeInv, TypeOK, ForkPCs, slots, paths, memory, locks, cpus, RunsAt,
        Return, AfterSyscall, SchedLocked, NextSlot, NewRound, AllocPid, FreeStack,
        ReleaseLk, KilledState
<1>1. CASE ForkRet(c)
  <2>1. CPUShape'
    BY <1>1 DEF ForkRet, CPUShape
  <2>2. LockShape'
    BY <1>1 DEF ForkRet, LockShape
  <2>3. TickShape'
    BY <1>1 DEF ForkRet, TickShape, CPUShape, LockShape, RunningOnOneCPU, OnCPU
  <2>4. SwtchShape'
    BY <1>1 DEF ForkRet, SwtchShape, CPUShape, LockShape, RunningOnOneCPU, OnCPU
  <2>5. ForkShape'
    BY <1>1 DEF ForkRet, ForkShape, CPUShape, RunningOnOneCPU, OnCPU
  <2>6. MemoryShape'
    BY <1>1 DEF ForkRet, MemoryShape, ForkShape, CPUShape, RunningOnOneCPU, OnCPU
  <2>7. RunningOnOneCPU'
    BY <1>1 DEF ForkRet, RunningOnOneCPU, OnCPU, CPUShape, LockShape, SwtchShape, ForkShape
  <2>8. NoSchedPanic'
    BY <1>1 DEF ForkRet, NoSchedPanic, CPUShape, LockShape, TickShape, SwtchShape
  <2> QED BY <2>1, <2>2, <2>3, <2>4, <2>5, <2>6, <2>7, <2>8 DEF IInv
<1>2. CASE YieldReturn(c)
  <2>1. CPUShape'
    BY <1>2 DEF YieldReturn, CPUShape
  <2>2. LockShape'
    BY <1>2 DEF YieldReturn, LockShape
  <2>3. TickShape'
    BY <1>2 DEF YieldReturn, TickShape, CPUShape, LockShape, RunningOnOneCPU, OnCPU
  <2>4. SwtchShape'
    BY <1>2 DEF YieldReturn, SwtchShape, CPUShape, LockShape, RunningOnOneCPU, OnCPU
  <2>5. ForkShape'
    BY <1>2 DEF YieldReturn, ForkShape, CPUShape, RunningOnOneCPU, OnCPU
  <2>6. MemoryShape'
    BY <1>2 DEF YieldReturn, MemoryShape, ForkShape, CPUShape, RunningOnOneCPU, OnCPU
  <2>7. RunningOnOneCPU'
    BY <1>2 DEF YieldReturn, RunningOnOneCPU, OnCPU, CPUShape, LockShape, SwtchShape, ForkShape
  <2>8. NoSchedPanic'
    BY <1>2 DEF YieldReturn, NoSchedPanic, CPUShape, LockShape, TickShape, SwtchShape
  <2> QED BY <2>1, <2>2, <2>3, <2>4, <2>5, <2>6, <2>7, <2>8 DEF IInv
<1>3. CASE TicksReturn(c)
  <2>1. CPUShape'
    BY <1>3 DEF TicksReturn, CPUShape
  <2>2. LockShape'
    BY <1>3 DEF TicksReturn, LockShape
  <2>3. TickShape'
    BY <1>3 DEF TicksReturn, TickShape, CPUShape, LockShape, RunningOnOneCPU, OnCPU
  <2>4. SwtchShape'
    BY <1>3 DEF TicksReturn, SwtchShape, CPUShape, LockShape, RunningOnOneCPU, OnCPU
  <2>5. ForkShape'
    BY <1>3 DEF TicksReturn, ForkShape, CPUShape, RunningOnOneCPU, OnCPU
  <2>6. MemoryShape'
    BY <1>3 DEF TicksReturn, MemoryShape, ForkShape, CPUShape, RunningOnOneCPU, OnCPU
  <2>7. RunningOnOneCPU'
    BY <1>3 DEF TicksReturn, RunningOnOneCPU, OnCPU, CPUShape, LockShape, SwtchShape, ForkShape
  <2>8. NoSchedPanic'
    BY <1>3 DEF TicksReturn, NoSchedPanic, CPUShape, LockShape, TickShape, SwtchShape
  <2> QED BY <2>1, <2>2, <2>3, <2>4, <2>5, <2>6, <2>7, <2>8 DEF IInv
<1> QED BY <1>1, <1>2, <1>3

\* The clock interrupt, its wakeup and yield() keep it.
LEMMA TimerIInv ==
  ASSUME IInv, TypeInv', NEW c \in CPUs,
         TimerTick(c) \/ TimerWakeup(c) \/ TimerOther(c) \/ Yield(c)
  PROVE  IInv'
<1> USE ProcAssumption, Slots
    DEF IInv, TypeInv, TypeOK, ForkPCs, slots, paths, memory, locks, cpus, RunsAt,
        Return, AfterSyscall, SchedLocked, NextSlot, NewRound, AllocPid, FreeStack,
        ReleaseLk, KilledState
<1>1. CASE TimerTick(c)
  <2>1. CPUShape'
    BY <1>1 DEF TimerTick, CPUShape
  <2>2. LockShape'
    BY <1>1 DEF TimerTick, Interruptible, LockShape
  <2>3. TickShape'
    BY <1>1 DEF TimerTick, TickShape, CPUShape, LockShape, RunningOnOneCPU, OnCPU
  <2>4. SwtchShape'
    BY <1>1 DEF TimerTick, SwtchShape, CPUShape, LockShape, RunningOnOneCPU, OnCPU
  <2>5. ForkShape'
    BY <1>1 DEF TimerTick, ForkShape, CPUShape, RunningOnOneCPU, OnCPU
  <2>6. MemoryShape'
    BY <1>1 DEF TimerTick, MemoryShape, ForkShape, CPUShape, RunningOnOneCPU, OnCPU
  <2>7. RunningOnOneCPU'
    BY <1>1 DEF TimerTick, Interruptible, RunningOnOneCPU, OnCPU
  <2>8. NoSchedPanic'
    BY <1>1 DEF TimerTick, NoSchedPanic, CPUShape, LockShape, TickShape, SwtchShape
  <2> QED BY <2>1, <2>2, <2>3, <2>4, <2>5, <2>6, <2>7, <2>8 DEF IInv
<1>2. CASE TimerWakeup(c)
  <2>1. CPUShape'
    BY <1>2 DEF TimerWakeup, Woken, AfterTick, CPUShape
  <2>2. LockShape'
    BY <1>2 DEF TimerWakeup, Woken, AfterTick, LockShape
  <2>3. TickShape'
    BY <1>2 DEF TimerWakeup, Woken, AfterTick, TickShape, CPUShape, LockShape, RunningOnOneCPU, OnCPU
  <2>4. SwtchShape'
    BY <1>2 DEF TimerWakeup, Woken, AfterTick, SwtchShape, CPUShape, LockShape, RunningOnOneCPU, OnCPU
  <2>5. ForkShape'
    BY <1>2 DEF TimerWakeup, Woken, AfterTick, ForkShape, CPUShape, RunningOnOneCPU, OnCPU
  <2>6. MemoryShape'
    BY <1>2 DEF TimerWakeup, Woken, AfterTick, MemoryShape, ForkShape, CPUShape, RunningOnOneCPU, OnCPU
  <2>7. RunningOnOneCPU'
    BY <1>2 DEF TimerWakeup, Woken, AfterTick, RunningOnOneCPU, OnCPU, CPUShape, LockShape, SwtchShape, ForkShape
  <2>8. NoSchedPanic'
    BY <1>2 DEF TimerWakeup, Woken, AfterTick, NoSchedPanic, CPUShape, LockShape, TickShape, SwtchShape
  <2> QED BY <2>1, <2>2, <2>3, <2>4, <2>5, <2>6, <2>7, <2>8 DEF IInv
<1>3. CASE TimerOther(c)
  <2>1. CPUShape'
    BY <1>3 DEF TimerOther, AfterTick, CPUShape
  <2>2. LockShape'
    BY <1>3 DEF TimerOther, AfterTick, LockShape
  <2>3. TickShape'
    BY <1>3 DEF TimerOther, AfterTick, Interruptible, TickShape, CPUShape, RunningOnOneCPU, OnCPU
  <2>4. SwtchShape'
    BY <1>3 DEF TimerOther, AfterTick, SwtchShape, CPUShape, LockShape, RunningOnOneCPU, OnCPU
  <2>5. ForkShape'
    BY <1>3 DEF TimerOther, AfterTick, ForkShape, CPUShape, RunningOnOneCPU, OnCPU
  <2>6. MemoryShape'
    BY <1>3 DEF TimerOther, AfterTick, MemoryShape, ForkShape, CPUShape, RunningOnOneCPU, OnCPU
  <2>7. RunningOnOneCPU'
    BY <1>3 DEF TimerOther, AfterTick, RunningOnOneCPU, OnCPU, CPUShape, LockShape, SwtchShape, ForkShape
  <2>8. NoSchedPanic'
    BY <1>3 DEF TimerOther, AfterTick, NoSchedPanic, CPUShape, LockShape, TickShape, SwtchShape
  <2> QED BY <2>1, <2>2, <2>3, <2>4, <2>5, <2>6, <2>7, <2>8 DEF IInv
<1>4. CASE Yield(c)
  <2>1. CPUShape'
    BY <1>4 DEF Yield, CPUShape
  <2>2. LockShape'
    BY <1>4 DEF Yield, LockShape
  <2>3. TickShape'
    BY <1>4 DEF Yield, TickShape, CPUShape, LockShape, RunningOnOneCPU, OnCPU
  <2>4. SwtchShape'
    BY <1>4 DEF Yield, SwtchShape, CPUShape, LockShape, RunningOnOneCPU, OnCPU
  <2>5. ForkShape'
    <3>1. cproc[c] \in Procs /\ state[cproc[c]] = "RUNNING"
      BY <1>4 DEF Yield, CPUShape, RunningOnOneCPU, OnCPU
    <3>2. \A q \in Procs : state[q] = "EMBRYO" => state'[q] = "EMBRYO"
      BY <1>4, <3>1 DEF Yield
    <3>3. \A q \in Procs : pc'[q] = pc[q] /\ newp'[q] = newp[q]
      BY <1>4 DEF Yield
    <3> QED BY <3>2, <3>3 DEF ForkShape
  <2>6. MemoryShape'
    BY <1>4 DEF Yield, MemoryShape, ForkShape, CPUShape, RunningOnOneCPU, OnCPU
  <2>7. RunningOnOneCPU'
    BY <1>4 DEF Yield, RunningOnOneCPU, OnCPU, CPUShape, LockShape, SwtchShape, ForkShape
  <2>8. NoSchedPanic'
    BY <1>4 DEF Yield, NoSchedPanic, CPUShape, LockShape, TickShape, SwtchShape
  <2> QED BY <2>1, <2>2, <2>3, <2>4, <2>5, <2>6, <2>7, <2>8 DEF IInv
<1> QED BY <1>1, <1>2, <1>3, <1>4

\* A process that moves between two labels outside sys_sleep() does not touch
\* tickslock.
LEMMA PcMoves ==
  ASSUME pc \in [Procs -> PCs], CPUShape, TickShape, NEW p \in Procs, NEW l \in PCs,
         pc' = [pc EXCEPT ![p] = l], UNCHANGED <<tickslock, cpc, cproc>>,
         {pc[p], l} \cap {"sleep_test", "sleep_enter"} = {}
  PROVE  TickShape'
<1>1. \A q \in Procs : pc'[q] = IF q = p THEN l ELSE pc[q]
  OBVIOUS
<1>2. \A q \in Procs :
        pc'[q] \in {"sleep_test", "sleep_enter"} <=> pc[q] \in {"sleep_test", "sleep_enter"}
  BY <1>1
<1> QED BY <1>2 DEF TickShape, CPUShape

\* fork() and allocproc() keep it, whichever allocation fails.
LEMMA ForkIInv ==
  ASSUME IInv, TypeInv', NEW c \in CPUs, NEW p \in Procs,
         ForkSlot(c, p) \/ ForkNoSlot(c, p) \/ ForkStack(c, p) \/ ForkNoStack(c, p) \/ ForkCopy(c, p) \/ ForkNoCopy(c, p) \/ ForkRun(c, p)
  PROVE  IInv'
<1> USE ProcAssumption, Slots
    DEF IInv, TypeInv, TypeOK, ForkPCs, slots, paths, memory, locks, cpus, RunsAt,
        Return, AfterSyscall, SchedLocked, NextSlot, NewRound, AllocPid, FreeStack,
        ReleaseLk, KilledState
<1>1. CASE ForkSlot(c, p)
  <2>1. CPUShape'
    BY <1>1 DEF ForkSlot, CallsFork, First, CPUShape
  <2>2. LockShape'
    BY <1>1 DEF ForkSlot, CallsFork, First, LockShape
  <2>3. TickShape'
    BY <1>1 DEF ForkSlot, CallsFork, First, TickShape, CPUShape, LockShape, RunningOnOneCPU, OnCPU
  <2>4. SwtchShape'
    BY <1>1 DEF ForkSlot, CallsFork, First, SwtchShape, CPUShape, LockShape, RunningOnOneCPU, OnCPU
  <2>5. ForkShape'
    BY <1>1 DEF ForkSlot, CallsFork, First, ForkShape, CPUShape, RunningOnOneCPU, OnCPU
  <2>6. MemoryShape'
    BY <1>1 DEF ForkSlot, CallsFork, First, MemoryShape, ForkShape, CPUShape, RunningOnOneCPU, OnCPU
  <2>7. RunningOnOneCPU'
    BY <1>1 DEF ForkSlot, CallsFork, First, RunningOnOneCPU, OnCPU, CPUShape, LockShape, SwtchShape, ForkShape
  <2>8. NoSchedPanic'
    BY <1>1 DEF ForkSlot, CallsFork, First, NoSchedPanic, CPUShape, LockShape, TickShape, SwtchShape
  <2> QED BY <2>1, <2>2, <2>3, <2>4, <2>5, <2>6, <2>7, <2>8 DEF IInv
<1>2. CASE ForkNoSlot(c, p)
  <2>1. CPUShape'
    BY <1>2 DEF ForkNoSlot, ForkFails, CPUShape
  <2>2. LockShape'
    BY <1>2 DEF ForkNoSlot, ForkFails, LockShape
  <2>3. TickShape'
    <3>1. pc[p] = "syscall" /\ UNCHANGED <<tickslock, cpc, cproc>>
      BY <1>2 DEF ForkNoSlot
    <3>2. PICK l \in {"user", "exit"} : pc' = [pc EXCEPT ![p] = l]
      BY <1>2 DEF ForkNoSlot, ForkFails
    <3>3. l \in PCs /\ {pc[p], l} \cap {"sleep_test", "sleep_enter"} = {}
      BY <3>1 DEF PCs
    <3> QED BY <3>1, <3>2, <3>3, PcMoves
  <2>4. SwtchShape'
    BY <1>2 DEF ForkNoSlot, ForkFails, SwtchShape, CPUShape, LockShape, RunningOnOneCPU, OnCPU
  <2>5. ForkShape'
    BY <1>2 DEF ForkNoSlot, ForkFails, ForkShape, CPUShape, RunningOnOneCPU, OnCPU
  <2>6. MemoryShape'
    BY <1>2 DEF ForkNoSlot, ForkFails, MemoryShape, ForkShape, CPUShape, RunningOnOneCPU, OnCPU
  <2>7. RunningOnOneCPU'
    BY <1>2 DEF ForkNoSlot, ForkFails, RunningOnOneCPU, OnCPU, CPUShape, LockShape, SwtchShape, ForkShape
  <2>8. NoSchedPanic'
    BY <1>2 DEF ForkNoSlot, ForkFails, NoSchedPanic, CPUShape, LockShape, TickShape, SwtchShape
  <2> QED BY <2>1, <2>2, <2>3, <2>4, <2>5, <2>6, <2>7, <2>8 DEF IInv
<1>3. CASE ForkStack(c, p)
  <2>1. CPUShape'
    BY <1>3 DEF ForkStack, CPUShape
  <2>2. LockShape'
    BY <1>3 DEF ForkStack, LockShape
  <2>3. TickShape'
    <3>1. newp[p] # p /\ pc' = [pc EXCEPT ![p] = "fork_copy", ![newp[p]] = "user"]
      BY <1>3 DEF ForkStack, ForkShape, RunningOnOneCPU, OnCPU
    <3>2. ASSUME NEW d \in CPUs, cpc[d] = "run" PROVE cproc[d] \in Procs /\ cproc[d] # newp[p]
      BY <1>3, <3>2 DEF ForkStack, ForkShape, CPUShape, RunningOnOneCPU, OnCPU
    <3>3. \A d \in CPUs : cpc[d] = "run" =>
            (pc'[cproc[d]] \in {"sleep_test", "sleep_enter"}
               <=> pc[cproc[d]] \in {"sleep_test", "sleep_enter"})
      BY <1>3, <3>1, <3>2 DEF ForkStack
    <3>4. \A q \in Procs : pc'[q] \in {"sleep_test", "sleep_enter"} => pc[q] = pc'[q]
      BY <3>1
    <3>5. UNCHANGED <<tickslock, cpc, cproc>>
      BY <1>3 DEF ForkStack
    <3> QED BY <3>3, <3>4, <3>5 DEF TickShape
  <2>4. SwtchShape'
    BY <1>3 DEF ForkStack, SwtchShape, CPUShape, LockShape, RunningOnOneCPU, OnCPU
  <2>5. ForkShape'
    BY <1>3 DEF ForkStack, ForkShape, CPUShape, RunningOnOneCPU, OnCPU
  <2>6. MemoryShape'
    BY <1>3 DEF ForkStack, MemoryShape, ForkShape, CPUShape, RunningOnOneCPU, OnCPU
  <2>7. RunningOnOneCPU'
    BY <1>3 DEF ForkStack, RunningOnOneCPU, OnCPU, CPUShape, LockShape, SwtchShape, ForkShape
  <2>8. NoSchedPanic'
    <3>1. \A d \in CPUs : cpc[d] = "panic" => initproc # p /\ initproc # newp[p]
      BY <1>3 DEF ForkStack, NoSchedPanic, ForkShape, CPUShape, RunningOnOneCPU, OnCPU
    <3> QED BY <1>3, <3>1 DEF ForkStack, NoSchedPanic
  <2> QED BY <2>1, <2>2, <2>3, <2>4, <2>5, <2>6, <2>7, <2>8 DEF IInv
<1>4. CASE ForkNoStack(c, p)
  <2>1. CPUShape'
    BY <1>4 DEF ForkNoStack, ForkFails, CPUShape
  <2>2. LockShape'
    BY <1>4 DEF ForkNoStack, ForkFails, LockShape
  <2>3. TickShape'
    BY <1>4 DEF ForkNoStack, ForkFails, TickShape, CPUShape, LockShape, RunningOnOneCPU, OnCPU
  <2>4. SwtchShape'
    BY <1>4 DEF ForkNoStack, SwtchShape, CPUShape, ForkShape
  <2>5. ForkShape'
    BY <1>4 DEF ForkNoStack, ForkFails, ForkShape, CPUShape, RunningOnOneCPU, OnCPU
  <2>6. MemoryShape'
    BY <1>4 DEF ForkNoStack, ForkFails, MemoryShape, ForkShape, CPUShape, RunningOnOneCPU, OnCPU
  <2>7. RunningOnOneCPU'
    BY <1>4 DEF ForkNoStack, ForkFails, RunningOnOneCPU, OnCPU, CPUShape, LockShape, SwtchShape, ForkShape
  <2>8. NoSchedPanic'
    BY <1>4 DEF ForkNoStack, ForkFails, NoSchedPanic, CPUShape, LockShape, TickShape, SwtchShape
  <2> QED BY <2>1, <2>2, <2>3, <2>4, <2>5, <2>6, <2>7, <2>8 DEF IInv
<1>5. CASE ForkCopy(c, p)
  <2>1. CPUShape'
    BY <1>5 DEF ForkCopy, CPUShape
  <2>2. LockShape'
    BY <1>5 DEF ForkCopy, LockShape
  <2>3. TickShape'
    BY <1>5 DEF ForkCopy, TickShape, CPUShape, LockShape, RunningOnOneCPU, OnCPU
  <2>4. SwtchShape'
    BY <1>5 DEF ForkCopy, SwtchShape, CPUShape, LockShape, RunningOnOneCPU, OnCPU
  <2>5. ForkShape'
    BY <1>5 DEF ForkCopy, ForkShape, CPUShape, RunningOnOneCPU, OnCPU
  <2>6. MemoryShape'
    BY <1>5 DEF ForkCopy, MemoryShape, ForkShape, CPUShape, RunningOnOneCPU, OnCPU
  <2>7. RunningOnOneCPU'
    BY <1>5 DEF ForkCopy, RunningOnOneCPU, OnCPU, CPUShape, LockShape, SwtchShape, ForkShape
  <2>8. NoSchedPanic'
    BY <1>5 DEF ForkCopy, NoSchedPanic, CPUShape, LockShape, TickShape, SwtchShape
  <2> QED BY <2>1, <2>2, <2>3, <2>4, <2>5, <2>6, <2>7, <2>8 DEF IInv
<1>6. CASE ForkNoCopy(c, p)
  <2>1. CPUShape'
    BY <1>6 DEF ForkNoCopy, ForkFails, CPUShape
  <2>2. LockShape'
    BY <1>6 DEF ForkNoCopy, ForkFails, LockShape
  <2>3. TickShape'
    BY <1>6 DEF ForkNoCopy, ForkFails, TickShape, CPUShape, LockShape, RunningOnOneCPU, OnCPU
  <2>4. SwtchShape'
    BY <1>6 DEF ForkNoCopy, SwtchShape, CPUShape, ForkShape
  <2>5. ForkShape'
    BY <1>6 DEF ForkNoCopy, ForkFails, ForkShape, CPUShape, RunningOnOneCPU, OnCPU
  <2>6. MemoryShape'
    BY <1>6 DEF ForkNoCopy, ForkFails, MemoryShape, ForkShape, CPUShape, RunningOnOneCPU, OnCPU
  <2>7. RunningOnOneCPU'
    BY <1>6 DEF ForkNoCopy, ForkFails, RunningOnOneCPU, OnCPU, CPUShape, LockShape, SwtchShape, ForkShape
  <2>8. NoSchedPanic'
    BY <1>6 DEF ForkNoCopy, ForkFails, NoSchedPanic, CPUShape, LockShape, TickShape, SwtchShape
  <2> QED BY <2>1, <2>2, <2>3, <2>4, <2>5, <2>6, <2>7, <2>8 DEF IInv
<1>7. CASE ForkRun(c, p)
  <2>1. CPUShape'
    BY <1>7 DEF ForkRun, CPUShape
  <2>2. LockShape'
    BY <1>7 DEF ForkRun, LockShape
  <2>3. TickShape'
    BY <1>7 DEF ForkRun, TickShape, CPUShape, LockShape, RunningOnOneCPU, OnCPU
  <2>4. SwtchShape'
    BY <1>7 DEF ForkRun, SwtchShape, CPUShape, LockShape, RunningOnOneCPU, OnCPU
  <2>5. ForkShape'
    BY <1>7 DEF ForkRun, ForkShape, CPUShape, RunningOnOneCPU, OnCPU
  <2>6. MemoryShape'
    BY <1>7 DEF ForkRun, MemoryShape, ForkShape, CPUShape, RunningOnOneCPU, OnCPU
  <2>7. RunningOnOneCPU'
    BY <1>7 DEF ForkRun, RunningOnOneCPU, OnCPU, CPUShape, LockShape, SwtchShape, ForkShape
  <2>8. NoSchedPanic'
    BY <1>7 DEF ForkRun, NoSchedPanic, CPUShape, LockShape, TickShape, SwtchShape
  <2> QED BY <2>1, <2>2, <2>3, <2>4, <2>5, <2>6, <2>7, <2>8 DEF IInv
<1> QED BY <1>1, <1>2, <1>3, <1>4, <1>5, <1>6, <1>7

\* A trap, a fault and exit() keep it.
LEMMA ExitIInv ==
  ASSUME IInv, TypeInv', NEW c \in CPUs, NEW p \in Procs,
         Trap(c, p) \/ Fault(c, p) \/ CallExit(c, p) \/ InitExiting(c, p) \/ Exit(c, p)
  PROVE  IInv'
<1> USE ProcAssumption, Slots
    DEF IInv, TypeInv, TypeOK, ForkPCs, slots, paths, memory, locks, cpus, RunsAt,
        Return, AfterSyscall, SchedLocked, NextSlot, NewRound, AllocPid, FreeStack,
        ReleaseLk, KilledState
<1>1. CASE Trap(c, p)
  <2>1. CPUShape'
    BY <1>1 DEF Trap, CPUShape
  <2>2. LockShape'
    BY <1>1 DEF Trap, LockShape
  <2>3. TickShape'
    BY <1>1 DEF Trap, TickShape, CPUShape, LockShape, RunningOnOneCPU, OnCPU
  <2>4. SwtchShape'
    BY <1>1 DEF Trap, SwtchShape, CPUShape, LockShape, RunningOnOneCPU, OnCPU
  <2>5. ForkShape'
    BY <1>1 DEF Trap, ForkShape, CPUShape, RunningOnOneCPU, OnCPU
  <2>6. MemoryShape'
    BY <1>1 DEF Trap, MemoryShape, ForkShape, CPUShape, RunningOnOneCPU, OnCPU
  <2>7. RunningOnOneCPU'
    BY <1>1 DEF Trap, RunningOnOneCPU, OnCPU, CPUShape, LockShape, SwtchShape, ForkShape
  <2>8. NoSchedPanic'
    BY <1>1 DEF Trap, NoSchedPanic, CPUShape, LockShape, TickShape, SwtchShape
  <2> QED BY <2>1, <2>2, <2>3, <2>4, <2>5, <2>6, <2>7, <2>8 DEF IInv
<1>2. CASE Fault(c, p)
  <2>1. CPUShape'
    BY <1>2 DEF Fault, CPUShape
  <2>2. LockShape'
    BY <1>2 DEF Fault, LockShape
  <2>3. TickShape'
    BY <1>2 DEF Fault, TickShape, CPUShape, LockShape, RunningOnOneCPU, OnCPU
  <2>4. SwtchShape'
    BY <1>2 DEF Fault, SwtchShape, CPUShape, LockShape, RunningOnOneCPU, OnCPU
  <2>5. ForkShape'
    BY <1>2 DEF Fault, ForkShape, CPUShape, RunningOnOneCPU, OnCPU
  <2>6. MemoryShape'
    BY <1>2 DEF Fault, MemoryShape, ForkShape, CPUShape, RunningOnOneCPU, OnCPU
  <2>7. RunningOnOneCPU'
    BY <1>2 DEF Fault, RunningOnOneCPU, OnCPU, CPUShape, LockShape, SwtchShape, ForkShape
  <2>8. NoSchedPanic'
    BY <1>2 DEF Fault, NoSchedPanic, CPUShape, LockShape, TickShape, SwtchShape
  <2> QED BY <2>1, <2>2, <2>3, <2>4, <2>5, <2>6, <2>7, <2>8 DEF IInv
<1>3. CASE CallExit(c, p)
  <2>1. CPUShape'
    BY <1>3 DEF CallExit, CPUShape
  <2>2. LockShape'
    BY <1>3 DEF CallExit, LockShape
  <2>3. TickShape'
    BY <1>3 DEF CallExit, TickShape, CPUShape, LockShape, RunningOnOneCPU, OnCPU
  <2>4. SwtchShape'
    BY <1>3 DEF CallExit, SwtchShape, CPUShape, LockShape, RunningOnOneCPU, OnCPU
  <2>5. ForkShape'
    BY <1>3 DEF CallExit, ForkShape, CPUShape, RunningOnOneCPU, OnCPU
  <2>6. MemoryShape'
    BY <1>3 DEF CallExit, MemoryShape, ForkShape, CPUShape, RunningOnOneCPU, OnCPU
  <2>7. RunningOnOneCPU'
    BY <1>3 DEF CallExit, RunningOnOneCPU, OnCPU, CPUShape, LockShape, SwtchShape, ForkShape
  <2>8. NoSchedPanic'
    BY <1>3 DEF CallExit, NoSchedPanic, CPUShape, LockShape, TickShape, SwtchShape
  <2> QED BY <2>1, <2>2, <2>3, <2>4, <2>5, <2>6, <2>7, <2>8 DEF IInv
<1>4. CASE InitExiting(c, p)
  <2>1. CPUShape'
    BY <1>4 DEF InitExiting, Exiting, CPUShape
  <2>2. LockShape'
    BY <1>4 DEF InitExiting, Exiting, LockShape
  <2>3. TickShape'
    BY <1>4 DEF InitExiting, Exiting, TickShape, CPUShape, LockShape, RunningOnOneCPU, OnCPU
  <2>4. SwtchShape'
    BY <1>4 DEF InitExiting, Exiting, SwtchShape, CPUShape, LockShape, RunningOnOneCPU, OnCPU
  <2>5. ForkShape'
    BY <1>4 DEF InitExiting, Exiting, ForkShape, CPUShape, RunningOnOneCPU, OnCPU
  <2>6. MemoryShape'
    BY <1>4 DEF InitExiting, Exiting, MemoryShape, ForkShape, CPUShape, RunningOnOneCPU, OnCPU
  <2>7. RunningOnOneCPU'
    BY <1>4 DEF InitExiting, Exiting, RunningOnOneCPU, OnCPU, CPUShape, LockShape, SwtchShape, ForkShape
  <2>8. NoSchedPanic'
    BY <1>4 DEF InitExiting, Exiting, NoSchedPanic, CPUShape, LockShape, TickShape, SwtchShape
  <2> QED BY <2>1, <2>2, <2>3, <2>4, <2>5, <2>6, <2>7, <2>8 DEF IInv
<1>5. CASE Exit(c, p)
  <2>1. CPUShape'
    BY <1>5 DEF Exit, Exiting, CPUShape
  <2>2. LockShape'
    BY <1>5 DEF Exit, Exiting, LockShape
  <2>3. TickShape'
    BY <1>5 DEF Exit, Exiting, TickShape, CPUShape, LockShape, RunningOnOneCPU, OnCPU
  <2>4. SwtchShape'
    BY <1>5 DEF Exit, Exiting, SwtchShape, CPUShape, LockShape, RunningOnOneCPU, OnCPU
  <2>5. ForkShape'
    <3>1. \A q \in Procs : state[q] = "EMBRYO" => state'[q] = "EMBRYO"
      BY <1>5 DEF Exit, Exiting, CPUShape, RunningOnOneCPU, OnCPU
    <3>2. \A q \in Procs : pc'[q] \in ForkPCs => pc[q] \in ForkPCs /\ newp'[q] = newp[q]
      BY <1>5 DEF Exit, Exiting
    <3> QED BY <3>1, <3>2 DEF ForkShape
  <2>6. MemoryShape'
    BY <1>5 DEF Exit, Exiting, MemoryShape, ForkShape, CPUShape, RunningOnOneCPU, OnCPU
  <2>7. RunningOnOneCPU'
    BY <1>5 DEF Exit, Exiting, RunningOnOneCPU, OnCPU, CPUShape, LockShape, SwtchShape, ForkShape
  <2>8. NoSchedPanic'
    BY <1>5 DEF Exit, Exiting, NoSchedPanic, CPUShape, LockShape, TickShape, SwtchShape
  <2> QED BY <2>1, <2>2, <2>3, <2>4, <2>5, <2>6, <2>7, <2>8 DEF IInv
<1> QED BY <1>1, <1>2, <1>3, <1>4, <1>5

\* wait() keeps it: what it frees is a ZOMBIE's and no CPU is on it.
LEMMA WaitIInv ==
  ASSUME IInv, TypeInv', NEW c \in CPUs, NEW p \in Procs,
         WaitReap(c, p) \/ WaitFails(c, p) \/ WaitSleep(c, p)
  PROVE  IInv'
<1> USE ProcAssumption, Slots
    DEF IInv, TypeInv, TypeOK, ForkPCs, slots, paths, memory, locks, cpus, RunsAt,
        Return, AfterSyscall, SchedLocked, NextSlot, NewRound, AllocPid, FreeStack,
        ReleaseLk, KilledState
<1>1. CASE WaitReap(c, p)
  <2>1. CPUShape'
    BY <1>1 DEF WaitReap, WaitReturns, Zombies, Children, InWait, CPUShape
  <2>2. LockShape'
    BY <1>1 DEF WaitReap, WaitReturns, Zombies, Children, InWait, LockShape
  <2>3. TickShape'
    BY <1>1 DEF WaitReap, WaitReturns, Zombies, Children, InWait, TickShape, CPUShape, LockShape, RunningOnOneCPU, OnCPU
  <2>4. SwtchShape'
    BY <1>1 DEF WaitReap, WaitReturns, Zombies, Children, InWait, SwtchShape, CPUShape, LockShape, RunningOnOneCPU, OnCPU
  <2>5. ForkShape'
    <3>1. PICK z \in Procs :
            /\ state[z] = "ZOMBIE" /\ state' = [state EXCEPT ![z] = "UNUSED"]
            /\ kstack' = [kstack EXCEPT ![z] = FALSE]
            /\ pgdir' = [pgdir EXCEPT ![z] = FALSE]
      BY <1>1 DEF WaitReap, Zombies, First
    <3> QED BY <1>1, <3>1 DEF WaitReap, WaitReturns, InWait, ForkShape
  <2>6. MemoryShape'
    <3>1. PICK z \in Procs :
            /\ state[z] = "ZOMBIE" /\ state' = [state EXCEPT ![z] = "UNUSED"]
            /\ kstack' = [kstack EXCEPT ![z] = FALSE]
            /\ pgdir' = [pgdir EXCEPT ![z] = FALSE]
      BY <1>1 DEF WaitReap, Zombies, First
    <3> QED BY <1>1, <3>1 DEF WaitReap, WaitReturns, InWait, MemoryShape, ForkShape
  <2>7. RunningOnOneCPU'
    <3>1. PICK z \in Procs :
            /\ state[z] = "ZOMBIE" /\ state' = [state EXCEPT ![z] = "UNUSED"]
            /\ kstack' = [kstack EXCEPT ![z] = FALSE]
            /\ pgdir' = [pgdir EXCEPT ![z] = FALSE]
      BY <1>1 DEF WaitReap, Zombies, First
    <3> QED BY <1>1, <3>1 DEF WaitReap, WaitReturns, InWait, RunningOnOneCPU, OnCPU
  <2>8. NoSchedPanic'
    BY <1>1 DEF WaitReap, WaitReturns, InWait, NoSchedPanic, CPUShape, RunningOnOneCPU, OnCPU
  <2> QED BY <2>1, <2>2, <2>3, <2>4, <2>5, <2>6, <2>7, <2>8 DEF IInv
<1>2. CASE WaitFails(c, p)
  <2>1. CPUShape'
    BY <1>2 DEF WaitFails, WaitReturns, InWait, CPUShape
  <2>2. LockShape'
    BY <1>2 DEF WaitFails, WaitReturns, InWait, LockShape
  <2>3. TickShape'
    BY <1>2 DEF WaitFails, WaitReturns, InWait, TickShape, CPUShape, LockShape, RunningOnOneCPU, OnCPU
  <2>4. SwtchShape'
    BY <1>2 DEF WaitFails, WaitReturns, InWait, SwtchShape, CPUShape, LockShape, RunningOnOneCPU, OnCPU
  <2>5. ForkShape'
    BY <1>2 DEF WaitFails, WaitReturns, InWait, ForkShape, CPUShape, RunningOnOneCPU, OnCPU
  <2>6. MemoryShape'
    BY <1>2 DEF WaitFails, WaitReturns, InWait, MemoryShape, ForkShape, CPUShape, RunningOnOneCPU, OnCPU
  <2>7. RunningOnOneCPU'
    BY <1>2 DEF WaitFails, WaitReturns, InWait, RunningOnOneCPU, OnCPU, CPUShape, LockShape, SwtchShape, ForkShape
  <2>8. NoSchedPanic'
    BY <1>2 DEF WaitFails, WaitReturns, InWait, NoSchedPanic, CPUShape, RunningOnOneCPU, OnCPU
  <2> QED BY <2>1, <2>2, <2>3, <2>4, <2>5, <2>6, <2>7, <2>8 DEF IInv
<1>3. CASE WaitSleep(c, p)
  <2>1. CPUShape'
    BY <1>3 DEF WaitSleep, InWait, CPUShape
  <2>2. LockShape'
    BY <1>3 DEF WaitSleep, InWait, LockShape
  <2>3. TickShape'
    BY <1>3 DEF WaitSleep, InWait, TickShape, CPUShape, LockShape, RunningOnOneCPU, OnCPU
  <2>4. SwtchShape'
    BY <1>3 DEF WaitSleep, InWait, SwtchShape, CPUShape, LockShape, RunningOnOneCPU, OnCPU
  <2>5. ForkShape'
    <3>1. p \in Procs /\ state[p] = "RUNNING"
      BY <1>3 DEF WaitSleep, InWait, CPUShape, RunningOnOneCPU, OnCPU
    <3>2. \A q \in Procs : state[q] = "EMBRYO" => state'[q] = "EMBRYO"
      BY <1>3, <3>1 DEF WaitSleep, InWait
    <3>3. \A q \in Procs : pc'[q] = pc[q] /\ newp'[q] = newp[q]
      BY <1>3 DEF WaitSleep, InWait
    <3> QED BY <3>2, <3>3 DEF ForkShape
  <2>6. MemoryShape'
    BY <1>3 DEF WaitSleep, InWait, MemoryShape, ForkShape, CPUShape, RunningOnOneCPU, OnCPU
  <2>7. RunningOnOneCPU'
    BY <1>3 DEF WaitSleep, InWait, RunningOnOneCPU, OnCPU, CPUShape, LockShape, SwtchShape, ForkShape
  <2>8. NoSchedPanic'
    BY <1>3 DEF WaitSleep, InWait, NoSchedPanic, CPUShape, LockShape, TickShape, SwtchShape
  <2> QED BY <2>1, <2>2, <2>3, <2>4, <2>5, <2>6, <2>7, <2>8 DEF IInv
<1> QED BY <1>1, <1>2, <1>3

\* sys_sleep() and sleep() keep it.
LEMMA SleepIInv ==
  ASSUME IInv, TypeInv', NEW c \in CPUs, NEW p \in Procs,
         (\E n \in SleepArgs : SleepCall(c, p, n)) \/ SleepDone(c, p) \/ SleepAgain(c, p) \/ SleepEnter(c, p) \/ SleepRelock(c, p)
  PROVE  IInv'
<1> USE ProcAssumption, Slots
    DEF IInv, TypeInv, TypeOK, ForkPCs, slots, paths, memory, locks, cpus, RunsAt,
        Return, AfterSyscall, SchedLocked, NextSlot, NewRound, AllocPid, FreeStack,
        ReleaseLk, KilledState
<1>1. CASE (\E n \in SleepArgs : SleepCall(c, p, n))
  <2>1. CPUShape'
    BY <1>1 DEF SleepCall, CPUShape
  <2>2. LockShape'
    BY <1>1 DEF SleepCall, LockShape
  <2>3. TickShape'
    BY <1>1 DEF SleepCall, TickShape, CPUShape, LockShape, RunningOnOneCPU, OnCPU
  <2>4. SwtchShape'
    BY <1>1 DEF SleepCall, SwtchShape, CPUShape, LockShape, RunningOnOneCPU, OnCPU
  <2>5. ForkShape'
    BY <1>1 DEF SleepCall, ForkShape, CPUShape, RunningOnOneCPU, OnCPU
  <2>6. MemoryShape'
    BY <1>1 DEF SleepCall, MemoryShape, ForkShape, CPUShape, RunningOnOneCPU, OnCPU
  <2>7. RunningOnOneCPU'
    BY <1>1 DEF SleepCall, RunningOnOneCPU, OnCPU, CPUShape, LockShape, SwtchShape, ForkShape
  <2>8. NoSchedPanic'
    BY <1>1 DEF SleepCall, NoSchedPanic, CPUShape, LockShape, TickShape, SwtchShape
  <2> QED BY <2>1, <2>2, <2>3, <2>4, <2>5, <2>6, <2>7, <2>8 DEF IInv
<1>2. CASE SleepDone(c, p)
  <2>1. CPUShape'
    BY <1>2 DEF SleepDone, CPUShape
  <2>2. LockShape'
    BY <1>2 DEF SleepDone, LockShape
  <2>3. TickShape'
    BY <1>2 DEF SleepDone, TickShape, CPUShape, LockShape, RunningOnOneCPU, OnCPU
  <2>4. SwtchShape'
    BY <1>2 DEF SleepDone, SwtchShape, CPUShape, LockShape, RunningOnOneCPU, OnCPU
  <2>5. ForkShape'
    BY <1>2 DEF SleepDone, ForkShape, CPUShape, RunningOnOneCPU, OnCPU
  <2>6. MemoryShape'
    BY <1>2 DEF SleepDone, MemoryShape, ForkShape, CPUShape, RunningOnOneCPU, OnCPU
  <2>7. RunningOnOneCPU'
    BY <1>2 DEF SleepDone, RunningOnOneCPU, OnCPU, CPUShape, LockShape, SwtchShape, ForkShape
  <2>8. NoSchedPanic'
    BY <1>2 DEF SleepDone, NoSchedPanic, CPUShape, LockShape, TickShape, SwtchShape
  <2> QED BY <2>1, <2>2, <2>3, <2>4, <2>5, <2>6, <2>7, <2>8 DEF IInv
<1>3. CASE SleepAgain(c, p)
  <2>1. CPUShape'
    BY <1>3 DEF SleepAgain, CPUShape
  <2>2. LockShape'
    BY <1>3 DEF SleepAgain, LockShape
  <2>3. TickShape'
    BY <1>3 DEF SleepAgain, TickShape, CPUShape, LockShape, RunningOnOneCPU, OnCPU
  <2>4. SwtchShape'
    BY <1>3 DEF SleepAgain, SwtchShape, CPUShape, LockShape, RunningOnOneCPU, OnCPU
  <2>5. ForkShape'
    BY <1>3 DEF SleepAgain, ForkShape, CPUShape, RunningOnOneCPU, OnCPU
  <2>6. MemoryShape'
    BY <1>3 DEF SleepAgain, MemoryShape, ForkShape, CPUShape, RunningOnOneCPU, OnCPU
  <2>7. RunningOnOneCPU'
    BY <1>3 DEF SleepAgain, RunningOnOneCPU, OnCPU, CPUShape, LockShape, SwtchShape, ForkShape
  <2>8. NoSchedPanic'
    BY <1>3 DEF SleepAgain, NoSchedPanic, CPUShape, LockShape, TickShape, SwtchShape
  <2> QED BY <2>1, <2>2, <2>3, <2>4, <2>5, <2>6, <2>7, <2>8 DEF IInv
<1>4. CASE SleepEnter(c, p)
  <2>1. CPUShape'
    BY <1>4 DEF SleepEnter, CPUShape
  <2>2. LockShape'
    BY <1>4 DEF SleepEnter, LockShape
  <2>3. TickShape'
    BY <1>4 DEF SleepEnter, TickShape, CPUShape, LockShape, RunningOnOneCPU, OnCPU
  <2>4. SwtchShape'
    BY <1>4 DEF SleepEnter, SwtchShape, CPUShape, LockShape, RunningOnOneCPU, OnCPU
  <2>5. ForkShape'
    <3>1. p \in Procs /\ state[p] = "RUNNING"
      BY <1>4 DEF SleepEnter, CPUShape, RunningOnOneCPU, OnCPU
    <3>2. \A q \in Procs : state[q] = "EMBRYO" => state'[q] = "EMBRYO"
      BY <1>4, <3>1 DEF SleepEnter
    <3>3. \A q \in Procs : pc'[q] \in ForkPCs => pc[q] \in ForkPCs /\ newp'[q] = newp[q]
      BY <1>4 DEF SleepEnter
    <3> QED BY <3>2, <3>3 DEF ForkShape
  <2>6. MemoryShape'
    BY <1>4 DEF SleepEnter, MemoryShape, ForkShape, CPUShape, RunningOnOneCPU, OnCPU
  <2>7. RunningOnOneCPU'
    BY <1>4 DEF SleepEnter, RunningOnOneCPU, OnCPU, CPUShape, LockShape, SwtchShape, ForkShape
  <2>8. NoSchedPanic'
    BY <1>4 DEF SleepEnter, NoSchedPanic, CPUShape, LockShape, TickShape, SwtchShape
  <2> QED BY <2>1, <2>2, <2>3, <2>4, <2>5, <2>6, <2>7, <2>8 DEF IInv
<1>5. CASE SleepRelock(c, p)
  <2>1. CPUShape'
    BY <1>5 DEF SleepRelock, CPUShape
  <2>2. LockShape'
    BY <1>5 DEF SleepRelock, LockShape
  <2>3. TickShape'
    BY <1>5 DEF SleepRelock, TickShape, CPUShape, LockShape, RunningOnOneCPU, OnCPU
  <2>4. SwtchShape'
    BY <1>5 DEF SleepRelock, SwtchShape, CPUShape, LockShape, RunningOnOneCPU, OnCPU
  <2>5. ForkShape'
    BY <1>5 DEF SleepRelock, ForkShape, CPUShape, RunningOnOneCPU, OnCPU
  <2>6. MemoryShape'
    BY <1>5 DEF SleepRelock, MemoryShape, ForkShape, CPUShape, RunningOnOneCPU, OnCPU
  <2>7. RunningOnOneCPU'
    BY <1>5 DEF SleepRelock, RunningOnOneCPU, OnCPU, CPUShape, LockShape, SwtchShape, ForkShape
  <2>8. NoSchedPanic'
    BY <1>5 DEF SleepRelock, NoSchedPanic, CPUShape, LockShape, TickShape, SwtchShape
  <2> QED BY <2>1, <2>2, <2>3, <2>4, <2>5, <2>6, <2>7, <2>8 DEF IInv
<1> QED BY <1>1, <1>2, <1>3, <1>4, <1>5

\* kill() and sys_setprio() keep it.
LEMMA KillIInv ==
  ASSUME IInv, TypeInv', NEW c \in CPUs, NEW p \in Procs,
         (\E k \in KillArgs : Kill(c, p, k)) \/ (\E k \in KillArgs : KillNobody(c, p, k)) \/ (\E n \in Prios : SetPrio(c, p, n))
  PROVE  IInv'
<1> USE ProcAssumption, Slots
    DEF IInv, TypeInv, TypeOK, ForkPCs, slots, paths, memory, locks, cpus, RunsAt,
        Return, AfterSyscall, SchedLocked, NextSlot, NewRound, AllocPid, FreeStack,
        ReleaseLk, KilledState
<1>1. CASE (\E k \in KillArgs : Kill(c, p, k))
  <2>1. CPUShape'
    BY <1>1 DEF Kill, First, CPUShape
  <2>2. LockShape'
    BY <1>1 DEF Kill, First, LockShape
  <2>3. TickShape'
    BY <1>1 DEF Kill, First, TickShape, CPUShape, LockShape, RunningOnOneCPU, OnCPU
  <2>4. SwtchShape'
    BY <1>1 DEF Kill, First, SwtchShape, CPUShape, LockShape, RunningOnOneCPU, OnCPU
  <2>5. ForkShape'
    BY <1>1 DEF Kill, First, ForkShape, CPUShape, RunningOnOneCPU, OnCPU
  <2>6. MemoryShape'
    BY <1>1 DEF Kill, First, MemoryShape, ForkShape, CPUShape, RunningOnOneCPU, OnCPU
  <2>7. RunningOnOneCPU'
    BY <1>1 DEF Kill, First, RunningOnOneCPU, OnCPU, CPUShape, LockShape, SwtchShape, ForkShape
  <2>8. NoSchedPanic'
    BY <1>1 DEF Kill, First, NoSchedPanic, CPUShape, LockShape, TickShape, SwtchShape
  <2> QED BY <2>1, <2>2, <2>3, <2>4, <2>5, <2>6, <2>7, <2>8 DEF IInv
<1>2. CASE (\E k \in KillArgs : KillNobody(c, p, k))
  <2>1. CPUShape'
    BY <1>2 DEF KillNobody, CPUShape
  <2>2. LockShape'
    BY <1>2 DEF KillNobody, LockShape
  <2>3. TickShape'
    BY <1>2 DEF KillNobody, TickShape, CPUShape, LockShape, RunningOnOneCPU, OnCPU
  <2>4. SwtchShape'
    BY <1>2 DEF KillNobody, SwtchShape, CPUShape, LockShape, RunningOnOneCPU, OnCPU
  <2>5. ForkShape'
    BY <1>2 DEF KillNobody, ForkShape, CPUShape, RunningOnOneCPU, OnCPU
  <2>6. MemoryShape'
    BY <1>2 DEF KillNobody, MemoryShape, ForkShape, CPUShape, RunningOnOneCPU, OnCPU
  <2>7. RunningOnOneCPU'
    BY <1>2 DEF KillNobody, RunningOnOneCPU, OnCPU, CPUShape, LockShape, SwtchShape, ForkShape
  <2>8. NoSchedPanic'
    BY <1>2 DEF KillNobody, NoSchedPanic, CPUShape, LockShape, TickShape, SwtchShape
  <2> QED BY <2>1, <2>2, <2>3, <2>4, <2>5, <2>6, <2>7, <2>8 DEF IInv
<1>3. CASE (\E n \in Prios : SetPrio(c, p, n))
  <2>1. CPUShape'
    BY <1>3 DEF SetPrio, CPUShape
  <2>2. LockShape'
    BY <1>3 DEF SetPrio, LockShape
  <2>3. TickShape'
    BY <1>3 DEF SetPrio, TickShape, CPUShape, LockShape, RunningOnOneCPU, OnCPU
  <2>4. SwtchShape'
    BY <1>3 DEF SetPrio, SwtchShape, CPUShape, LockShape, RunningOnOneCPU, OnCPU
  <2>5. ForkShape'
    BY <1>3 DEF SetPrio, ForkShape, CPUShape, RunningOnOneCPU, OnCPU
  <2>6. MemoryShape'
    BY <1>3 DEF SetPrio, MemoryShape, ForkShape, CPUShape, RunningOnOneCPU, OnCPU
  <2>7. RunningOnOneCPU'
    BY <1>3 DEF SetPrio, RunningOnOneCPU, OnCPU, CPUShape, LockShape, SwtchShape, ForkShape
  <2>8. NoSchedPanic'
    BY <1>3 DEF SetPrio, NoSchedPanic, CPUShape, LockShape, TickShape, SwtchShape
  <2> QED BY <2>1, <2>2, <2>3, <2>4, <2>5, <2>6, <2>7, <2>8 DEF IInv
<1> QED BY <1>1, <1>2, <1>3

\* Every step keeps the inductive invariant.
LEMMA NextIInv == IInv /\ [Next]_vars => IInv'
<1> SUFFICES ASSUME IInv, [Next]_vars PROVE IInv'
  OBVIOUS
<1>1. TypeInv'
  BY NextTypeInv DEF IInv
<1>2. ASSUME NEW c \in CPUs, Scheduler(c) \/ Switch(c) \/ Timer(c) PROVE IInv'
  BY <1>1, <1>2, SchedulerIInv, ResumeIInv, TimerIInv
  DEF Scheduler, Switch, Resume, Timer
<1>3. ASSUME NEW c \in CPUs, NEW p \in Procs,
             Trap(c, p) \/ Fault(c, p) \/ Kernel(c, p)
      PROVE  IInv'
  BY <1>1, <1>3, ForkIInv, ExitIInv, WaitIInv, SleepIInv, KillIInv
  DEF Kernel, Syscall, Fork, Wait, Sleep
<1>4. CASE UNCHANGED vars
  <2>1. CPUShape' /\ LockShape' /\ TickShape' /\ SwtchShape'
    BY <1>4 DEF vars, IInv, CPUShape, LockShape, TickShape, SwtchShape
  <2>2. ForkShape' /\ MemoryShape' /\ RunningOnOneCPU' /\ NoSchedPanic'
    BY <1>4 DEF vars, IInv, ForkShape, MemoryShape, RunningOnOneCPU, OnCPU, NoSchedPanic
  <2> QED BY <1>1, <2>1, <2>2 DEF IInv
<1> QED BY <1>2, <1>3, <1>4 DEF Next

\* So it holds in every reachable state, for any number of CPUs and slots.
LEMMA Invariance == Spec => []IInv
  BY InitIInv, NextIInv, PTL DEF Spec

\* Every variable of proc.c keeps its type.
THEOREM TypeCorrect == Spec => []TypeOK
<1>1. IInv => TypeOK
  BY DEF IInv, TypeInv
<1> QED BY <1>1, Invariance, PTL

\* A process is RUNNING exactly while one CPU executes it.
THEOREM RunningOnOneCPUHolds == Spec => []RunningOnOneCPU
<1>1. IInv => RunningOnOneCPU
  BY DEF IInv
<1> QED BY <1>1, Invariance, PTL

\* sched() finds its conditions met; no panic but "init exiting" is reached.
THEOREM NoSchedPanicHolds == Spec => []NoSchedPanic
<1>1. IInv => NoSchedPanic
  BY DEF IInv
<1> QED BY <1>1, Invariance, PTL

\* No CPU executes on a kernel stack or page directory that has been freed.
THEOREM StackInUseHolds == Spec => []StackInUse
<1>1. IInv => StackInUse
  <2> SUFFICES ASSUME IInv PROVE StackInUse
    OBVIOUS
  <2> USE DEF IInv, MemoryShape
  <2>1. ASSUME NEW c \in CPUs, cproc[c] # Null
        PROVE  kstack[cproc[c]] /\ pgdir[cproc[c]]
    <3>1. cproc[c] \in Procs
      BY <2>1 DEF TypeInv, TypeOK
    <3>2. state[cproc[c]] \in {"RUNNABLE", "RUNNING", "SLEEPING", "ZOMBIE"}
      BY <3>1 DEF RunningOnOneCPU, OnCPU, SwtchShape
    <3> QED BY <3>1, <3>2
  <2> QED BY <2>1 DEF StackInUse
<1> QED BY <1>1, Invariance, PTL
=============================================================================
