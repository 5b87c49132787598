--------------------------- MODULE SpinlockProofs ---------------------------
(***************************************************************************)
(* Mutual exclusion of spinlock.c, for any number of CPUs and locks and    *)
(* any nesting of them; that it implements the atomic lock; and that       *)
(* pushcli() and popcli() keep interrupts off while a lock is held,        *)
(* restore them afterwards and never panic.                                *)
(***************************************************************************)
EXTENDS Spinlock, FiniteSetTheorems, TLAPS

-----------------------------------------------------------------------------
(* Types *)

\* A context runs on a CPU.
LEMMA ContextType == ASSUME NEW x \in Contexts PROVE x[1] \in CPUs
  BY DEF Contexts

\* acquire() and release() work on a lock from the first instruction on.
LockNamed == \A x \in Contexts : pc[x] # "idle" => lk[x] \in Locks

TypeInv == TypeOK /\ LockNamed

\* initlock() and the start of a CPU give every variable its type.
LEMMA InitTypeOK == Init => TypeInv
  BY DEF Init, TypeInv, LockNamed, TypeOK, PCs

\* Every instruction of spinlock.c, sti() and every interrupt keep the types.
LEMMA NextTypeOK == TypeInv /\ [Next]_vars => TypeInv'
<1> SUFFICES ASSUME TypeInv, [Next]_vars PROVE TypeInv'
  OBVIOUS
<1> USE ContextType DEF TypeInv, LockNamed, TypeOK, At, Goto, PCs, perCPU, perLock, perCtx
<1>1. ASSUME NEW x \in Contexts, AcquireStep(x) PROVE TypeInv'
  <2>1. ASSUME NEW l \in Locks, AcquireCall(x, l) PROVE TypeInv'
    BY <2>1 DEF AcquireCall
  <2>2. CASE PushcliRest(x)
    BY <2>2 DEF PushcliRest
  <2>3. CASE TestHolding(x)
    BY <2>3 DEF TestHolding
  <2>4. CASE Xchg(x)
    BY <2>4 DEF Xchg
  <2>5. CASE RecordOwner(x)
    BY <2>5 DEF RecordOwner
  <2> QED BY <1>1, <2>1, <2>2, <2>3, <2>4, <2>5 DEF AcquireStep
<1>2. ASSUME NEW x \in Contexts, ReleaseStep(x) PROVE TypeInv'
  <2>1. ASSUME NEW l \in Locks, ReleaseCall(x, l) PROVE TypeInv'
    BY <2>1 DEF ReleaseCall
  <2>2. CASE ClearOwner(x)
    BY <2>2 DEF ClearOwner
  <2>3. CASE StoreZero(x)
    BY <2>3 DEF StoreZero
  <2>4. CASE Popcli(x)
    <3> DEFINE c == x[1]
               on == ncli[c] = 1 /\ intena[c]
    <3>1. c \in CPUs /\ on \in BOOLEAN
      OBVIOUS
    <3>2. ncli' \in [CPUs -> Nat]
      BY <2>4, <3>1 DEF Popcli
    <3>3. fl' \in [CPUs -> BOOLEAN]
      <4> HIDE DEF on
      <4> QED BY <2>4, <3>1 DEF Popcli, on
    <3> QED BY <2>4, <3>2, <3>3 DEF Popcli
  <2> QED BY <1>2, <2>1, <2>2, <2>3, <2>4 DEF ReleaseStep
<1>3. ASSUME NEW c \in CPUs, Sti(c) PROVE TypeInv'
  BY <1>3 DEF Sti
<1>4. ASSUME NEW c \in CPUs, Interrupt(c) PROVE TypeInv'
  BY <1>4 DEF Interrupt
<1>5. ASSUME NEW c \in CPUs, Iret(c) PROVE TypeInv'
  BY <1>5 DEF Iret
<1>6. CASE UNCHANGED vars
  BY <1>6 DEF vars
<1> QED BY <1>1, <1>2, <1>3, <1>4, <1>5, <1>6 DEF Next

\* Every variable of spinlock.c keeps its type.
THEOREM TypeCorrect == Spec => []TypeOK
<1>1. TypeInv => TypeOK
  BY DEF TypeInv
<1> QED BY <1>1, InitTypeOK, NextTypeOK, PTL DEF Spec

-----------------------------------------------------------------------------
(* Mutual exclusion *)

\* lk->locked is set exactly while some context is in the critical section.
LockedIffHeld == \A l \in Locks : locked[l] <=> \E x \in Contexts : l \in held[x]

\* After the xchg, and until the store of 0, the caller holds its lock.
InSection ==
    \A x \in Contexts : pc[x] \in {"owner", "clear", "store"} => lk[x] \in held[x]

LockInv == TypeInv /\ MutualExclusion /\ LockedIffHeld /\ InSection

\* Initially no lock is held.
LEMMA InitLockInv == Init => LockInv
<1> SUFFICES ASSUME Init PROVE LockInv
  OBVIOUS
<1>1. TypeInv
  BY InitTypeOK
<1> QED BY <1>1 DEF Init, LockInv, MutualExclusion, LockedIffHeld, InSection

\* A step that neither exchanges nor stores lk->locked only moves a context.
LEMMA FrameLockInv ==
  ASSUME LockInv, TypeInv', UNCHANGED <<locked, held>>,
         \A x \in Contexts : pc'[x] \in {"owner", "clear", "store"} => lk'[x] \in held[x]
  PROVE  LockInv'
  BY DEF LockInv, MutualExclusion, LockedIffHeld, InSection

\* Only the xchg and the store of 0 change who holds a lock; both keep LockInv.
LEMMA NextLockInv == LockInv /\ [Next]_vars => LockInv'
<1> SUFFICES ASSUME LockInv, [Next]_vars PROVE LockInv'
  OBVIOUS
<1>0. TypeInv /\ TypeInv'
  BY NextTypeOK DEF LockInv
<1> USE <1>0 DEF At, Goto, perCPU, perLock, perCtx
<1>1. ASSUME NEW x \in Contexts, AcquireStep(x) PROVE LockInv'
  <2>1. ASSUME NEW l \in Locks, AcquireCall(x, l) PROVE LockInv'
    BY <2>1, FrameLockInv DEF AcquireCall, LockInv, InSection, TypeInv, TypeOK
  <2>2. CASE PushcliRest(x)
    BY <2>2, FrameLockInv DEF PushcliRest, LockInv, InSection, TypeInv, TypeOK
  <2>3. CASE TestHolding(x)
    BY <2>3, FrameLockInv DEF TestHolding, LockInv, InSection, TypeInv, TypeOK
  <2>4. CASE Xchg(x)
    <3>1. lk[x] \in Locks /\ ~locked[lk[x]]
      BY <2>4 DEF Xchg, TypeInv, LockNamed
    <3>2. \A y \in Contexts : lk[x] \notin held[y]
      BY <3>1 DEF LockInv, LockedIffHeld
    <3>3. \A y \in Contexts : held'[y] = IF y = x THEN held[x] \cup {lk[x]} ELSE held[y]
      BY <2>4 DEF Xchg, TypeInv, TypeOK
    <3>4. \A l \in Locks : locked'[l] <=> (l = lk[x] \/ locked[l])
      BY <2>4, <3>1 DEF Xchg, TypeInv, TypeOK
    <3>5. MutualExclusion'
      BY <3>2, <3>3 DEF LockInv, MutualExclusion
    <3>6. LockedIffHeld'
      BY <3>3, <3>4 DEF LockInv, LockedIffHeld
    <3>7. InSection'
      BY <2>4, <3>3 DEF Xchg, LockInv, InSection, TypeInv, TypeOK
    <3> QED BY <3>5, <3>6, <3>7 DEF LockInv
  <2>5. CASE RecordOwner(x)
    BY <2>5, FrameLockInv DEF RecordOwner, LockInv, InSection, TypeInv, TypeOK
  <2> QED BY <1>1, <2>1, <2>2, <2>3, <2>4, <2>5 DEF AcquireStep
<1>2. ASSUME NEW x \in Contexts, ReleaseStep(x) PROVE LockInv'
  <2>1. ASSUME NEW l \in Locks, ReleaseCall(x, l) PROVE LockInv'
    BY <2>1, FrameLockInv DEF ReleaseCall, LockInv, InSection, TypeInv, TypeOK
  <2>2. CASE ClearOwner(x)
    BY <2>2, FrameLockInv DEF ClearOwner, LockInv, InSection, TypeInv, TypeOK
  <2>3. CASE StoreZero(x)
    <3>1. lk[x] \in Locks /\ lk[x] \in held[x]
      BY <2>3 DEF StoreZero, LockInv, InSection, TypeInv, LockNamed
    <3>2. \A y \in Contexts : y # x => lk[x] \notin held[y]
      BY <3>1 DEF LockInv, MutualExclusion
    <3>3. \A y \in Contexts : held'[y] = IF y = x THEN held[x] \ {lk[x]} ELSE held[y]
      BY <2>3 DEF StoreZero, TypeInv, TypeOK
    <3>4. \A l \in Locks : locked'[l] <=> (l # lk[x] /\ locked[l])
      BY <2>3, <3>1 DEF StoreZero, TypeInv, TypeOK
    <3>5. MutualExclusion'
      BY <3>3 DEF LockInv, MutualExclusion
    <3>6. LockedIffHeld'
      BY <3>2, <3>3, <3>4 DEF LockInv, LockedIffHeld
    <3>7. InSection'
      BY <2>3, <3>3 DEF StoreZero, LockInv, InSection, TypeInv, TypeOK
    <3> QED BY <3>5, <3>6, <3>7 DEF LockInv
  <2>4. CASE Popcli(x)
    BY <2>4, FrameLockInv DEF Popcli, LockInv, InSection, TypeInv, TypeOK
  <2> QED BY <1>2, <2>1, <2>2, <2>3, <2>4 DEF ReleaseStep
<1>3. ASSUME NEW c \in CPUs, Sti(c) \/ Interrupt(c) \/ Iret(c) PROVE LockInv'
  BY <1>3, FrameLockInv DEF Sti, Interrupt, Iret, LockInv, InSection
<1>4. CASE UNCHANGED vars
  BY <1>4, FrameLockInv DEF vars, LockInv, InSection
<1> QED BY <1>1, <1>2, <1>3, <1>4 DEF Next

\* acquire() and release() give mutual exclusion between all CPUs, threads and
\* interrupt handlers.
THEOREM MutualExclusionHolds == Spec => []MutualExclusion
<1>1. LockInv => MutualExclusion
  BY DEF LockInv
<1> QED BY <1>1, InitLockInv, NextLockInv, PTL DEF Spec

-----------------------------------------------------------------------------
(* The atomic lock *)

\* Free locks map to free abstract locks.
LEMMA InitAbstract == Init => Abstract!Init
  BY DEF Init, Abstract!Init, owners, Owner

\* The xchg is the abstract acquire, the store of 0 the abstract release, and
\* every other instruction a stuttering step.
LEMMA NextAbstract ==
  LockInv /\ LockInv' /\ [Next]_vars => [Abstract!Next]_owners
<1> SUFFICES ASSUME LockInv, LockInv', [Next]_vars
             PROVE  [Abstract!Next]_owners
  OBVIOUS
<1> USE DEF LockInv
<1>1. ASSUME UNCHANGED held
      PROVE  UNCHANGED owners
  BY <1>1 DEF owners, Owner
<1>2. ASSUME NEW x \in Contexts, Xchg(x) PROVE Abstract!Next
  <2>0. PICK m \in Locks : m = lk[x]
    BY <1>2 DEF Xchg, At, TypeInv, LockNamed
  <2>1. m \notin held[x] /\ m \in held'[x]
    BY <1>2, <2>0 DEF Xchg, LockedIffHeld, TypeInv, TypeOK
  <2>2. \A y \in Contexts, l \in Locks : l # m => (l \in held'[y] <=> l \in held[y])
    BY <1>2, <2>0 DEF Xchg, TypeInv, TypeOK
  <2>3. Owner(m) = {}
    BY <1>2, <2>0 DEF Xchg, LockedIffHeld, Owner
  <2>4. Owner(m)' = {x}
    BY <2>1 DEF Owner, MutualExclusion
  <2>5. \A l \in Locks : l # m => Owner(l)' = Owner(l)
    BY <2>2 DEF Owner
  <2>6. Abstract!Acquire(x, m)
    BY <2>1, <2>3, <2>4, <2>5 DEF Abstract!Acquire, owners
  <2> QED BY <2>1, <2>6 DEF Abstract!Next
<1>3. ASSUME NEW x \in Contexts, StoreZero(x) PROVE Abstract!Next
  <2>0. PICK m \in Locks : m = lk[x]
    BY <1>3 DEF StoreZero, At, TypeInv, LockNamed
  <2>1. m \in held[x]
    BY <1>3, <2>0 DEF StoreZero, At, InSection
  <2>2. \A y \in Contexts : held'[y] = IF y = x THEN held[x] \ {m} ELSE held[y]
    BY <1>3, <2>0 DEF StoreZero, TypeInv, TypeOK
  <2>3. Owner(m) = {x}
    BY <2>1 DEF MutualExclusion, Owner
  <2>4. \A y \in Contexts : m \notin held'[y]
    BY <2>1, <2>2 DEF MutualExclusion
  <2>5. Owner(m)' = {}
    BY <2>4 DEF Owner
  <2>6. \A l \in Locks : l # m => Owner(l)' = Owner(l)
    BY <2>2 DEF Owner
  <2>7. Abstract!Release(x, m)
    BY <2>1, <2>3, <2>5, <2>6 DEF Abstract!Release, owners
  <2> QED BY <2>1, <2>7 DEF Abstract!Next
<1>4. ASSUME NEW x \in Contexts, AcquireStep(x), ~Xchg(x) PROVE UNCHANGED held
  BY <1>4 DEF AcquireStep, AcquireCall, PushcliRest, TestHolding, RecordOwner, perCtx
<1>5. ASSUME NEW x \in Contexts, ReleaseStep(x), ~StoreZero(x) PROVE UNCHANGED held
  BY <1>5 DEF ReleaseStep, ReleaseCall, ClearOwner, Popcli, perCtx
<1>6. ASSUME NEW c \in CPUs, Sti(c) \/ Interrupt(c) \/ Iret(c) PROVE UNCHANGED held
  BY <1>6 DEF Sti, Interrupt, Iret, perCtx
<1>7. CASE UNCHANGED vars
  BY <1>1, <1>7 DEF vars
<1> QED BY <1>1, <1>2, <1>3, <1>4, <1>5, <1>6, <1>7 DEF Next

\* The instruction sequences of acquire() and release() implement the atomic
\* lock that the other modules use.
THEOREM Refinement == Spec => ImplementsAtomicLock
<1> QED BY InitAbstract, InitLockInv, NextLockInv, NextAbstract, PTL
        DEF Spec, ImplementsAtomicLock, Abstract!Spec

-----------------------------------------------------------------------------
(* pushcli() and popcli() *)

\* pushcli()s not yet undone by context x: one per lock, and one more between
\* pushcli() and the xchg, and between the store of 0 and popcli().
Depth(x) == Cardinality(held[x]) + IF pc[x] \in {"test", "xchg", "popcli"} THEN 1 ELSE 0

\* cpu->ncli counts them for the context that the CPU runs.
NcliCounts ==
    \A x \in Contexts : IsFiniteSet(held[x]) /\ (Running(x) => ncli[x[1]] = Depth(x))

\* An interrupted thread had interrupts on, hence no lock; a handler that does
\* not run has none either.
Suspended == \A x \in Contexts : ~Running(x) =>
    /\ held[x] = {} /\ pc[x] \in {"idle", "cli"}
    /\ x[2] = "handler" => pc[x] = "idle"
    /\ x[2] = "thread" => wantOn[x[1]]

\* The flag that x should see whenever it has undone all its pushcli()s.
Want(x) == x[2] = "thread" /\ wantOn[x[1]]

FlagAndIntena == \A x \in Contexts : Running(x) =>
    /\ fl[x[1]] <=> (ncli[x[1]] = 0 /\ Want(x))
    /\ ncli[x[1]] > 0 => (intena[x[1]] <=> Want(x))

\* The eflags that an outermost pushcli() has read are still right at its cli().
SavedFlags == \A x \in Contexts : pc[x] = "cli" /\ held[x] = {} => (eflags[x] <=> Want(x))

\* lk->cpu is the holder's CPU, except next to the xchg and the store of 0.
OwnerRecorded ==
    /\ \A x \in Contexts : \A l \in held[x] :
           lcpu[l] = IF pc[x] \in {"owner", "store"} /\ lk[x] = l THEN None ELSE x[1]
    /\ \A l \in Locks : ~locked[l] => lcpu[l] = None

\* Nobody acquires a lock that it holds.
AcquiresNew == \A x \in Contexts : pc[x] \in {"cli", "test", "xchg"} => lk[x] \notin held[x]

CliInv == /\ LockInv /\ NcliCounts /\ Suspended /\ FlagAndIntena /\ SavedFlags
          /\ OwnerRecorded /\ AcquiresNew /\ NoPanic

\* A CPU executes one context, which its number and its level name.
LEMMA OneRuns ==
  ASSUME NEW x \in Contexts, NEW y \in Contexts, Running(x), x # y
  PROVE  x[1] = y[1] => ~Running(y)
  BY DEF Contexts, Running

\* Depth is a natural number, and 0 only for a context without locks that is
\* in no pushcli()-popcli() pair.
LEMMA DepthFacts ==
  ASSUME NEW x \in Contexts, IsFiniteSet(held[x])
  PROVE  /\ Depth(x) \in Nat
         /\ Depth(x) = 0 <=> held[x] = {} /\ pc[x] \notin {"test", "xchg", "popcli"}
         /\ held[x] = {} => Cardinality(held[x]) = 0
<1>1. Cardinality(held[x]) \in Nat
  BY FS_CardinalityType
<1>2. Cardinality(held[x]) = 0 <=> held[x] = {}
  BY FS_EmptySet
<1> QED BY <1>1, <1>2 DEF Depth

\* A CPU starts with interrupts off and no pushcli() done.
LEMMA InitCliInv == Init => CliInv
<1> SUFFICES ASSUME Init PROVE CliInv
  OBVIOUS
<1>0. LockInv
  BY InitLockInv
<1>1. NcliCounts
  <2> SUFFICES ASSUME NEW x \in Contexts
               PROVE  IsFiniteSet(held[x]) /\ ncli[x[1]] = Depth(x)
    BY DEF NcliCounts
  <2>1. held[x] = {} /\ pc[x] = "idle" /\ ncli[x[1]] = 0
    BY ContextType DEF Init
  <2> QED BY <2>1, FS_EmptySet DEF Depth
<1>2. Suspended
  BY ContextType DEF Init, Suspended, Running, Contexts
<1>3. FlagAndIntena
  BY ContextType DEF Init, FlagAndIntena, Want
<1>4. SavedFlags /\ OwnerRecorded /\ AcquiresNew /\ NoPanic
  BY DEF Init, SavedFlags, OwnerRecorded, AcquiresNew, NoPanic
<1> QED BY <1>0, <1>1, <1>2, <1>3, <1>4 DEF CliInv

\* What a context does is its own affair: a step of x that keeps its own part
\* of CliInv, and touches no other context and no other CPU, keeps all of it.
LEMMA StepOf ==
  ASSUME CliInv, LockInv', OwnerRecorded', NEW x \in Contexts, Running(x),
         UNCHANGED <<level, wantOn>>,
         \A y \in Contexts : y # x =>
             /\ pc'[y] = pc[y] /\ lk'[y] = lk[y]
             /\ eflags'[y] = eflags[y] /\ held'[y] = held[y],
         \A d \in CPUs : d # x[1] =>
             fl'[d] = fl[d] /\ ncli'[d] = ncli[d] /\ intena'[d] = intena[d],
         IsFiniteSet(held'[x]), ncli'[x[1]] = Depth(x)',
         fl'[x[1]] <=> (ncli'[x[1]] = 0 /\ Want(x)),
         ncli'[x[1]] > 0 => (intena'[x[1]] <=> Want(x)),
         pc'[x] = "cli" /\ held'[x] = {} => (eflags'[x] <=> Want(x)),
         pc'[x] \in {"cli", "test", "xchg"} => lk'[x] \notin held'[x],
         pc'[x] # "panic"
  PROVE  CliInv'
<1>0. \A y \in Contexts : Running(y)' <=> Running(y)
  BY ContextType DEF Running
<1>a. \A y \in Contexts : Want(y)' <=> Want(y)
  BY DEF Want
<1>b. \A y \in Contexts : y # x /\ Running(y) => y[1] \in CPUs /\ y[1] # x[1]
  BY OneRuns, ContextType
<1>1. NcliCounts'
  <2> SUFFICES ASSUME NEW y \in Contexts, y # x
               PROVE  IsFiniteSet(held'[y]) /\ (Running(y)' => ncli'[y[1]] = Depth(y)')
    BY DEF NcliCounts
  <2>1. IsFiniteSet(held'[y])
    BY DEF CliInv, NcliCounts
  <2>2. Depth(y)' = Depth(y)
    BY DEF Depth
  <2> QED BY <1>0, <1>b, <2>1, <2>2 DEF CliInv, NcliCounts
<1>2. Suspended'
  BY <1>0 DEF CliInv, Suspended
<1>3. FlagAndIntena'
  <2> SUFFICES ASSUME NEW y \in Contexts, y # x, Running(y)'
               PROVE  /\ fl'[y[1]] <=> (ncli'[y[1]] = 0 /\ Want(y)')
                      /\ ncli'[y[1]] > 0 => (intena'[y[1]] <=> Want(y)')
    BY <1>a DEF FlagAndIntena
  <2> QED BY <1>0, <1>a, <1>b DEF CliInv, FlagAndIntena
<1>4. SavedFlags'
  BY <1>a DEF CliInv, SavedFlags
<1>5. AcquiresNew' /\ NoPanic'
  BY DEF CliInv, AcquiresNew, NoPanic
<1> QED BY <1>1, <1>2, <1>3, <1>4, <1>5 DEF CliInv

\* Every instruction, sti() and every interrupt keep the count, the flag and
\* the recorded owners right, and no panic is reached.
LEMMA NextCliInv == CliInv /\ [Next]_vars => CliInv'
<1> SUFFICES ASSUME CliInv, [Next]_vars PROVE CliInv'
  OBVIOUS
<1>0. LockInv /\ LockInv'
  BY NextLockInv DEF CliInv
<1>t. TypeInv /\ TypeInv'
  BY <1>0 DEF LockInv
<1>d. \A x \in Contexts : /\ Depth(x) \in Nat /\ IsFiniteSet(held[x])
                          /\ Depth(x) = 0 <=> held[x] = {} /\ pc[x] \notin {"test", "xchg", "popcli"}
                          /\ Cardinality(held[x]) \in Nat
  BY DepthFacts, FS_CardinalityType DEF CliInv, NcliCounts
<1>r. ASSUME NEW x \in Contexts, Running(x)
      PROVE  /\ x[1] \in CPUs /\ ncli[x[1]] = Depth(x) /\ ncli[x[1]] \in Nat
             /\ fl[x[1]] <=> (ncli[x[1]] = 0 /\ Want(x))
             /\ ncli[x[1]] > 0 => (intena[x[1]] <=> Want(x))
  BY <1>r, <1>t, ContextType DEF CliInv, NcliCounts, FlagAndIntena, TypeInv, TypeOK
<1>1. ASSUME NEW x \in Contexts, NEW l \in Locks, AcquireCall(x, l) PROVE CliInv'
  <2>0. Running(x) /\ pc[x] = "idle" /\ l \notin held[x] /\ pc'[x] = "cli" /\ lk'[x] = l
    BY <1>1, <1>t DEF AcquireCall, At, Goto, TypeInv, TypeOK
  <2>1. \A y \in Contexts : y # x => pc'[y] = pc[y] /\ lk'[y] = lk[y] /\ eflags'[y] = eflags[y]
    BY <1>1, <1>t DEF AcquireCall, Goto, TypeInv, TypeOK
  <2>2. eflags'[x] = fl[x[1]]
    BY <1>1, <1>t DEF AcquireCall, TypeInv, TypeOK
  <2>3. UNCHANGED <<fl, ncli, intena, level, wantOn, locked, lcpu, held>>
    BY <1>1 DEF AcquireCall, perCPU, perLock
  <2>4. OwnerRecorded'
    BY <2>0, <2>1, <2>3 DEF CliInv, OwnerRecorded
  <2>5. Depth(x)' = Depth(x)
    BY <2>0, <2>3 DEF Depth
  <2>6. held[x] = {} => ncli[x[1]] = 0
    BY <2>0, <1>d, <1>r
  <2> QED BY <1>0, <1>d, <1>r, <2>0, <2>1, <2>2, <2>3, <2>4, <2>5, <2>6, StepOf
<1>2. ASSUME NEW x \in Contexts, PushcliRest(x) PROVE CliInv'
  <2>0. Running(x) /\ pc[x] = "cli" /\ pc'[x] = "test"
    BY <1>2, <1>t DEF PushcliRest, At, Goto, TypeInv, TypeOK
  <2>1. \A y \in Contexts : y # x => pc'[y] = pc[y]
    BY <1>2, <1>t DEF PushcliRest, Goto, TypeInv, TypeOK
  <2>2. UNCHANGED <<level, wantOn, locked, lcpu, lk, eflags, held>>
    BY <1>2 DEF PushcliRest, perLock
  <2>3. /\ \A d \in CPUs : d # x[1] => fl'[d] = fl[d] /\ ncli'[d] = ncli[d]
        /\ ~fl'[x[1]] /\ ncli'[x[1]] = ncli[x[1]] + 1
    BY <1>2, <1>t, ContextType DEF PushcliRest, TypeInv, TypeOK
  <2>4. /\ \A d \in CPUs : d # x[1] => intena'[d] = intena[d]
        /\ intena'[x[1]] = IF ncli[x[1]] = 0 THEN eflags[x] ELSE intena[x[1]]
    BY <1>2, <1>t, ContextType DEF PushcliRest, TypeInv, TypeOK
  <2>5. ncli[x[1]] = 0 => (eflags[x] <=> Want(x))
    BY <2>0, <1>d, <1>r DEF CliInv, SavedFlags
  <2>6. intena'[x[1]] <=> Want(x)
    BY <1>r, <2>0, <2>4, <2>5
  <2>7. OwnerRecorded'
    BY <2>0, <2>1, <2>2 DEF CliInv, OwnerRecorded
  <2>8. Depth(x)' = Depth(x) + 1
    BY <1>d, <2>0, <2>2 DEF Depth
  <2>9. lk'[x] \notin held'[x]
    BY <2>0, <2>2 DEF CliInv, AcquiresNew
  <2> QED BY <1>0, <1>d, <1>r, <2>0, <2>1, <2>2, <2>3, <2>4, <2>6, <2>7, <2>8, <2>9, StepOf
<1>3. ASSUME NEW x \in Contexts, TestHolding(x) PROVE CliInv'
  <2>0. Running(x) /\ pc[x] = "test" /\ lk[x] \in Locks /\ lk[x] \notin held[x]
    BY <1>3, <1>t DEF TestHolding, At, TypeInv, LockNamed, CliInv, AcquiresNew
  <2>1. ~Holding(x[1], lk[x])
    <3> SUFFICES ASSUME locked[lk[x]], lcpu[lk[x]] = x[1] PROVE FALSE
      BY DEF Holding
    <3>1. PICK y \in Contexts : lk[x] \in held[y]
      BY <1>0, <2>0 DEF LockInv, LockedIffHeld
    <3>2. x[1] # None
      BY ContextType, LockAssumption
    <3>3. y[1] = x[1] /\ y # x
      BY <2>0, <3>1, <3>2 DEF CliInv, OwnerRecorded
    <3>4. ~Running(y)
      BY <2>0, <3>3, OneRuns
    <3> QED BY <3>1, <3>4 DEF CliInv, Suspended
  <2>2. pc' = [pc EXCEPT ![x] = "xchg"]
    BY <1>3, <2>1 DEF TestHolding, Goto
  <2>3. pc'[x] = "xchg" /\ \A y \in Contexts : y # x => pc'[y] = pc[y]
    BY <2>2, <1>t DEF TypeInv, TypeOK
  <2>4. UNCHANGED <<fl, ncli, intena, level, wantOn, locked, lcpu, lk, eflags, held>>
    BY <1>3 DEF TestHolding, perCPU, perLock
  <2>5. OwnerRecorded'
    BY <2>0, <2>3, <2>4 DEF CliInv, OwnerRecorded
  <2>6. Depth(x)' = Depth(x)
    BY <2>0, <2>3, <2>4 DEF Depth
  <2> QED BY <1>0, <1>d, <1>r, <2>0, <2>3, <2>4, <2>5, <2>6, StepOf
<1>4. ASSUME NEW x \in Contexts, Xchg(x) PROVE CliInv'
  <2>0. Running(x) /\ pc[x] = "xchg" /\ lk[x] \in Locks /\ lk[x] \notin held[x] /\ ~locked[lk[x]]
    BY <1>4, <1>t DEF Xchg, At, TypeInv, LockNamed, CliInv, AcquiresNew
  <2>1. pc'[x] = "owner" /\ \A y \in Contexts : y # x => pc'[y] = pc[y]
    BY <1>4, <1>t DEF Xchg, Goto, TypeInv, TypeOK
  <2>2. held'[x] = held[x] \cup {lk[x]} /\ \A y \in Contexts : y # x => held'[y] = held[y]
    BY <1>4, <1>t DEF Xchg, TypeInv, TypeOK
  <2>3. UNCHANGED <<fl, ncli, intena, level, wantOn, lcpu, lk, eflags>>
    BY <1>4 DEF Xchg, perCPU
  <2>4. locked' = [locked EXCEPT ![lk[x]] = TRUE]
    BY <1>4 DEF Xchg
  <2>5. \A l \in Locks : ~locked'[l] => ~locked[l]
    BY <2>4, <1>t DEF TypeInv, TypeOK
  <2>6. lcpu[lk[x]] = None
    BY <2>0 DEF CliInv, OwnerRecorded
  <2>7. OwnerRecorded'
    <3>1. \A l \in Locks : ~locked'[l] => lcpu'[l] = None
      BY <2>3, <2>5 DEF CliInv, OwnerRecorded
    <3>2. ASSUME NEW y \in Contexts, y # x, NEW l \in held'[y]
          PROVE  lcpu'[l] = IF pc'[y] \in {"owner", "store"} /\ lk'[y] = l THEN None ELSE y[1]
      BY <2>1, <2>2, <2>3, <3>2 DEF CliInv, OwnerRecorded
    <3>3. ASSUME NEW l \in held'[x]
          PROVE  lcpu'[l] = IF lk'[x] = l THEN None ELSE x[1]
      BY <2>0, <2>2, <2>3, <2>6 DEF CliInv, OwnerRecorded
    <3> QED BY <2>1, <3>1, <3>2, <3>3 DEF OwnerRecorded
  <2>8. IsFiniteSet(held'[x]) /\ Cardinality(held'[x]) = Cardinality(held[x]) + 1
    <3>1. IsFiniteSet(held[x])
      BY <1>d
    <3>2. /\ IsFiniteSet(held[x] \cup {lk[x]})
          /\ Cardinality(held[x] \cup {lk[x]}) =
                IF lk[x] \in held[x] THEN Cardinality(held[x]) ELSE Cardinality(held[x]) + 1
      BY <3>1, FS_AddElement
    <3> QED BY <2>0, <2>2, <3>2
  <2>9. Depth(x)' = Depth(x)
    BY <1>d, <2>0, <2>1, <2>8 DEF Depth
  <2> QED BY <1>0, <1>r, <2>0, <2>1, <2>2, <2>3, <2>7, <2>8, <2>9, StepOf
<1>5. ASSUME NEW x \in Contexts, RecordOwner(x) PROVE CliInv'
  <2>0. Running(x) /\ pc[x] = "owner" /\ lk[x] \in Locks /\ lk[x] \in held[x]
    BY <1>5, <1>t, <1>0 DEF RecordOwner, At, TypeInv, LockNamed, LockInv, InSection
  <2>1. pc'[x] = "idle" /\ \A y \in Contexts : y # x => pc'[y] = pc[y]
    BY <1>5, <1>t DEF RecordOwner, Goto, TypeInv, TypeOK
  <2>2. lcpu'[lk[x]] = x[1] /\ \A l \in Locks : l # lk[x] => lcpu'[l] = lcpu[l]
    BY <1>5, <2>0, <1>t DEF RecordOwner, TypeInv, TypeOK
  <2>3. UNCHANGED <<fl, ncli, intena, level, wantOn, locked, lk, eflags, held>>
    BY <1>5 DEF RecordOwner, perCPU
  <2>4. \A y \in Contexts : held[y] \subseteq Locks /\ (y # x => lk[x] \notin held[y])
    BY <1>0, <1>t, <2>0 DEF LockInv, MutualExclusion, TypeInv, TypeOK
  <2>5. locked[lk[x]]
    BY <1>0, <2>0 DEF LockInv, LockedIffHeld
  <2>6. OwnerRecorded'
    BY <2>0, <2>1, <2>2, <2>3, <2>4, <2>5 DEF CliInv, OwnerRecorded
  <2>7. Depth(x)' = Depth(x)
    BY <2>0, <2>1, <2>3 DEF Depth
  <2> QED BY <1>0, <1>d, <1>r, <2>0, <2>1, <2>3, <2>6, <2>7, StepOf
<1>6. ASSUME NEW x \in Contexts, NEW l \in Locks, ReleaseCall(x, l) PROVE CliInv'
  <2>0. Running(x) /\ pc[x] = "idle" /\ l \in held[x]
    BY <1>6 DEF ReleaseCall, At
  <2>1. Holding(x[1], l)
    BY <1>0, <2>0 DEF Holding, CliInv, OwnerRecorded, LockInv, LockedIffHeld
  <2>2. pc' = [pc EXCEPT ![x] = "clear"]
    BY <1>6, <2>1 DEF ReleaseCall, Goto
  <2>3. /\ pc'[x] = "clear" /\ lk'[x] = l
        /\ \A y \in Contexts : y # x => pc'[y] = pc[y] /\ lk'[y] = lk[y]
    BY <1>6, <2>2, <1>t DEF ReleaseCall, TypeInv, TypeOK
  <2>4. UNCHANGED <<fl, ncli, intena, level, wantOn, locked, lcpu, eflags, held>>
    BY <1>6 DEF ReleaseCall, perCPU, perLock
  <2>5. OwnerRecorded'
    BY <2>0, <2>3, <2>4 DEF CliInv, OwnerRecorded
  <2>6. Depth(x)' = Depth(x)
    BY <2>0, <2>3, <2>4 DEF Depth
  <2> QED BY <1>0, <1>d, <1>r, <2>0, <2>3, <2>4, <2>5, <2>6, StepOf
<1>7. ASSUME NEW x \in Contexts, ClearOwner(x) PROVE CliInv'
  <2>0. Running(x) /\ pc[x] = "clear" /\ lk[x] \in Locks /\ lk[x] \in held[x]
    BY <1>7, <1>t, <1>0 DEF ClearOwner, At, TypeInv, LockNamed, LockInv, InSection
  <2>1. pc'[x] = "store" /\ \A y \in Contexts : y # x => pc'[y] = pc[y]
    BY <1>7, <1>t DEF ClearOwner, Goto, TypeInv, TypeOK
  <2>2. lcpu'[lk[x]] = None /\ \A l \in Locks : l # lk[x] => lcpu'[l] = lcpu[l]
    BY <1>7, <2>0, <1>t DEF ClearOwner, TypeInv, TypeOK
  <2>3. UNCHANGED <<fl, ncli, intena, level, wantOn, locked, lk, eflags, held>>
    BY <1>7 DEF ClearOwner, perCPU
  <2>4. \A y \in Contexts : held[y] \subseteq Locks /\ (y # x => lk[x] \notin held[y])
    BY <1>0, <1>t, <2>0 DEF LockInv, MutualExclusion, TypeInv, TypeOK
  <2>5. OwnerRecorded'
    BY <2>0, <2>1, <2>2, <2>3, <2>4 DEF CliInv, OwnerRecorded
  <2>6. Depth(x)' = Depth(x)
    BY <2>0, <2>1, <2>3 DEF Depth
  <2> QED BY <1>0, <1>d, <1>r, <2>0, <2>1, <2>3, <2>5, <2>6, StepOf
<1>8. ASSUME NEW x \in Contexts, StoreZero(x) PROVE CliInv'
  <2>0. Running(x) /\ pc[x] = "store" /\ lk[x] \in Locks /\ lk[x] \in held[x]
    BY <1>8, <1>t, <1>0 DEF StoreZero, At, TypeInv, LockNamed, LockInv, InSection
  <2>1. pc'[x] = "popcli" /\ \A y \in Contexts : y # x => pc'[y] = pc[y]
    BY <1>8, <1>t DEF StoreZero, Goto, TypeInv, TypeOK
  <2>2. held'[x] = held[x] \ {lk[x]} /\ \A y \in Contexts : y # x => held'[y] = held[y]
    BY <1>8, <1>t DEF StoreZero, TypeInv, TypeOK
  <2>3. UNCHANGED <<fl, ncli, intena, level, wantOn, lcpu, lk, eflags>>
    BY <1>8 DEF StoreZero, perCPU
  <2>4. \A l \in Locks : l # lk[x] => locked'[l] = locked[l]
    BY <1>8, <2>0, <1>t DEF StoreZero, TypeInv, TypeOK
  <2>5. lcpu[lk[x]] = None
    BY <2>0 DEF CliInv, OwnerRecorded
  <2>6. OwnerRecorded'
    BY <2>0, <2>1, <2>2, <2>3, <2>4, <2>5 DEF CliInv, OwnerRecorded
  <2>7. IsFiniteSet(held'[x]) /\ Cardinality(held'[x]) = Cardinality(held[x]) - 1
    <3>1. IsFiniteSet(held[x])
      BY <1>d
    <3>2. /\ IsFiniteSet(held[x] \ {lk[x]})
          /\ Cardinality(held[x] \ {lk[x]}) =
                IF lk[x] \in held[x] THEN Cardinality(held[x]) - 1 ELSE Cardinality(held[x])
      BY <3>1, FS_RemoveElement
    <3> QED BY <2>0, <2>2, <3>2
  <2>8. Depth(x)' = Depth(x)
    BY <1>d, <2>0, <2>1, <2>7 DEF Depth
  <2> QED BY <1>0, <1>r, <2>0, <2>1, <2>2, <2>3, <2>6, <2>7, <2>8, StepOf
<1>9. ASSUME NEW x \in Contexts, Popcli(x) PROVE CliInv'
  <2>0. Running(x) /\ pc[x] = "popcli"
    BY <1>9 DEF Popcli, At
  <2>1. ncli[x[1]] > 0 /\ ~fl[x[1]]
    BY <1>d, <1>r, <2>0
  <2>2. /\ pc' = [pc EXCEPT ![x] = "idle"]
        /\ ncli' = [ncli EXCEPT ![x[1]] = @ - 1]
        /\ fl' = [fl EXCEPT ![x[1]] = ncli[x[1]] = 1 /\ intena[x[1]]]
        /\ UNCHANGED <<locked, lcpu, intena, level, wantOn, lk, eflags, held>>
    BY <1>9, <2>1 DEF Popcli, Goto, perLock
  <2>3. pc'[x] = "idle" /\ \A y \in Contexts : y # x => pc'[y] = pc[y]
    BY <2>2, <1>t DEF TypeInv, TypeOK
  <2>4. /\ ncli'[x[1]] = ncli[x[1]] - 1
        /\ \A d \in CPUs : d # x[1] => ncli'[d] = ncli[d] /\ fl'[d] = fl[d]
        /\ fl'[x[1]] <=> (ncli[x[1]] = 1 /\ intena[x[1]])
    <3> DEFINE on == ncli[x[1]] = 1 /\ intena[x[1]]
    <3>1. fl' = [fl EXCEPT ![x[1]] = on]
      BY <2>2
    <3> HIDE DEF on
    <3>2. fl'[x[1]] = on /\ \A d \in CPUs : d # x[1] => fl'[d] = fl[d]
      BY <3>1, <1>t, ContextType DEF TypeInv, TypeOK
    <3> QED BY <2>2, <3>2, <1>t, ContextType DEF TypeInv, TypeOK, on
  <2>5. OwnerRecorded'
    BY <2>0, <2>2, <2>3 DEF CliInv, OwnerRecorded
  <2>6. Depth(x)' = Depth(x) - 1
    BY <1>d, <2>0, <2>2, <2>3 DEF Depth
  <2> QED BY <1>0, <1>d, <1>r, <2>0, <2>1, <2>2, <2>3, <2>4, <2>5, <2>6, StepOf
<1>10. ASSUME NEW c \in CPUs, Sti(c) PROVE CliInv'
  <2> DEFINE x == <<c, "thread">>
  <2>0. x \in Contexts /\ x[1] = c /\ Running(x) /\ pc[x] = "idle" /\ held[x] = {}
    BY <1>10 DEF Sti, At, Contexts
  <2>1. UNCHANGED <<locked, lcpu, ncli, intena, level, pc, lk, eflags, held>>
    BY <1>10 DEF Sti, perLock, perCtx
  <2>2. /\ fl'[c] /\ wantOn'[c]
        /\ \A d \in CPUs : d # c => fl'[d] = fl[d] /\ wantOn'[d] = wantOn[d]
    BY <1>10, <1>t DEF Sti, TypeInv, TypeOK
  <2>3. ncli[c] = 0
    BY <1>d, <1>r, <2>0
  <2>4. \A y \in Contexts : y # x => (Want(y)' <=> Want(y))
    BY <2>2 DEF Want, Contexts
  <2>5. \A y \in Contexts : (Running(y)' <=> Running(y)) /\ Depth(y)' = Depth(y)
    BY <2>1 DEF Running, Depth
  <2>6. \A y \in Contexts : y # x /\ Running(y) => y[1] \in CPUs /\ y[1] # c
    BY <2>0, OneRuns, ContextType
  <2>7. Want(x)'
    BY <2>2 DEF Want
  <2> HIDE DEF x
  <2>8. NcliCounts' /\ OwnerRecorded' /\ AcquiresNew' /\ NoPanic'
    BY <2>1, <2>5 DEF CliInv, NcliCounts, OwnerRecorded, AcquiresNew, NoPanic
  <2>9. Suspended'
    BY <2>1, <2>2, <2>5, ContextType DEF CliInv, Suspended
  <2>10. FlagAndIntena'
    <3>1. ASSUME NEW y \in Contexts, y # x, Running(y)'
          PROVE  /\ fl'[y[1]] <=> (ncli'[y[1]] = 0 /\ Want(y)')
                 /\ ncli'[y[1]] > 0 => (intena'[y[1]] <=> Want(y)')
      BY <2>1, <2>2, <2>4, <2>5, <2>6, <3>1 DEF CliInv, FlagAndIntena
    <3> QED BY <2>0, <2>1, <2>2, <2>3, <2>7, <3>1 DEF FlagAndIntena
  <2>11. SavedFlags'
    BY <2>0, <2>1, <2>4 DEF CliInv, SavedFlags
  <2> QED BY <1>0, <2>8, <2>9, <2>10, <2>11 DEF CliInv
<1>11. ASSUME NEW c \in CPUs, Interrupt(c) \/ Iret(c) PROVE CliInv'
  <2> DEFINE th == <<c, "thread">>
             hd == <<c, "handler">>
  <2>0. UNCHANGED <<locked, lcpu, ncli, intena, wantOn, pc, lk, eflags, held>>
    BY <1>11 DEF Interrupt, Iret, perLock, perCtx
  <2>1. th \in Contexts /\ hd \in Contexts /\ th[1] = c /\ hd[1] = c
    BY DEF Contexts
  <2>2. \A y \in Contexts : y # th /\ y # hd => y[1] \in CPUs /\ y[1] # c
    BY DEF Contexts
  <2>3. \A d \in CPUs : d # c => fl'[d] = fl[d] /\ level'[d] = level[d]
    BY <1>11, <1>t DEF Interrupt, Iret, TypeInv, TypeOK
  <2>4. \A y \in Contexts : Depth(y)' = Depth(y) /\ (Want(y)' <=> Want(y))
    BY <2>0 DEF Depth, Want
  <2>5. \A y \in Contexts : y # th /\ y # hd => (Running(y)' <=> Running(y))
    BY <2>2, <2>3 DEF Running
  <2>6. ncli[c] = 0 /\ wantOn[c] /\ held[th] = {} /\ held[hd] = {}
        /\ pc[hd] = "idle" /\ pc[th] \in {"idle", "cli"}
    <3>1. CASE Interrupt(c)
      <4>1. Running(th) /\ ~Running(hd) /\ fl[c]
        BY <3>1 DEF Interrupt, Running
      <4>2. ncli[c] = 0 /\ wantOn[c] /\ Depth(th) = 0
        BY <1>r, <2>1, <4>1 DEF Want
      <4>3. held[th] = {} /\ pc[th] \in {"idle", "cli"}
        BY <1>0, <1>d, <1>t, <2>1, <4>2 DEF LockInv, InSection, TypeInv, TypeOK, PCs, CliInv, NoPanic
      <4> QED BY <2>1, <4>1, <4>2, <4>3 DEF CliInv, Suspended
    <3>2. CASE Iret(c)
      <4>1. Running(hd) /\ ~Running(th) /\ held[hd] = {} /\ pc[hd] = "idle"
        BY <3>2 DEF Iret, At, Running
      <4>2. ncli[c] = 0
        BY <1>d, <1>r, <2>1, <4>1
      <4> QED BY <2>1, <4>1, <4>2 DEF CliInv, Suspended
    <3> QED BY <1>11, <3>1, <3>2
  <2>7. \/ Running(th)' /\ ~Running(hd)' /\ fl'[c]
        \/ Running(hd)' /\ ~Running(th)' /\ ~fl'[c]
    BY <1>11, <1>t DEF Interrupt, Iret, Running, TypeInv, TypeOK
  <2>8. Want(th) /\ ~Want(hd)
    BY <2>6 DEF Want
  <2>9. Depth(th) = 0 /\ Depth(hd) = 0
    BY <1>d, <2>1, <2>6
  <2>k. th[2] = "thread" /\ hd[2] = "handler"
    OBVIOUS
  <2> HIDE DEF th, hd
  <2>10. NcliCounts'
    <3>1. ASSUME NEW y \in Contexts
          PROVE  IsFiniteSet(held'[y]) /\ (Running(y)' => ncli'[y[1]] = Depth(y)')
      <4>1. CASE y = th \/ y = hd
        BY <1>d, <2>0, <2>1, <2>4, <2>6, <2>9, <4>1
      <4>2. CASE y # th /\ y # hd
        BY <2>0, <2>4, <2>5, <4>2 DEF CliInv, NcliCounts
      <4> QED BY <4>1, <4>2
    <3> QED BY <3>1 DEF NcliCounts
  <2>11. Suspended'
    BY <2>0, <2>1, <2>5, <2>6, <2>k DEF CliInv, Suspended
  <2>12. FlagAndIntena'
    <3>1. ASSUME NEW y \in Contexts, Running(y)'
          PROVE  /\ fl'[y[1]] <=> (ncli'[y[1]] = 0 /\ Want(y)')
                 /\ ncli'[y[1]] > 0 => (intena'[y[1]] <=> Want(y)')
      <4>1. CASE y = th \/ y = hd
        BY <2>0, <2>1, <2>4, <2>6, <2>7, <2>8, <3>1, <4>1
      <4>2. CASE y # th /\ y # hd
        BY <2>0, <2>2, <2>3, <2>4, <2>5, <3>1, <4>2 DEF CliInv, FlagAndIntena
      <4> QED BY <4>1, <4>2
    <3> QED BY <3>1 DEF FlagAndIntena
  <2>13. SavedFlags' /\ OwnerRecorded' /\ AcquiresNew' /\ NoPanic'
    BY <2>0, <2>4 DEF CliInv, SavedFlags, OwnerRecorded, AcquiresNew, NoPanic
  <2> QED BY <1>0, <2>10, <2>11, <2>12, <2>13 DEF CliInv
<1>12. CASE UNCHANGED vars
  <2>1. \A y \in Contexts : /\ Depth(y)' = Depth(y) /\ (Want(y)' <=> Want(y))
                            /\ (Running(y)' <=> Running(y))
    BY <1>12 DEF vars, Depth, Want, Running
  <2> QED BY <1>0, <1>12, <2>1 DEF vars, CliInv, NcliCounts, Suspended, FlagAndIntena,
             SavedFlags, OwnerRecorded, AcquiresNew, NoPanic
<1> QED BY <1>1, <1>2, <1>3, <1>4, <1>5, <1>6, <1>7, <1>8, <1>9, <1>10, <1>11, <1>12
        DEF Next, AcquireStep, ReleaseStep

\* pushcli() keeps interrupts off as long as a lock is held or spun for, so a
\* handler never waits for its own CPU.
THEOREM OwnerUninterruptibleHolds == Spec => []OwnerUninterruptible
<1>1. CliInv => OwnerUninterruptible
  <2> SUFFICES ASSUME CliInv, NEW x \in Contexts,
                      held[x] # {} \/ pc[x] \in {"test", "xchg"}
               PROVE  Running(x) /\ ~fl[x[1]]
    BY DEF OwnerUninterruptible
  <2>1. Running(x)
    BY DEF CliInv, Suspended
  <2>2. Depth(x) # 0
    BY DepthFacts DEF CliInv, NcliCounts
  <2> QED BY <2>1, <2>2 DEF CliInv, NcliCounts, FlagAndIntena
<1> QED BY <1>1, InitCliInv, NextCliInv, PTL DEF Spec

\* No panic of spinlock.c is reached, whatever the locks and the order in which
\* callers nest them, as long as nobody acquires a lock it already holds.
THEOREM NoPanicHolds == Spec => []NoPanic
<1>1. CliInv => NoPanic
  BY DEF CliInv
<1> QED BY <1>1, InitCliInv, NextCliInv, PTL DEF Spec

\* A matched pair of pushcli() and popcli() leaves the interrupt flag as it was.
THEOREM InterruptsRestoredHolds == Spec => []InterruptsRestored
<1>1. CliInv => InterruptsRestored
  <2> SUFFICES ASSUME CliInv, NEW x \in Contexts, At(x, "idle"), held[x] = {}
               PROVE  fl[x[1]] = (x[2] = "thread" /\ wantOn[x[1]])
    BY DEF InterruptsRestored
  <2>1. Running(x) /\ pc[x] = "idle"
    BY DEF At
  <2>2. Depth(x) = 0
    BY <2>1, DepthFacts DEF CliInv, NcliCounts
  <2>3. fl[x[1]] <=> Want(x)
    BY <2>1, <2>2 DEF CliInv, NcliCounts, FlagAndIntena
  <2>4. fl[x[1]] \in BOOLEAN
    BY ContextType DEF CliInv, LockInv, TypeInv, TypeOK
  <2> QED BY <2>3, <2>4 DEF Want
<1> QED BY <1>1, InitCliInv, NextCliInv, PTL DEF Spec
=============================================================================
