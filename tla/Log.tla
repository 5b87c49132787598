-------------------------------- MODULE Log ---------------------------------
(***************************************************************************)
(* log.c: the redo log under the file system.  Threads run system calls    *)
(* between begin_op() and end_op(); the last one out commits for all.      *)
(* Every bwrite() of one block is atomic and waits for the disk; the       *)
(* machine may crash between any two steps, during recovery too.           *)
(*                                                                         *)
(* Of the buffer cache the model keeps what log.c depends on: a buffer is  *)
(* used by one thread at a time, a dirty one is not recycled, a clean one  *)
(* may be at any time.  sleep() and wakeup() lose no wakeup (module Proc). *)
(***************************************************************************)
EXTENDS Integers, Sequences, FiniteSets

CONSTANTS
    Threads, Blocks, Values,
    NoBlock,       \* a thread holds no buffer
    NotCached,     \* no buffer holds the block
    MAXOPBLOCKS, LOGSIZE,
    NLOG,          \* sb.nlog = log.size, the header block included
    MaxOpWrites,   \* blocks a system call writes
    MaxCrashes     \* bound

ASSUME LogAssumption ==
    /\ NoBlock \notin Blocks /\ NotCached \notin Values
    /\ LOGSIZE \in Nat /\ MAXOPBLOCKS \in 1..LOGSIZE
    /\ NLOG \in 2..LOGSIZE + 1
    /\ MaxOpWrites \in 0..MAXOPBLOCKS /\ MaxCrashes \in Nat
    /\ IsFiniteSet(Threads)      \* NPROC of them

VARIABLES
    (* on disk *)
    home,          \* home[b]: block b at its own place
    logData,       \* logData[i]: block log.start + i
    hd,            \* the header block: the block numbers, in order
    (* in memory *)
    cache,         \* cache[b]: data of the buffer of block b
    dirty,         \* blocks whose buffer has B_DIRTY
    lh,            \* log.lh
    outstanding, committing,
    pc,            \* pc[t]: where thread t is in log.c
    buf,           \* buf[t]: the block whose buffer t has locked
    wrote,         \* wrote[t]: blocks the call of t has written
    tail,          \* loop variable of write_log() and install_trans()
    mode,          \* recover_from_log()'s progress, then "up"
    crashes

disk == <<home, logData, hd>>
memory == <<cache, dirty, lh, outstanding, committing>>
thread == <<pc, buf, wrote>>
vars == <<home, logData, hd, cache, dirty, lh, outstanding, committing,
          pc, buf, wrote, tail, mode, crashes>>

CallPCs == {"op", "modified", "logging"}
CommitPCs == {"write_log", "install", "finish"}

TypeOK ==
    /\ home \in [Blocks -> Values]
    /\ logData \in [1..LOGSIZE -> Values]
    /\ hd \in Seq(Blocks) /\ Len(hd) <= LOGSIZE
    /\ cache \in [Blocks -> Values \cup {NotCached}]
    /\ dirty \subseteq Blocks
    /\ lh \in Seq(Blocks) /\ Len(lh) <= LOGSIZE
    /\ outstanding \in 0..Cardinality(Threads)
    /\ committing \in BOOLEAN
    /\ pc \in [Threads -> {"idle", "begin", "asleep", "panic"} \cup CallPCs \cup CommitPCs]
    /\ buf \in [Threads -> Blocks \cup {NoBlock}]
    /\ wrote \in [Threads -> SUBSET Blocks]
    /\ tail \in 1..LOGSIZE + 1
    /\ mode \in {"read_head", "install", "up"}
    /\ crashes \in 0..MaxCrashes

\* What mkfs leaves on the disk, and the memory of a machine that just started.
Init ==
    /\ \E v \in Values : home = [b \in Blocks |-> v] /\ logData = [i \in 1..LOGSIZE |-> v]
    /\ hd = <<>>
    /\ cache = [b \in Blocks |-> NotCached]
    /\ dirty = {} /\ lh = <<>> /\ outstanding = 0 /\ committing = FALSE
    /\ pc = [t \in Threads |-> "idle"]
    /\ buf = [t \in Threads |-> NoBlock]
    /\ wrote = [t \in Threads |-> {}]
    /\ tail = 1 /\ mode = "read_head" /\ crashes = 0

\* The data of bread(b): from the buffer, else from the disk.
Bread(b) == IF cache[b] = NotCached THEN home[b] ELSE cache[b]

Locked == {buf[t] : t \in Threads} \ {NoBlock}

At(t, label) == mode = "up" /\ pc[t] = label
Goto(t, label) == pc' = [pc EXCEPT ![t] = label]

\* wakeup(&log), with thread t going on at label.
WakeAndGoto(t, label) ==
    pc' = [u \in Threads |-> IF u = t THEN label
                             ELSE IF pc[u] = "asleep" THEN "begin" ELSE pc[u]]

Recorded(s) == {s[i] : i \in 1..Len(s)}

-----------------------------------------------------------------------------
(* begin_op() *)

\* Mutant of MayBegin: begin_op() does not look at log.committing.
MayBeginAnyTime == Len(lh) + (outstanding + 1) * MAXOPBLOCKS <= LOGSIZE
\* No commit is under way and the worst case of every call fits.
MayBegin == ~committing /\ Len(lh) + (outstanding + 1) * MAXOPBLOCKS <= LOGSIZE

Beginning(t) == At(t, "idle") \/ At(t, "begin")

BeginOp(t) ==
    /\ Beginning(t) /\ MayBegin
    /\ outstanding' = outstanding + 1
    /\ wrote' = [wrote EXCEPT ![t] = {}]
    /\ Goto(t, "op")
    /\ UNCHANGED <<disk, cache, dirty, lh, committing, buf, tail, mode, crashes>>

\* sleep(&log, &log.lock)
BeginSleep(t) ==
    /\ Beginning(t) /\ ~MayBegin
    /\ Goto(t, "asleep")
    /\ UNCHANGED <<disk, memory, buf, wrote, tail, mode, crashes>>

-----------------------------------------------------------------------------
(* A system call writes a block: bread(), change, log_write(), brelse() *)

Modify(t, b, v) ==
    /\ At(t, "op") /\ b \notin Locked
    /\ Cardinality(wrote[t] \cup {b}) <= MaxOpWrites
    /\ cache' = [cache EXCEPT ![b] = v]
    /\ buf' = [buf EXCEPT ![t] = b]
    /\ wrote' = [wrote EXCEPT ![t] = @ \cup {b}]
    /\ Goto(t, "modified")
    /\ UNCHANGED <<disk, dirty, lh, outstanding, committing, tail, mode, crashes>>

\* log_write()'s panics, tested before it acquires log.lock.
LogCheck(t) ==
    /\ At(t, "modified")
    /\ Goto(t, IF Len(lh) >= LOGSIZE \/ Len(lh) >= NLOG - 1 \/ outstanding < 1
               THEN "panic" ELSE "logging")
    /\ UNCHANGED <<disk, memory, buf, wrote, tail, mode, crashes>>

\* b->flags |= B_DIRTY; mutant: forgotten.
PinNot(b) == UNCHANGED dirty
Pin(b) == dirty' = dirty \cup {b}

\* The block number is recorded once (absorption); mutant: log.lh.n++ forgotten.
RecordNoGrow(b) == UNCHANGED lh
Record(b) == lh' = IF b \in Recorded(lh) THEN lh ELSE Append(lh, b)

\* Record, pin and brelse().
LogAppend(t) == LET b == buf[t] IN
    /\ At(t, "logging")
    /\ Record(b) /\ Pin(b)
    /\ buf' = [buf EXCEPT ![t] = NoBlock]
    /\ Goto(t, "op")
    /\ UNCHANGED <<disk, cache, outstanding, committing, wrote, tail, mode, crashes>>

-----------------------------------------------------------------------------
(* end_op() *)

\* Calls are still outstanding: wake begin_op()s that wait for space.  A commit
\* under way is a panic("log.committing").
EndOp(t) ==
    /\ At(t, "op") /\ (outstanding > 1 \/ committing)
    /\ outstanding' = outstanding - 1
    /\ IF committing THEN Goto(t, "panic") ELSE WakeAndGoto(t, "idle")
    /\ UNCHANGED <<disk, cache, dirty, lh, committing, buf, wrote, tail, mode, crashes>>

\* tail = 0, the first log block; mutant: one too low.
TailBefore == 0
TailFirst == 1

\* The last call out commits; commit() does nothing when nothing was written.
EndLast(t) ==
    /\ At(t, "op") /\ outstanding = 1 /\ ~committing
    /\ outstanding' = 0
    /\ committing' = TRUE
    /\ tail' = TailFirst
    /\ Goto(t, IF lh = <<>> THEN "finish" ELSE "write_log")
    /\ UNCHANGED <<disk, cache, dirty, lh, buf, wrote, mode, crashes>>

-----------------------------------------------------------------------------
(* commit() *)

\* One turn of write_log(): the block is copied from the cache.
WriteLog(t) ==
    /\ At(t, "write_log") /\ tail <= Len(lh)
    /\ lh[tail] \notin Locked
    /\ logData' = [logData EXCEPT ![tail] = Bread(lh[tail])]
    /\ cache' = [cache EXCEPT ![lh[tail]] = Bread(lh[tail])]
    /\ tail' = tail + 1
    /\ UNCHANGED <<home, hd, dirty, lh, outstanding, committing, thread, mode, crashes>>

\* write_head(): "the real commit".
WriteHead(t) ==
    /\ At(t, "write_log") /\ tail > Len(lh)
    /\ hd' = lh
    /\ tail' = TailFirst
    /\ Goto(t, "install")
    /\ UNCHANGED <<home, logData, memory, buf, wrote, mode, crashes>>

\* One turn of install_trans(): bwrite() also clears B_DIRTY.
InstallBlock ==
    /\ tail <= Len(lh) /\ lh[tail] \notin Locked
    /\ home' = [home EXCEPT ![lh[tail]] = logData[tail]]
    /\ cache' = [cache EXCEPT ![lh[tail]] = logData[tail]]
    /\ dirty' = dirty \ {lh[tail]}
    /\ tail' = tail + 1

\* log.lh.n = 0; write_head(): the transaction is erased.  Mutant: the header
\* is erased in memory only.
EraseInMemory == lh' = <<>> /\ UNCHANGED hd
Erase == lh' = <<>> /\ hd' = <<>>

Install(t) ==
    /\ At(t, "install") /\ InstallBlock
    /\ UNCHANGED <<logData, hd, lh, outstanding, committing, thread, mode, crashes>>

EraseLog(t) ==
    /\ At(t, "install") /\ tail > Len(lh)
    /\ Erase
    /\ Goto(t, "finish")
    /\ UNCHANGED <<home, logData, cache, dirty, outstanding, committing,
                   buf, wrote, tail, mode, crashes>>

\* The end of end_op(); mutant: no wakeup.
FinishSilent(t) == Goto(t, "idle")
FinishWakes(t) == WakeAndGoto(t, "idle")

Finish(t) ==
    /\ At(t, "finish")
    /\ committing' = FALSE
    /\ FinishWakes(t)
    /\ UNCHANGED <<disk, cache, dirty, lh, outstanding, buf, wrote, tail, mode, crashes>>

-----------------------------------------------------------------------------
(* The buffer cache around the log *)

\* A system call that only reads brings a block into the cache.
Read(b) ==
    /\ mode = "up" /\ cache[b] = NotCached /\ b \notin Locked
    /\ cache' = [cache EXCEPT ![b] = home[b]]
    /\ UNCHANGED <<disk, dirty, lh, outstanding, committing, thread, tail, mode, crashes>>

\* bget() recycles a buffer that is not in use and not dirty.
Recycle(b) ==
    /\ mode = "up" /\ cache[b] # NotCached /\ b \notin Locked /\ b \notin dirty
    /\ cache' = [cache EXCEPT ![b] = NotCached]
    /\ UNCHANGED <<disk, dirty, lh, outstanding, committing, thread, tail, mode, crashes>>

-----------------------------------------------------------------------------
(* Crash and recover_from_log(), before any system call can run *)

Crash ==
    /\ crashes < MaxCrashes
    /\ crashes' = crashes + 1
    /\ cache' = [b \in Blocks |-> NotCached]
    /\ dirty' = {} /\ lh' = <<>> /\ outstanding' = 0 /\ committing' = FALSE
    /\ pc' = [t \in Threads |-> "idle"]
    /\ buf' = [t \in Threads |-> NoBlock]
    /\ wrote' = [t \in Threads |-> {}]
    /\ tail' = 1 /\ mode' = "read_head"
    /\ UNCHANGED disk

ReadHead ==
    /\ mode = "read_head"
    /\ lh' = hd
    /\ tail' = 1
    /\ mode' = "install"
    /\ UNCHANGED <<disk, cache, dirty, outstanding, committing, thread, crashes>>

RecoverInstall ==
    /\ mode = "install" /\ InstallBlock
    /\ UNCHANGED <<logData, hd, lh, outstanding, committing, thread, mode, crashes>>

RecoverErase ==
    /\ mode = "install" /\ tail > Len(lh)
    /\ Erase
    /\ mode' = "up"
    /\ UNCHANGED <<home, logData, cache, dirty, outstanding, committing, thread, tail, crashes>>

-----------------------------------------------------------------------------
Call(t) == \/ BeginOp(t) \/ BeginSleep(t)
           \/ \E b \in Blocks, v \in Values : Modify(t, b, v)
           \/ LogCheck(t) \/ LogAppend(t)
           \/ EndOp(t) \/ EndLast(t)

CommitStep(t) == WriteLog(t) \/ WriteHead(t) \/ Install(t) \/ EraseLog(t) \/ Finish(t)

Recovery == ReadHead \/ RecoverInstall \/ RecoverErase

Next == \/ \E t \in Threads : Call(t) \/ CommitStep(t)
        \/ \E b \in Blocks : Read(b) \/ Recycle(b)
        \/ Recovery \/ Crash

Spec == Init /\ [][Next]_vars

\* A commit and a recovery go on as long as the machine does.
FairSpec == Spec /\ WF_vars(Recovery) /\ \A t \in Threads : WF_vars(CommitStep(t))

-----------------------------------------------------------------------------
(* Properties *)

\* None of log.c's panics is reached: the log does not overflow, no call writes
\* outside of a transaction, no call ends during a commit.
NoLogPanic == \A t \in Threads : pc[t] # "panic"

\* A begin_op() asleep on &log has somebody left who will wake it: a call that
\* will end, or the thread that commits.
SleeperHasWaker ==
    (\E t \in Threads : pc[t] = "asleep")
        => \E u \in Threads : pc[u] \in CallPCs \cup CommitPCs \cup {"panic"}

\* What a restart would make of block b.
Recovered(b) ==
    IF b \in Recorded(hd) THEN logData[CHOOSE i \in 1..Len(hd) : hd[i] = b] ELSE home[b]

durable == [b \in Blocks |-> Recovered(b)]
view == [b \in Blocks |-> IF mode = "up" THEN Bread(b) ELSE Recovered(b)]
active == {t \in Threads : mode = "up" /\ pc[t] \in CallPCs}

\* When the last end_op() has returned, everything written is on the disk: no
\* update waits in the cache for a commit that nobody will start.
QuiescentDurable ==
    mode = "up" /\ outstanding = 0 /\ ~committing => view = durable /\ dirty = {}

Abstract == INSTANCE TransDisk

\* The log implements crash-atomic groups of system calls, whatever the moment
\* of a crash, also of one during recovery: a restart shows all updates of the
\* calls up to some commit and none of a later one, and no update is lost or
\* undone while the machine is up.
ImplementsTransDisk == Abstract!Spec

\* A committed transaction is erased from the log: commit(), or after a crash
\* recover_from_log(), comes to its end.
CommitEnds == hd # <<>> ~> hd = <<>>
=============================================================================
