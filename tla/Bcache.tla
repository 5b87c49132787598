------------------------------- MODULE Bcache --------------------------------
(***************************************************************************)
(* The buffer cache (bio.c), its sleep locks (sleeplock.c) and the IDE     *)
(* driver (ide.c).  Threads read blocks, change them, write them through   *)
(* or leave them dirty for the log, and release them; install_trans() and  *)
(* write_log() hold two at a time (log.c:75-76, 183-184), as bmap() does   *)
(* over balloc() and itrunc() over bfree() (fs.c).                         *)
(*                                                                         *)
(* Critical sections of bcache.lock, of a sleep lock's own spin lock and   *)
(* of idelock are one step each; sleep() and wakeup() lose no wakeup       *)
(* (module Proc).  The disk finishes a request at any later time and then  *)
(* interrupts.                                                             *)
(***************************************************************************)
EXTENDS Integers, Sequences, FiniteSets

CONSTANTS
    Threads, Blocks, Values,
    Hands,         \* places of a thread for a buffer it holds; the code uses two
    Nested,        \* <<a, b>>: b may be asked for by a thread that holds a
    NBUF,
    NoBlock,       \* a buffer that was never used
    NoThread, Nothing,
    MaxPinned      \* bound: dirty blocks the log leaves in the cache

Holds == Threads \X Hands      \* <<t, h>>: the buffer that thread t has in hand h

ASSUME BcacheAssumption ==
    /\ NBUF \in Nat /\ MaxPinned \in Nat
    /\ IsFiniteSet(Holds)             \* NPROC threads, of two hands
    \* A log block is held over its home block, an indirect block over a bitmap block.
    /\ Nested \subseteq Blocks \X Blocks /\ \A b \in Blocks : <<b, b>> \notin Nested
    /\ NoBlock \notin Blocks /\ NoThread \notin Holds /\ Nothing \notin Values

Bufs == 1..NBUF

VARIABLES
    blockno, refcnt, valid, dirty, data,   \* of each struct buf
    locked,        \* locked[i]: whose buffer it is, with its sleep lock
    lru,           \* the list from bcache.head, most recently used first
    idequeue,
    drive,         \* "idle", "busy" or "done": it has raised its interrupt
    sector,        \* the request the drive has: block, and the data to write
    disk,          \* disk[b]
    pc,
    buf,           \* buf[t]: the buffer t has, 0 when none
    want           \* want[t]: the block asked for with t, a member of Holds

buffers == <<blockno, refcnt, valid, dirty, data, locked, lru>>
device == <<idequeue, drive, sector, disk>>
vars == <<buffers, device, pc, buf, want>>

PCs == {"idle", "lock", "lock_asleep", "read", "read_asleep", "read_woken", "use", "changed",
        "write", "write_asleep", "write_woken", "release", "panic"}

TypeOK ==
    /\ blockno \in [Bufs -> Blocks \cup {NoBlock}]
    /\ refcnt \in [Bufs -> 0..Cardinality(Holds)]
    /\ valid \subseteq Bufs /\ dirty \subseteq Bufs
    /\ data \in [Bufs -> Values \cup {Nothing}]
    /\ locked \in [Bufs -> Holds \cup {NoThread}]
    /\ lru \in [Bufs -> Bufs] /\ \A i \in Bufs : \E k \in Bufs : lru[k] = i
    /\ idequeue \in Seq(Bufs)
    /\ drive \in {"idle", "busy", "done"}
    /\ sector \in [block : Blocks \cup {NoBlock}, data : Values \cup {Nothing}]
    /\ disk \in [Blocks -> Values]
    /\ pc \in [Holds -> PCs]
    /\ buf \in [Holds -> Bufs \cup {0}]
    /\ want \in [Holds -> Blocks \cup {NoBlock}]

NoSector == [block |-> NoBlock, data |-> Nothing]

\* binit(): the last buffer linked in is the first of the list.
Init ==
    /\ blockno = [i \in Bufs |-> NoBlock]
    /\ refcnt = [i \in Bufs |-> 0]
    /\ valid = {} /\ dirty = {}
    /\ data = [i \in Bufs |-> Nothing]
    /\ locked = [i \in Bufs |-> NoThread]
    /\ lru = [k \in Bufs |-> NBUF + 1 - k]
    /\ idequeue = <<>> /\ drive = "idle" /\ sector = NoSector
    /\ disk \in [Blocks -> Values]
    /\ pc = [t \in Holds |-> "idle"]
    /\ buf = [t \in Holds |-> 0]
    /\ want = [t \in Holds |-> NoBlock]

Goto(t, label) == pc' = [pc EXCEPT ![t] = label]

\* wakeup() of those at label asleep on buffer i, with t going on at next.
WakeAndGoto(t, next, i, asleep, awake) ==
    pc' = [u \in Holds |-> IF u = t THEN next
                           ELSE IF pc[u] = asleep /\ buf[u] = i THEN awake ELSE pc[u]]

-----------------------------------------------------------------------------
(* bget(), acquiresleep() *)

Cached(b) == {i \in Bufs : blockno[i] = b}

\* Buffers the second loop may take; mutant: a dirty one too.
ReusableDirty == {k \in Bufs : refcnt[lru[k]] = 0}
Reusable == {k \in Bufs : refcnt[lru[k]] = 0 /\ lru[k] \notin dirty}

\* The other buffers of t's thread.
Siblings(t) == {u \in Holds : u[1] = t[1] /\ u # t}

\* t's thread asks for block b: with its hands empty, or over a block it holds.
Asks(t, b) ==
    /\ pc[t] = "idle"
    /\ \A u \in Siblings(t) : pc[u] # "idle" => <<want[u], b>> \in Nested

\* The first loop: the block is cached, maybe in use by another thread.
BgetHit(t, b) ==
    /\ Asks(t, b) /\ Cached(b) # {}
    /\ LET i == CHOOSE i \in Cached(b) : TRUE IN
        /\ refcnt' = [refcnt EXCEPT ![i] = @ + 1]
        /\ buf' = [buf EXCEPT ![t] = i]
    /\ want' = [want EXCEPT ![t] = b]
    /\ Goto(t, "lock")
    /\ UNCHANGED <<blockno, valid, dirty, data, locked, lru, device>>

\* The second loop, from the end of the list; panic if it finds nothing.
BgetMiss(t, b) ==
    /\ Asks(t, b) /\ Cached(b) = {}
    /\ IF Reusable = {} THEN Goto(t, "panic") /\ UNCHANGED <<blockno, refcnt, valid, dirty, buf, want>>
       ELSE LET i == lru[CHOOSE k \in Reusable : \A j \in Reusable : j <= k] IN
            /\ blockno' = [blockno EXCEPT ![i] = b]
            /\ refcnt' = [refcnt EXCEPT ![i] = 1]
            /\ valid' = valid \ {i} /\ dirty' = dirty \ {i}     \* b->flags = 0
            /\ buf' = [buf EXCEPT ![t] = i]
            /\ want' = [want EXCEPT ![t] = b]
            /\ Goto(t, "lock")
    /\ UNCHANGED <<data, locked, lru, device>>

\* acquiresleep(), and bread()'s test of B_VALID under the lock.
AcquireSleep(t) == LET i == buf[t] IN
    /\ pc[t] = "lock" /\ locked[i] = NoThread
    /\ locked' = [locked EXCEPT ![i] = t]
    /\ Goto(t, IF i \in valid THEN "use" ELSE "read")
    /\ UNCHANGED <<blockno, refcnt, valid, dirty, data, lru, device, buf, want>>

WaitForLock(t) ==
    /\ pc[t] = "lock" /\ locked[buf[t]] # NoThread
    /\ Goto(t, "lock_asleep")
    /\ UNCHANGED <<buffers, device, buf, want>>

-----------------------------------------------------------------------------
(* The user of a locked buffer *)

Modify(t, v) ==
    /\ pc[t] \in {"use", "changed"}
    /\ data' = [data EXCEPT ![buf[t]] = v]
    /\ Goto(t, "changed")
    /\ UNCHANGED <<blockno, refcnt, valid, dirty, locked, lru, device, buf, want>>

\* log_write() keeps a changed buffer in the cache (module Log).
LogWrite(t) ==
    /\ pc[t] = "changed"
    /\ Cardinality(dirty \cup {buf[t]}) <= MaxPinned
    /\ dirty' = dirty \cup {buf[t]}
    /\ Goto(t, "use")
    /\ UNCHANGED <<blockno, refcnt, valid, data, locked, lru, device, buf, want>>

\* bwrite() up to iderw(); install_trans() writes a dirty buffer it did not change.
Bwrite(t) ==
    /\ pc[t] \in {"use", "changed"}
    /\ pc[t] = "use" => buf[t] \in dirty
    /\ dirty' = dirty \cup {buf[t]}
    /\ Goto(t, "write")
    /\ UNCHANGED <<blockno, refcnt, valid, data, locked, lru, device, buf, want>>

\* releasesleep(), the first half of brelse().
ReleaseSleep(t) == LET i == buf[t] IN
    /\ pc[t] = "use"
    /\ IF locked[i] # t THEN Goto(t, "panic") /\ UNCHANGED locked
       ELSE /\ locked' = [locked EXCEPT ![i] = NoThread]
            /\ WakeAndGoto(t, "release", i, "lock_asleep", "lock")
    /\ UNCHANGED <<blockno, refcnt, valid, dirty, data, lru, device, buf, want>>

\* The list with buffer i moved to its front; mutant: it is not unlinked before.
LinkAtFront(i) == [k \in Bufs |-> IF k = 1 THEN i ELSE lru[k - 1]]
MoveToFront(i) == LET at == CHOOSE k \in Bufs : lru[k] = i IN
    [k \in Bufs |-> IF k = 1 THEN i ELSE IF k <= at THEN lru[k - 1] ELSE lru[k]]

\* b->refcnt--; mutant: not when somebody still waits for the buffer.
UnrefLast(i) == IF refcnt[i] = 1 THEN 0 ELSE refcnt[i]
Unref(i) == refcnt[i] - 1

\* The second half, under bcache.lock.
Brelse(t) == LET i == buf[t] IN
    /\ pc[t] = "release"
    /\ refcnt' = [refcnt EXCEPT ![i] = Unref(i)]
    /\ lru' = IF refcnt[i] = 1 THEN MoveToFront(i) ELSE lru
    /\ buf' = [buf EXCEPT ![t] = 0]
    /\ want' = [want EXCEPT ![t] = NoBlock]
    /\ Goto(t, "idle")
    /\ UNCHANGED <<blockno, valid, dirty, data, locked, device>>

-----------------------------------------------------------------------------
(* The disk driver *)

\* idestart(): a write hands its data to the drive now.
Idestart(i) ==
    /\ drive' = "busy"
    /\ sector' = [block |-> blockno[i], data |-> IF i \in dirty THEN data[i] ELSE Nothing]

\* iderw() up to its sleep(): its while loop always sleeps at least once.
Iderw(t, at, asleep) == LET i == buf[t] IN
    /\ pc[t] = at
    /\ IF locked[i] # t \/ (i \in valid /\ i \notin dirty)
       THEN Goto(t, "panic") /\ UNCHANGED <<idequeue, drive, sector>>
       ELSE /\ Goto(t, asleep)
            /\ idequeue' = Append(idequeue, i)
            /\ IF Head(idequeue') = i THEN Idestart(i) ELSE UNCHANGED <<drive, sector>>
    /\ UNCHANGED <<buffers, disk, buf, want>>

\* The while loop after a wakeup.
IderwWoken(t, woken, asleep, done) ==
    /\ pc[t] = woken
    /\ Goto(t, IF buf[t] \in valid \ dirty THEN done ELSE asleep)
    /\ UNCHANGED <<buffers, device, buf, want>>

\* The drive finishes its request and raises the interrupt.
DriveDone ==
    /\ drive = "busy" /\ drive' = "done"
    /\ disk' = IF sector.data = Nothing THEN disk ELSE [disk EXCEPT ![sector.block] = sector.data]
    /\ UNCHANGED <<buffers, idequeue, sector, pc, buf, want>>

\* wakeup(b) at the end of a request.  Mutant: it wakes the next request's buffer.
WakeNext(i) ==
    pc' = [u \in Holds |-> IF Len(idequeue) < 2 \/ buf[u] # idequeue[2] THEN pc[u]
                           ELSE CASE pc[u] = "read_asleep" -> "read_woken"
                                  [] pc[u] = "write_asleep" -> "write_woken"
                                  [] OTHER -> pc[u]]
WakeRequest(i) ==
    pc' = [u \in Holds |-> IF buf[u] # i THEN pc[u]
                           ELSE CASE pc[u] = "read_asleep" -> "read_woken"
                                  [] pc[u] = "write_asleep" -> "write_woken"
                                  [] OTHER -> pc[u]]

\* ideintr(): what the drive has read goes to the first buffer of the queue.
Ideintr == LET i == Head(idequeue) IN
    /\ drive = "done" /\ idequeue # <<>>
    /\ data' = IF i \in dirty THEN data ELSE [data EXCEPT ![i] = disk[sector.block]]
    /\ valid' = valid \cup {i}
    /\ dirty' = dirty \ {i}
    /\ WakeRequest(i)
    /\ idequeue' = Tail(idequeue)
    /\ IF idequeue' = <<>> THEN drive' = "idle" /\ sector' = NoSector
       ELSE Idestart(Head(idequeue'))
    /\ UNCHANGED <<blockno, refcnt, locked, lru, disk, buf, want>>

-----------------------------------------------------------------------------
Step(t) ==
    \/ AcquireSleep(t) \/ WaitForLock(t)
    \/ LogWrite(t) \/ Bwrite(t) \/ ReleaseSleep(t) \/ Brelse(t)
    \/ Iderw(t, "read", "read_asleep") \/ IderwWoken(t, "read_woken", "read_asleep", "use")
    \/ Iderw(t, "write", "write_asleep") \/ IderwWoken(t, "write_woken", "write_asleep", "use")
    \/ \E v \in Values : Modify(t, v)
    \/ \E b \in Blocks : BgetHit(t, b) \/ BgetMiss(t, b)

\* A thread does one thing at a time: meanwhile its other buffers are only held.
InTurn(t) == \A u \in Siblings(t) : pc[u] \in {"idle", "use", "changed"}

NoBcachePanic == \A t \in Holds : pc[t] # "panic"

\* panic() stops the machine for good: nothing follows it.
Next ==
    \/ NoBcachePanic /\ (DriveDone \/ Ideintr \/ \E t \in Holds : InTurn(t) /\ Step(t))
    \/ ~NoBcachePanic /\ UNCHANGED vars

Spec == Init /\ [][Next]_vars

-----------------------------------------------------------------------------
(* Properties *)

\* The buffers in threads' hands and the log's pinned ones may be all there are.
CacheFull == Cardinality({buf[t] : t \in Holds} \ {0}) + MaxPinned >= NBUF

\* brelse(), bwrite() and iderw() never panic: a lock or a buffer's flags are
\* never in a state the callee refuses.  bget() panics (bio.c:92), and only when
\* the buffers that threads hold now leave no more than the log may pin: none is
\* lost by a reference that brelse() forgot or a dirty flag that outlived its
\* writing.  param.h has NBUF = LOGSIZE = 30, of which the log may pin 29.
OnlyBgetPanics == [][\A t \in Holds : pc[t] # "panic" /\ pc'[t] = "panic" =>
                         pc[t] = "idle" /\ CacheFull]_vars

\* Whoever sleeps will be woken: for a sleep lock by another thread, which holds
\* it, for the disk by the interrupt of a request that is queued once, and whose
\* turn comes because the drive is at work on the first of the queue.
SleeperHasWaker ==
    /\ \A t \in Holds : pc[t] = "lock_asleep" =>
           \E u \in Holds : locked[buf[t]] = u /\ u[1] # t[1]
    /\ \A t \in Holds : pc[t] \in {"read_asleep", "write_asleep"} =>
           Cardinality({k \in DOMAIN idequeue : idequeue[k] = buf[t]}) = 1
    /\ idequeue # <<>> <=> drive # "idle"
    /\ idequeue # <<>> => sector.block = blockno[Head(idequeue)]

Using(t) == pc[t] \in {"use", "changed", "write", "write_asleep", "write_woken"}

\* What the cache stands for: who has a block, its latest value, and the blocks
\* whose user is inside bwrite().
users == [b \in Blocks |-> {t \in Holds : Using(t) /\ want[t] = b}]
value == [b \in Blocks |-> IF \E i \in valid : blockno[i] = b
                           THEN data[CHOOSE i \in valid : blockno[i] = b] ELSE disk[b]]
saving == {want[t] : t \in {u \in Holds : pc[u] \in {"write", "write_asleep", "write_woken"}}}

Store == INSTANCE BlockStore WITH Threads <- Holds, durable <- disk

\* Whatever is recycled, queued or waited for meanwhile, a thread that has a
\* block has it alone, sees its latest value, and the disk copy changes only by
\* a bwrite(), which returns after it did.
ImplementsBlockStore == Store!Spec
=============================================================================
