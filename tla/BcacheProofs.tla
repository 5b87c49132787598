--------------------------- MODULE BcacheProofs ----------------------------
(***************************************************************************)
(* The buffer cache and the disk driver, for any number of threads, blocks *)
(* and buffers: no lost wakeup, no panic but bget()'s when threads and log  *)
(* have the buffers, and the block store of module BlockStore.             *)
(***************************************************************************)
EXTENDS Bcache, FiniteSetTheorems, TLAPS

-----------------------------------------------------------------------------
(* The inductive invariant *)

\* Where a thread has the sleep lock of its buffer.
Holder == {"read", "read_asleep", "read_woken", "use", "changed",
           "write", "write_asleep", "write_woken"}

Asleep == {"read_asleep", "write_asleep"}

\* A thread between bget() and brelse() has the buffer of the block it wants.
BufShape == \A t \in Holds :
    IF pc[t] = "idle" THEN buf[t] = 0
    ELSE buf[t] \in Bufs /\ want[t] \in Blocks /\ blockno[buf[t]] = want[t]

\* The two buffers of a thread are of different blocks.
HandShape == \A t \in Holds : \A u \in Siblings(t) :
    pc[t] # "idle" /\ pc[u] # "idle" => want[t] # want[u]

UsersOf(i) == {t \in Holds : buf[t] = i}

\* b->refcnt counts the threads that have the buffer.
RefCounts == \A i \in Bufs : refcnt[i] = Cardinality(UsersOf(i))

\* No block is in two buffers.
CachedOnce == \A i, j \in Bufs : blockno[i] = blockno[j] /\ i # j => blockno[i] = NoBlock

\* The sleep lock's owner is the thread whose program counter says so.
LockShape == \A t \in Holds, i \in Bufs : locked[i] = t <=> buf[t] = i /\ pc[t] \in Holder

\* Whoever sleeps for a sleep lock sleeps for a lock that is taken.
WaitShape == \A t \in Holds : pc[t] = "lock_asleep" => locked[buf[t]] # NoThread

\* B_VALID and B_DIRTY of a buffer whose lock is held.
FlagShape == \A t \in Holds :
    /\ pc[t] \in {"read", "read_asleep"} => buf[t] \notin valid
    /\ pc[t] \in {"use", "changed", "write", "write_asleep"} => buf[t] \in valid
    /\ pc[t] \in {"write", "write_asleep"} => buf[t] \in dirty
    /\ pc[t] \in {"read_woken", "write_woken"} => buf[t] \in valid \ dirty

\* A valid buffer has a block and contents, the disk's unless it is dirty or its
\* user has changed it; only a valid buffer is dirty.
DataShape ==
    /\ dirty \subseteq valid
    /\ \A i \in valid : blockno[i] \in Blocks /\ data[i] \in Values
    /\ \A i \in valid \ dirty :
           (\A t \in Holds : pc[t] = "changed" => buf[t] # i) => data[i] = disk[blockno[i]]

\* idequeue has the buffers of the threads that sleep for the disk, each once.
QueueShape ==
    /\ \A t \in Holds : pc[t] \in Asleep => \E k \in 1..Len(idequeue) : idequeue[k] = buf[t]
    /\ \A k \in 1..Len(idequeue) : \E t \in Holds : pc[t] \in Asleep /\ buf[t] = idequeue[k]
    /\ \A k, m \in 1..Len(idequeue) : idequeue[k] = idequeue[m] => k = m

\* The drive has the request at the head of the queue.
DriveShape ==
    /\ idequeue # <<>> <=> drive # "idle"
    /\ idequeue # <<>> =>
        /\ sector.block = blockno[Head(idequeue)]
        /\ sector.data = IF Head(idequeue) \in dirty THEN data[Head(idequeue)] ELSE Nothing
        /\ drive = "done" /\ sector.data # Nothing => disk[sector.block] = sector.data

\* Buffers that a bwrite() has not yet written.
Saving == {buf[t] : t \in {u \in Holds : pc[u] \in {"write", "write_asleep"}}}

\* All other dirty buffers are the log's.
PinnedBound == Cardinality(dirty \ Saving) <= MaxPinned

IInv == /\ TypeOK /\ NoBcachePanic /\ BufShape /\ HandShape /\ RefCounts /\ CachedOnce /\ LockShape
        /\ WaitShape /\ FlagShape /\ DataShape /\ QueueShape /\ DriveShape /\ PinnedBound

-----------------------------------------------------------------------------
(* Lemmas on the operators *)

\* Those that have a buffer are finitely many, at most all hands of all threads.
LEMMA CountHolds ==
  ASSUME NEW S \in SUBSET Holds
  PROVE  IsFiniteSet(S) /\ Cardinality(S) \in 0..Cardinality(Holds)
<1>1. IsFiniteSet(Holds)
  BY BcacheAssumption
<1>2. Cardinality(Holds) \in Nat
  BY <1>1, FS_CardinalityType
<1>3. IsFiniteSet(S) /\ Cardinality(S) <= Cardinality(Holds)
  BY <1>1, FS_Subset
<1>4. Cardinality(S) \in Nat
  BY <1>3, FS_CardinalityType
<1> QED BY <1>2, <1>3, <1>4

\* b->refcnt++ and b->refcnt-- count one user more or less.
LEMMA CountUser ==
  ASSUME NEW S \in SUBSET Holds, NEW t \in Holds
  PROVE  /\ t \notin S => Cardinality(S \cup {t}) = Cardinality(S) + 1
         /\ t \in S => Cardinality(S \ {t}) = Cardinality(S) - 1
         /\ Cardinality(S) = 0 => S = {}
         /\ Cardinality({t}) = 1 /\ Cardinality({}) = 0
<1>1. IsFiniteSet(S)
  BY CountHolds
<1> QED BY <1>1, FS_AddElement, FS_RemoveElement, FS_EmptySet, FS_Singleton

\* A nonempty set of list positions has a last one, which bget() recycles.
LEMMA LastPosition ==
  ASSUME NEW S \in SUBSET Bufs, S # {}
  PROVE  \E k \in S : \A j \in S : j <= k
<1> DEFINE T == {NBUF - k : k \in S}
<1>0. NBUF \in Nat /\ \A k \in S : k \in Int /\ 1 <= k /\ k <= NBUF
  BY BcacheAssumption DEF Bufs
<1>1. T \subseteq Nat /\ T # {}
  BY <1>0
<1> HIDE DEF T
<1>2. PICK x \in T : \A y \in T : ~(<<y, x>> \in OpToRel(<, Nat))
  BY <1>1, NatLessThanWellFounded, WFMin
<1>3. \A y \in T : ~(y < x)
  BY <1>1, <1>2 DEF OpToRel
<1>4. PICK k \in S : x = NBUF - k
  BY DEF T
<1>5. \A j \in S : NBUF - j \in T
  BY DEF T
<1> QED BY <1>0, <1>3, <1>4, <1>5

\* Relinking a buffer at the front loses no buffer from the list.
LEMMA MoveToFrontKeepsAll ==
  ASSUME TypeOK, NEW i \in Bufs
  PROVE  /\ MoveToFront(i) \in [Bufs -> Bufs]
         /\ \A j \in Bufs : \E k \in Bufs : MoveToFront(i)[k] = j
<1> DEFINE at == CHOOSE k \in Bufs : lru[k] = i
<1>1. at \in Bufs /\ lru[at] = i
  BY DEF TypeOK
<1>2. MoveToFront(i) = [k \in Bufs |-> IF k = 1 THEN i ELSE IF k <= at THEN lru[k - 1] ELSE lru[k]]
  BY DEF MoveToFront
<1> HIDE DEF at
<1>3. lru \in [Bufs -> Bufs] /\ \A j \in Bufs : \E k \in Bufs : lru[k] = j
  BY DEF TypeOK
<1>4. NBUF \in Nat
  BY BcacheAssumption
<1>5. MoveToFront(i) \in [Bufs -> Bufs]
  <2>1. \A k \in Bufs : k # 1 => k - 1 \in Bufs
    BY <1>4 DEF Bufs
  <2>2. \A k \in Bufs : MoveToFront(i)[k] \in Bufs
    BY <1>2, <1>3, <2>1
  <2> QED BY <1>2, <2>2
<1>6. ASSUME NEW j \in Bufs PROVE \E k \in Bufs : MoveToFront(i)[k] = j
  <2>1. PICK k \in Bufs : lru[k] = j
    BY <1>3
  <2>2. CASE k < at
    <3>1. k + 1 \in Bufs /\ k + 1 # 1 /\ k + 1 <= at /\ (k + 1) - 1 = k
      BY <1>1, <1>4, <2>2 DEF Bufs
    <3> QED BY <1>2, <2>1, <3>1
  <2>3. CASE k = at
    BY <1>1, <1>2, <1>4, <2>1, <2>3 DEF Bufs
  <2>4. CASE k > at
    BY <1>1, <1>2, <1>4, <2>1, <2>4 DEF Bufs
  <2> QED BY <1>1, <1>4, <2>2, <2>3, <2>4 DEF Bufs
<1> QED BY <1>5, <1>6

\* idequeue = b->qnext: the rest of the queue, one place further on.
LEMMA TailFacts ==
  ASSUME NEW S, NEW s \in Seq(S), s # <<>>
  PROVE  /\ Tail(s) \in Seq(S) /\ Len(Tail(s)) = Len(s) - 1
         /\ \A k \in 1..Len(Tail(s)) : Tail(s)[k] = s[k + 1] /\ k + 1 \in 1..Len(s)
         /\ Tail(s) # <<>> => Head(Tail(s)) = Tail(s)[1] /\ Len(Tail(s)) > 0
         /\ Tail(s) = <<>> => Len(Tail(s)) = 0
<1> DEFINE q == Tail(s)
<1>1. q \in Seq(S) /\ Len(q) = Len(s) - 1 /\ Len(s) \in Nat /\ Len(s) > 0
  OBVIOUS
<1>2. \A k \in 1..Len(q) : q[k] = s[k + 1]
  OBVIOUS
<1>3. \A k \in 1..Len(q) : k + 1 \in 1..Len(s)
  BY <1>1
<1> HIDE DEF q
<1>4. q # <<>> => Head(q) = q[1] /\ Len(q) > 0
  BY <1>1
<1>5. q = <<>> => Len(q) = 0
  OBVIOUS
<1> QED BY <1>1, <1>2, <1>3, <1>4, <1>5 DEF q

\* Two threads never hold the sleep lock of one buffer.
LEMMA HoldersDiffer ==
  ASSUME IInv, NEW t \in Holds, NEW u \in Holds,
         pc[t] \in Holder, pc[u] \in Holder, buf[t] = buf[u]
  PROVE  t = u
<1>1. buf[t] \in Bufs
  BY DEF IInv, BufShape, Holder
<1> QED BY <1>1 DEF IInv, LockShape

\* A step that adds no dirty buffer but those being written keeps the bound.
LEMMA FewerPinned ==
  ASSUME IInv, dirty' \ Saving' \subseteq dirty \ Saving
  PROVE  PinnedBound'
<1>1. IsFiniteSet(Bufs)
  BY FS_Interval, BcacheAssumption DEF Bufs
<1>2. dirty \ Saving \in SUBSET Bufs
  BY DEF IInv, TypeOK
<1>3. IsFiniteSet(dirty \ Saving)
  BY <1>1, <1>2, FS_Subset
<1>4. Cardinality(dirty' \ Saving') <= Cardinality(dirty \ Saving)
  BY <1>3, FS_Subset
<1>5. IsFiniteSet(dirty' \ Saving')
  BY <1>3, FS_Subset
<1>6. Cardinality(dirty' \ Saving') \in Nat /\ Cardinality(dirty \ Saving) \in Nat
  BY <1>3, <1>5, FS_CardinalityType
<1>7. Cardinality(dirty \ Saving) <= MaxPinned
  BY DEF IInv, PinnedBound
<1> QED BY <1>4, <1>6, <1>7, BcacheAssumption DEF PinnedBound

\* With RefCounts, b->refcnt never exceeds the number of threads.
LEMMA RefType ==
  ASSUME RefCounts', refcnt' \in [Bufs -> Int]
  PROVE  refcnt' \in [Bufs -> 0..Cardinality(Holds)]
<1>1. \A i \in Bufs : refcnt'[i] = Cardinality(UsersOf(i)')
  BY DEF RefCounts
<1>2. \A i \in Bufs : UsersOf(i)' \in SUBSET Holds
  BY DEF UsersOf
<1>3. \A i \in Bufs : refcnt'[i] \in 0..Cardinality(Holds)
  BY <1>1, <1>2, CountHolds
<1> QED BY <1>3

-----------------------------------------------------------------------------
(* Every action keeps the invariant *)

\* binit(): all buffers are free, in the list once, and the disk is idle.
LEMMA InitIInv == Init => IInv
<1> SUFFICES ASSUME Init PROVE IInv
  OBVIOUS
<1>0. NBUF \in Nat
  BY BcacheAssumption
<1>1. RefCounts
  <2> SUFFICES ASSUME NEW i \in Bufs PROVE refcnt[i] = Cardinality(UsersOf(i))
    BY DEF RefCounts
  <2>1. UsersOf(i) = {}
    BY <1>0 DEF Init, UsersOf, Bufs
  <2> QED BY <2>1, FS_EmptySet DEF Init
<1>2. lru \in [Bufs -> Bufs] /\ \A i \in Bufs : \E k \in Bufs : lru[k] = i
  <2>1. \A k \in Bufs : NBUF + 1 - k \in Bufs /\ NBUF + 1 - (NBUF + 1 - k) = k
    BY <1>0 DEF Bufs
  <2>2. lru = [k \in Bufs |-> NBUF + 1 - k]
    BY DEF Init
  <2> QED BY <2>1, <2>2
<1>3. refcnt \in [Bufs -> 0..Cardinality(Holds)]
  BY CountHolds DEF Init
<1>4. TypeOK
  BY <1>2, <1>3 DEF Init, TypeOK, PCs, NoSector
<1>5. NoBcachePanic /\ BufShape /\ HandShape /\ CachedOnce /\ WaitShape /\ FlagShape
  BY DEF Init, NoBcachePanic, BufShape, HandShape, Siblings, CachedOnce, WaitShape, FlagShape
<1>6. LockShape /\ DataShape /\ QueueShape /\ DriveShape
  BY BcacheAssumption DEF Init, LockShape, Holder, DataShape, QueueShape, Asleep, DriveShape
<1>7. PinnedBound
  <2>1. dirty \ Saving = {}
    BY DEF Init
  <2> QED BY <2>1, FS_EmptySet, BcacheAssumption DEF PinnedBound
<1> QED BY <1>1, <1>4, <1>5, <1>6, <1>7 DEF IInv

\* bget() takes a second buffer only for a block other than that of the first.
LEMMA AsksHandShape ==
  ASSUME HandShape, NEW t \in Holds, NEW b \in Blocks, Asks(t, b), want'[t] = b,
         \A u \in Holds : u # t => pc'[u] = pc[u] /\ want'[u] = want[u]
  PROVE  HandShape'
<1>1. \A u \in Siblings(t) : u \in Holds /\ (pc[u] # "idle" => want[u] # b)
  BY BcacheAssumption DEF Asks, Siblings
<1>2. \A u \in Holds, v \in Holds : v \in Siblings(u) <=> u \in Siblings(v)
  BY DEF Siblings
<1> SUFFICES ASSUME NEW u \in Holds, NEW v \in Siblings(u), pc'[u] # "idle", pc'[v] # "idle"
             PROVE  want'[u] # want'[v]
  BY DEF HandShape, Siblings
<1>3. v \in Holds /\ v # u
  BY DEF Siblings
<1>4. CASE u = t
  BY <1>1, <1>3, <1>4
<1>5. CASE v = t
  BY <1>1, <1>2, <1>3, <1>5
<1>6. CASE u # t /\ v # t
  BY <1>3, <1>6 DEF HandShape
<1> QED BY <1>4, <1>5, <1>6

\* The first loop of bget() finds the block: one user more.
LEMMA BgetHitIInv ==
  ASSUME IInv, NEW t \in Holds, NEW b \in Blocks, BgetHit(t, b)
  PROVE  IInv'
<1> USE DEF IInv
<1>0. PICK i \in Bufs :
        /\ blockno[i] = b
        /\ refcnt' = [refcnt EXCEPT ![i] = @ + 1]
        /\ buf' = [buf EXCEPT ![t] = i]
  BY DEF BgetHit, Cached
<1>1. /\ pc[t] = "idle" /\ buf[t] = 0
      /\ want' = [want EXCEPT ![t] = b] /\ pc' = [pc EXCEPT ![t] = "lock"]
      /\ UNCHANGED <<blockno, valid, dirty, data, locked, lru, idequeue, drive, sector, disk>>
  BY DEF BgetHit, Asks, Goto, device, BufShape
<1>2. /\ pc'[t] = "lock" /\ buf'[t] = i /\ want'[t] = b
      /\ \A u \in Holds : u # t => pc'[u] = pc[u] /\ buf'[u] = buf[u] /\ want'[u] = want[u]
  BY <1>0, <1>1 DEF TypeOK
<1>3. RefCounts'
  <2> SUFFICES ASSUME NEW j \in Bufs PROVE refcnt'[j] = Cardinality(UsersOf(j)')
    BY DEF RefCounts
  <2>0. UsersOf(j) \in SUBSET Holds /\ t \notin UsersOf(j)
    BY <1>1 DEF UsersOf, Bufs
  <2>1. CASE j = i
    <3>1. UsersOf(j)' = UsersOf(j) \cup {t}
      BY <1>2, <2>1 DEF UsersOf
    <3>2. refcnt'[j] = refcnt[j] + 1
      BY <1>0, <2>1 DEF TypeOK
    <3> QED BY <2>0, <3>1, <3>2, CountUser DEF RefCounts
  <2>2. CASE j # i
    <3>1. UsersOf(j)' = UsersOf(j)
      BY <1>2, <2>0, <2>2 DEF UsersOf
    <3>2. refcnt'[j] = refcnt[j]
      BY <1>0, <2>2 DEF TypeOK
    <3> QED BY <3>1, <3>2 DEF RefCounts
  <2> QED BY <2>1, <2>2
<1>4. TypeOK'
  <2>1. refcnt' \in [Bufs -> Int]
    BY <1>0 DEF TypeOK
  <2>2. refcnt' \in [Bufs -> 0..Cardinality(Holds)]
    BY <1>3, <2>1, RefType
  <2> QED BY <1>0, <1>1, <2>2 DEF TypeOK, PCs
<1>5. NoBcachePanic' /\ BufShape' /\ CachedOnce' /\ WaitShape' /\ FlagShape'
  BY <1>0, <1>1, <1>2 DEF NoBcachePanic, BufShape, CachedOnce, WaitShape, FlagShape
<1>9. HandShape'
  BY <1>2, AsksHandShape DEF BgetHit
<1>6. LockShape'
  BY <1>1, <1>2 DEF LockShape, Holder, Bufs
<1>7. DataShape' /\ QueueShape' /\ DriveShape'
  BY <1>1, <1>2 DEF DataShape, QueueShape, Asleep, DriveShape
<1>8. PinnedBound'
  <2>1. Saving' = Saving
    BY <1>1, <1>2 DEF Saving
  <2> QED BY <1>1, <2>1, FewerPinned
<1> QED BY <1>3, <1>4, <1>5, <1>6, <1>7, <1>8, <1>9

\* The second loop finds no buffer only if those in threads' hands and those
\* pinned by the log are all there are.
LEMMA NoneReusable ==
  ASSUME IInv, Reusable = {}
  PROVE  CacheFull
<1> USE DEF IInv
<1> DEFINE Held == {buf[u] : u \in Holds} \ {0}
           Pinned == dirty \ Saving
<1>1. \A i \in Bufs : refcnt[i] # 0 \/ i \in dirty
  BY DEF Reusable, TypeOK
<1>2. \A i \in Bufs : refcnt[i] # 0 => i \in Held
  <2> SUFFICES ASSUME NEW i \in Bufs, refcnt[i] # 0 PROVE i \in Held
    OBVIOUS
  <2>1. UsersOf(i) # {}
    BY FS_EmptySet DEF RefCounts
  <2> QED BY <2>1 DEF UsersOf, Bufs
<1>3. Held \subseteq Bufs /\ Saving \subseteq Held
  <2>1. \A u \in Holds : pc[u] \in {"write", "write_asleep"} => buf[u] \in Bufs
    BY DEF BufShape
  <2> QED BY <2>1 DEF TypeOK, Saving, Bufs
<1>4. Bufs = Held \cup Pinned
  BY <1>1, <1>2, <1>3 DEF TypeOK
<1>5. IsFiniteSet(Bufs) /\ Cardinality(Bufs) = NBUF /\ NBUF \in Nat
  BY FS_Interval, BcacheAssumption DEF Bufs
<1>6. IsFiniteSet(Held) /\ Cardinality(Held) \in Nat
  BY <1>3, <1>5, FS_Subset, FS_CardinalityType
<1>7. IsFiniteSet(Pinned) /\ Cardinality(Pinned) <= MaxPinned /\ Cardinality(Pinned) \in Nat
  <2>1. IsFiniteSet(Pinned)
    BY <1>4, <1>5, FS_Subset
  <2> QED BY <2>1, FS_CardinalityType DEF PinnedBound
<1>8. CacheFull <=> Cardinality(Held) + MaxPinned >= NBUF
  BY DEF CacheFull
<1> HIDE DEF Held, Pinned
<1>9. Cardinality(Held \cup Pinned) = Cardinality(Held) + Cardinality(Pinned) - Cardinality(Held \cap Pinned)
  BY <1>6, <1>7, FS_Union
<1>10. Cardinality(Held \cap Pinned) \in Nat
  BY <1>6, FS_Intersection, FS_CardinalityType
<1> QED BY <1>4, <1>5, <1>6, <1>7, <1>8, <1>9, <1>10, BcacheAssumption

\* The second loop takes a buffer that nobody has and that is not dirty.
LEMMA BgetMissIInv ==
  ASSUME IInv, NEW t \in Holds, NEW b \in Blocks, BgetMiss(t, b), Reusable # {}
  PROVE  IInv'
<1> USE DEF IInv
<1>p. pc[t] = "idle" /\ buf[t] = 0 /\ Reusable # {}
  BY DEF BgetMiss, Asks, BufShape
<1>q. PICK k \in Reusable :
        LET i == lru[k] IN
        /\ blockno' = [blockno EXCEPT ![i] = b]
        /\ refcnt' = [refcnt EXCEPT ![i] = 1]
        /\ valid' = valid \ {i} /\ dirty' = dirty \ {i}
        /\ buf' = [buf EXCEPT ![t] = i]
        /\ want' = [want EXCEPT ![t] = b]
        /\ Goto(t, "lock")
  <2>1. Reusable \in SUBSET Bufs
    BY DEF Reusable
  <2>2. \E k \in Reusable : \A j \in Reusable : j <= k
    BY <1>p, <2>1, LastPosition
  <2>3. (CHOOSE k \in Reusable : \A j \in Reusable : j <= k) \in Reusable
    BY <2>2
  <2> QED BY <1>p, <2>3 DEF BgetMiss
<1> DEFINE i == lru[k]
<1>0. i \in Bufs /\ refcnt[i] = 0 /\ i \notin dirty
  BY DEF Reusable, TypeOK
<1>1. /\ blockno' = [blockno EXCEPT ![i] = b]
      /\ refcnt' = [refcnt EXCEPT ![i] = 1]
      /\ valid' = valid \ {i} /\ dirty' = dirty \ {i}
      /\ buf' = [buf EXCEPT ![t] = i]
      /\ want' = [want EXCEPT ![t] = b]
      /\ pc' = [pc EXCEPT ![t] = "lock"]
      /\ UNCHANGED <<data, locked, lru, idequeue, drive, sector, disk>>
  BY <1>q DEF BgetMiss, Goto, device
<1>c. \A j \in Bufs : blockno[j] # b
  BY DEF BgetMiss, Cached
<1> HIDE DEF i
<1>2. /\ pc'[t] = "lock" /\ buf'[t] = i /\ want'[t] = b
      /\ \A u \in Holds : u # t => pc'[u] = pc[u] /\ buf'[u] = buf[u] /\ want'[u] = want[u]
  BY <1>0, <1>1 DEF TypeOK
<1>3. \A u \in Holds : buf[u] # i
  <2>1. Cardinality(UsersOf(i)) = 0 /\ UsersOf(i) \in SUBSET Holds
    BY <1>0 DEF RefCounts, UsersOf
  <2>2. UsersOf(i) = {}
    BY <2>1, CountUser
  <2> QED BY <2>2 DEF UsersOf
<1>4. blockno'[i] = b /\ \A j \in Bufs : j # i => blockno'[j] = blockno[j]
  BY <1>0, <1>1 DEF TypeOK
<1>5. RefCounts'
  <2> SUFFICES ASSUME NEW j \in Bufs PROVE refcnt'[j] = Cardinality(UsersOf(j)')
    BY DEF RefCounts
  <2>1. CASE j = i
    <3>1. UsersOf(j)' = {t}
      BY <1>2, <1>3, <2>1 DEF UsersOf
    <3>2. refcnt'[j] = 1
      BY <1>0, <1>1, <2>1 DEF TypeOK
    <3> QED BY <3>1, <3>2, FS_Singleton
  <2>2. CASE j # i
    <3>1. UsersOf(j)' = UsersOf(j)
      BY <1>2, <1>p, <2>2 DEF UsersOf, Bufs
    <3>2. refcnt'[j] = refcnt[j]
      BY <1>1, <2>2 DEF TypeOK
    <3> QED BY <3>1, <3>2 DEF RefCounts
  <2> QED BY <2>1, <2>2
<1>6. TypeOK'
  <2>0. Cardinality(Holds) \in Nat
    BY BcacheAssumption, FS_CardinalityType
  <2>1. refcnt' \in [Bufs -> Int]
    <3>1. refcnt \in [Bufs -> 0..Cardinality(Holds)]
      BY DEF TypeOK
    <3>2. refcnt \in [Bufs -> Int]
      BY <2>0, <3>1
    <3>3. refcnt' = [refcnt EXCEPT ![i] = 1]
      BY <1>1
    <3>4. \A j \in Bufs : refcnt'[j] \in Int
      BY <3>2, <3>3
    <3> QED BY <3>2, <3>3, <3>4
  <2>2. refcnt' \in [Bufs -> 0..Cardinality(Holds)]
    BY <1>5, <2>1, RefType
  <2> QED BY <1>0, <1>1, <2>2 DEF TypeOK, PCs
<1>7. NoBcachePanic' /\ BufShape' /\ WaitShape'
  BY <1>0, <1>1, <1>2, <1>3, <1>4 DEF NoBcachePanic, BufShape, WaitShape
<1>14. HandShape'
  BY <1>2, AsksHandShape DEF BgetMiss
<1>8. CachedOnce' /\ FlagShape'
  BY <1>0, <1>1, <1>2, <1>3, <1>4, <1>c DEF CachedOnce, FlagShape
<1>9. LockShape'
  BY <1>1, <1>2, <1>3, <1>p DEF LockShape, Holder, Bufs
<1>10. DataShape'
  <2>1. \A j \in valid' : j \in Bufs /\ j # i /\ j \in valid
    <3>1. valid' = valid \ {i}
      BY <1>1
    <3>2. valid \subseteq Bufs
      BY DEF TypeOK
    <3> QED BY <3>1, <3>2
  <2>2. \A u \in Holds : pc'[u] = "changed" <=> pc[u] = "changed"
    BY <1>2, <1>p
  <2>3. \A j \in valid' : blockno'[j] = blockno[j] /\ data'[j] = data[j]
    BY <1>1, <1>4, <2>1
  <2>4. \A u \in Holds : pc[u] = "changed" => u # t /\ buf'[u] = buf[u]
    BY <1>2, <1>p
  <2>5. dirty' \subseteq valid'
    BY <1>1 DEF DataShape
  <2>6. \A j \in valid' \ dirty' : j \in valid \ dirty
    BY <1>1
  <2> QED BY <1>1, <2>1, <2>2, <2>3, <2>4, <2>5, <2>6 DEF DataShape
<1>11. QueueShape'
  BY <1>1, <1>2, <1>p DEF QueueShape, Asleep
<1>12. DriveShape'
  <2>1. idequeue # <<>> => Head(idequeue) \in Bufs /\ Head(idequeue) # i
    <3> SUFFICES ASSUME idequeue # <<>> PROVE Head(idequeue) \in Bufs /\ Head(idequeue) # i
      OBVIOUS
    <3>1. 1 \in 1..Len(idequeue) /\ Head(idequeue) = idequeue[1] /\ idequeue[1] \in Bufs
      BY DEF TypeOK
    <3> QED BY <1>3, <3>1 DEF QueueShape
  <2> QED BY <1>1, <1>4, <2>1 DEF DriveShape
<1>13. PinnedBound'
  <2>1. Saving' = Saving
    BY <1>2, <1>p DEF Saving
  <2>2. dirty' \subseteq dirty
    BY <1>1
  <2> QED BY <2>1, <2>2, FewerPinned
<1> QED BY <1>5, <1>6, <1>7, <1>8, <1>9, <1>10, <1>11, <1>12, <1>13, <1>14

\* Steps that change no buffer count, no block and no list: what is left to
\* show is about locks, flags and the queue.
LEMMA KeepsCounts ==
  ASSUME IInv, UNCHANGED <<refcnt, blockno, buf, want, lru>>,
         \A u \in Holds : pc'[u] \notin {"idle", "panic"} <=> pc[u] \notin {"idle", "panic"},
         \A u \in Holds : pc'[u] # "panic"
  PROVE  NoBcachePanic' /\ BufShape' /\ HandShape' /\ RefCounts' /\ CachedOnce'
<1> USE DEF IInv
<1>1. \A i : UsersOf(i)' = UsersOf(i)
  BY DEF UsersOf
<1>2. RefCounts'
  BY <1>1 DEF RefCounts
<1>3. HandShape'
  <2>1. \A u \in Holds : pc'[u] # "idle" => pc[u] # "idle"
    BY DEF NoBcachePanic
  <2> QED BY <2>1 DEF HandShape, Siblings
<1> QED BY <1>2, <1>3 DEF NoBcachePanic, BufShape, CachedOnce

\* acquiresleep() of a free lock: no sleeper is left behind by that.
LEMMA AcquireSleepIInv ==
  ASSUME IInv, NEW t \in Holds, AcquireSleep(t)
  PROVE  IInv'
<1> USE DEF IInv
<1> DEFINE i == buf[t]
           next == IF i \in valid THEN "use" ELSE "read"
<1>0. i \in Bufs /\ pc[t] = "lock" /\ locked[i] = NoThread
  BY DEF AcquireSleep, BufShape
<1>1. /\ locked' = [locked EXCEPT ![i] = t]
      /\ pc' = [pc EXCEPT ![t] = next]
      /\ UNCHANGED <<blockno, refcnt, valid, dirty, data, lru, idequeue, drive, sector, disk, buf, want>>
  BY DEF AcquireSleep, Goto, device
<1>2. /\ pc'[t] = next /\ next \in {"use", "read"}
      /\ \A u \in Holds : u # t => pc'[u] = pc[u]
  BY <1>1 DEF TypeOK
<1>3. locked'[i] = t /\ \A j \in Bufs : j # i => locked'[j] = locked[j]
  BY <1>0, <1>1 DEF TypeOK
<1>4. TypeOK'
  BY <1>0, <1>1, <1>2 DEF TypeOK, PCs
<1>5. NoBcachePanic' /\ BufShape' /\ HandShape' /\ RefCounts' /\ CachedOnce'
  BY <1>0, <1>1, <1>2, KeepsCounts DEF NoBcachePanic
<1>6. FlagShape'
  BY <1>0, <1>1, <1>2 DEF FlagShape
<1> HIDE DEF next
<1>7. LockShape'
  <2> SUFFICES ASSUME NEW u \in Holds, NEW j \in Bufs
               PROVE  locked'[j] = u <=> buf[u] = j /\ pc'[u] \in Holder
    BY <1>1 DEF LockShape
  <2>0. NoThread # u
    BY BcacheAssumption
  <2>1. CASE j = i
    BY <1>0, <1>1, <1>2, <1>3, <2>0, <2>1 DEF LockShape, Holder
  <2>2. CASE j # i
    BY <1>0, <1>1, <1>2, <1>3, <2>2 DEF LockShape, Holder
  <2> QED BY <2>1, <2>2
<1>8. WaitShape'
  <2>1. t # NoThread
    BY BcacheAssumption
  <2> QED BY <1>0, <1>1, <1>2, <1>3, <2>1 DEF WaitShape, BufShape
<1>9. DataShape' /\ QueueShape' /\ DriveShape'
  BY <1>0, <1>1, <1>2 DEF DataShape, QueueShape, Asleep, DriveShape
<1>10. PinnedBound'
  <2>1. Saving' = Saving
    BY <1>0, <1>1, <1>2 DEF Saving
  <2> QED BY <1>1, <2>1, FewerPinned
<1> QED BY <1>4, <1>5, <1>6, <1>7, <1>8, <1>9, <1>10

\* sleep() in acquiresleep(), while the lock is taken.
LEMMA WaitForLockIInv ==
  ASSUME IInv, NEW t \in Holds, WaitForLock(t)
  PROVE  IInv'
<1> USE DEF IInv
<1>0. pc[t] = "lock" /\ locked[buf[t]] # NoThread
  BY DEF WaitForLock
<1>1. /\ pc' = [pc EXCEPT ![t] = "lock_asleep"]
      /\ UNCHANGED <<blockno, refcnt, valid, dirty, data, locked, lru, idequeue, drive, sector, disk, buf, want>>
  BY DEF WaitForLock, Goto, buffers, device
<1>2. pc'[t] = "lock_asleep" /\ \A u \in Holds : u # t => pc'[u] = pc[u]
  BY <1>1 DEF TypeOK
<1>3. TypeOK'
  BY <1>1 DEF TypeOK, PCs
<1>4. NoBcachePanic' /\ BufShape' /\ HandShape' /\ RefCounts' /\ CachedOnce'
  BY <1>0, <1>1, <1>2, KeepsCounts DEF NoBcachePanic
<1>5. LockShape' /\ WaitShape' /\ FlagShape'
  BY <1>0, <1>1, <1>2 DEF LockShape, Holder, WaitShape, FlagShape
<1>6. DataShape' /\ QueueShape' /\ DriveShape'
  BY <1>0, <1>1, <1>2 DEF DataShape, QueueShape, Asleep, DriveShape
<1>7. PinnedBound'
  <2>1. Saving' = Saving
    BY <1>0, <1>1, <1>2 DEF Saving
  <2> QED BY <1>1, <2>1, FewerPinned
<1> QED BY <1>3, <1>4, <1>5, <1>6, <1>7

\* The buffer of the first request is that of another thread than one at work.
LEMMA HeadOfOther ==
  ASSUME IInv, NEW t \in Holds, pc[t] \in Holder \ Asleep, idequeue # <<>>
  PROVE  Head(idequeue) \in Bufs /\ Head(idequeue) # buf[t]
<1> USE DEF IInv
<1>1. 1 \in 1..Len(idequeue) /\ Head(idequeue) = idequeue[1] /\ idequeue[1] \in Bufs
  BY DEF TypeOK
<1>2. PICK u \in Holds : pc[u] \in Asleep /\ buf[u] = Head(idequeue)
  BY <1>1 DEF QueueShape
<1>3. pc[u] \in Holder /\ u # t
  BY <1>2 DEF Asleep, Holder
<1> QED BY <1>1, <1>2, <1>3, HoldersDiffer

\* The user of a locked buffer changes its contents.
LEMMA ModifyIInv ==
  ASSUME IInv, NEW t \in Holds, NEW v \in Values, Modify(t, v)
  PROVE  IInv'
<1> USE DEF IInv
<1> DEFINE i == buf[t]
<1>0. i \in Bufs /\ pc[t] \in {"use", "changed"} /\ pc[t] \in Holder \ Asleep
  BY DEF Modify, BufShape, Holder, Asleep
<1>1. /\ data' = [data EXCEPT ![i] = v]
      /\ pc' = [pc EXCEPT ![t] = "changed"]
      /\ UNCHANGED <<blockno, refcnt, valid, dirty, locked, lru, idequeue, drive, sector, disk, buf, want>>
  BY DEF Modify, Goto, device
<1>2. pc'[t] = "changed" /\ \A u \in Holds : u # t => pc'[u] = pc[u]
  BY <1>1 DEF TypeOK
<1>3. data'[i] = v /\ \A j \in Bufs : j # i => data'[j] = data[j]
  BY <1>0, <1>1 DEF TypeOK
<1>4. TypeOK'
  BY <1>0, <1>1 DEF TypeOK, PCs
<1>5. NoBcachePanic' /\ BufShape' /\ HandShape' /\ RefCounts' /\ CachedOnce'
  BY <1>0, <1>1, <1>2, KeepsCounts DEF NoBcachePanic
<1>6. LockShape' /\ WaitShape' /\ FlagShape'
  BY <1>0, <1>1, <1>2 DEF LockShape, Holder, WaitShape, FlagShape
<1>7. DataShape'
  <2>1. valid \subseteq Bufs
    BY DEF TypeOK
  <2> QED BY <1>0, <1>1, <1>2, <1>3, <2>1 DEF DataShape
<1>8. QueueShape'
  BY <1>0, <1>1, <1>2 DEF QueueShape, Asleep
<1>9. DriveShape'
  <2>1. idequeue # <<>> => Head(idequeue) \in Bufs /\ Head(idequeue) # i
    BY <1>0, HeadOfOther
  <2> QED BY <1>1, <1>3, <2>1 DEF DriveShape
<1>10. PinnedBound'
  <2>1. Saving' = Saving
    BY <1>0, <1>1, <1>2 DEF Saving
  <2> QED BY <1>1, <2>1, FewerPinned
<1> QED BY <1>4, <1>5, <1>6, <1>7, <1>8, <1>9, <1>10

\* log_write() and bwrite() set B_DIRTY of a buffer that its caller has locked;
\* only the bound on the log's own buffers is left to show.
LEMMA MarkDirty ==
  ASSUME IInv, NEW t \in Holds, NEW next \in {"use", "write"},
         pc[t] \in {"use", "changed"},
         dirty' = dirty \cup {buf[t]}, pc' = [pc EXCEPT ![t] = next],
         UNCHANGED <<blockno, refcnt, valid, data, locked, lru, idequeue, drive, sector, disk, buf, want>>,
         PinnedBound'
  PROVE  IInv'
<1> USE DEF IInv
<1> DEFINE i == buf[t]
<1>0. i \in Bufs /\ i \in valid /\ pc[t] \in Holder \ Asleep
  BY DEF BufShape, FlagShape, Holder, Asleep
<1>1. pc'[t] = next /\ \A u \in Holds : u # t => pc'[u] = pc[u]
  BY DEF TypeOK
<1>2. \A u \in Holds : u # t /\ pc[u] \in Holder => buf[u] # i
  BY <1>0, HoldersDiffer
<1>3. TypeOK'
  BY <1>0 DEF TypeOK, PCs
<1>4. NoBcachePanic' /\ BufShape' /\ HandShape' /\ RefCounts' /\ CachedOnce'
  BY <1>0, <1>1, KeepsCounts DEF NoBcachePanic
<1>5. LockShape' /\ WaitShape'
  BY <1>0, <1>1 DEF LockShape, Holder, WaitShape
<1>6. FlagShape'
  BY <1>0, <1>1, <1>2 DEF FlagShape, Holder
<1>7. DataShape'
  BY <1>0, <1>1 DEF DataShape
<1>8. QueueShape'
  BY <1>0, <1>1 DEF QueueShape, Asleep
<1>9. DriveShape'
  <2>1. idequeue # <<>> => Head(idequeue) # i
    BY <1>0, HeadOfOther
  <2> QED BY <2>1 DEF DriveShape
<1> QED BY <1>3, <1>4, <1>5, <1>6, <1>7, <1>8, <1>9

\* log_write() pins a buffer while the log has room for it.
LEMMA LogWriteIInv ==
  ASSUME IInv, NEW t \in Holds, LogWrite(t)
  PROVE  IInv'
<1>1. /\ pc[t] = "changed" /\ dirty' = dirty \cup {buf[t]} /\ pc' = [pc EXCEPT ![t] = "use"]
      /\ Cardinality(dirty') <= MaxPinned
      /\ UNCHANGED <<blockno, refcnt, valid, data, locked, lru, idequeue, drive, sector, disk, buf, want>>
  BY DEF LogWrite, Goto, device
<1>2. IsFiniteSet(Bufs) /\ buf[t] \in Bufs /\ dirty \subseteq Bufs
  <2>1. IsFiniteSet(Bufs)
    BY FS_Interval, BcacheAssumption DEF Bufs
  <2>2. buf[t] \in Bufs /\ dirty \subseteq Bufs
    BY <1>1 DEF IInv, BufShape, TypeOK
  <2> QED BY <2>1, <2>2
<1>3. dirty' \in SUBSET Bufs
  BY <1>1, <1>2
<1>4. IsFiniteSet(dirty')
  BY <1>2, <1>3, FS_Subset
<1>5. Cardinality(dirty' \ Saving') <= Cardinality(dirty') /\ IsFiniteSet(dirty' \ Saving')
  BY <1>4, FS_Subset
<1>6. Cardinality(dirty' \ Saving') \in Nat /\ Cardinality(dirty') \in Nat
  BY <1>4, <1>5, FS_CardinalityType
<1>7. PinnedBound'
  BY <1>1, <1>5, <1>6, BcacheAssumption DEF PinnedBound
<1> QED BY <1>1, <1>7, MarkDirty

\* bwrite() marks a buffer that is not the log's, or no longer.
LEMMA BwriteIInv ==
  ASSUME IInv, NEW t \in Holds, Bwrite(t)
  PROVE  IInv'
<1>1. /\ pc[t] \in {"use", "changed"} /\ dirty' = dirty \cup {buf[t]} /\ pc' = [pc EXCEPT ![t] = "write"]
      /\ UNCHANGED <<blockno, refcnt, valid, data, locked, lru, idequeue, drive, sector, disk, buf, want>>
  BY DEF Bwrite, Goto, device
<1>2. Saving' = Saving \cup {buf[t]}
  <2>1. pc'[t] = "write" /\ \A u \in Holds : u # t => pc'[u] = pc[u]
    BY <1>1 DEF IInv, TypeOK
  <2> QED BY <1>1, <2>1 DEF Saving
<1>3. PinnedBound'
  BY <1>1, <1>2, FewerPinned
<1> QED BY <1>1, <1>3, MarkDirty

\* releasesleep() wakes every thread that sleeps for the lock it frees.
LEMMA ReleaseSleepIInv ==
  ASSUME IInv, NEW t \in Holds, ReleaseSleep(t)
  PROVE  IInv'
<1> USE DEF IInv
<1> DEFINE i == buf[t]
<1>0. i \in Bufs /\ pc[t] = "use" /\ locked[i] = t
  BY DEF ReleaseSleep, BufShape, LockShape, Holder
<1>1. /\ locked' = [locked EXCEPT ![i] = NoThread]
      /\ WakeAndGoto(t, "release", i, "lock_asleep", "lock")
      /\ UNCHANGED <<blockno, refcnt, valid, dirty, data, lru, idequeue, drive, sector, disk, buf, want>>
  BY <1>0 DEF ReleaseSleep, device
<1>2. /\ pc'[t] = "release"
      /\ \A u \in Holds : u # t =>
            pc'[u] = IF pc[u] = "lock_asleep" /\ buf[u] = i THEN "lock" ELSE pc[u]
      /\ pc' \in [Holds -> PCs]
  BY <1>1 DEF WakeAndGoto, TypeOK, PCs
<1>3. locked'[i] = NoThread /\ \A j \in Bufs : j # i => locked'[j] = locked[j]
  BY <1>0, <1>1 DEF TypeOK
<1>4. TypeOK'
  BY <1>0, <1>1, <1>2 DEF TypeOK
<1>5. NoBcachePanic' /\ BufShape' /\ HandShape' /\ RefCounts' /\ CachedOnce'
  BY <1>0, <1>1, <1>2, KeepsCounts DEF NoBcachePanic
<1>6. LockShape'
  <2> SUFFICES ASSUME NEW u \in Holds, NEW j \in Bufs
               PROVE  locked'[j] = u <=> buf[u] = j /\ pc'[u] \in Holder
    BY <1>1 DEF LockShape
  <2>0. NoThread # u
    BY BcacheAssumption
  <2>1. pc'[u] \in Holder <=> pc[u] \in Holder /\ u # t
    BY <1>0, <1>2 DEF Holder
  <2> QED BY <1>0, <1>3, <2>0, <2>1 DEF LockShape
<1>7. WaitShape'
  BY <1>1, <1>2, <1>3 DEF WaitShape, BufShape
<1>8. FlagShape'
  BY <1>1, <1>2 DEF FlagShape
<1>9. DataShape' /\ QueueShape' /\ DriveShape'
  BY <1>0, <1>1, <1>2 DEF DataShape, QueueShape, Asleep, DriveShape
<1>10. PinnedBound'
  <2>1. Saving' = Saving
    BY <1>0, <1>1, <1>2 DEF Saving
  <2> QED BY <1>1, <2>1, FewerPinned
<1> QED BY <1>4, <1>5, <1>6, <1>7, <1>8, <1>9, <1>10

\* brelse() gives the buffer back; the last user moves it to the front.
LEMMA BrelseIInv ==
  ASSUME IInv, NEW t \in Holds, Brelse(t)
  PROVE  IInv'
<1> USE DEF IInv
<1> DEFINE i == buf[t]
<1>0. i \in Bufs /\ pc[t] = "release"
  BY DEF Brelse, BufShape
<1>1. /\ refcnt' = [refcnt EXCEPT ![i] = refcnt[i] - 1]
      /\ lru' = IF refcnt[i] = 1 THEN MoveToFront(i) ELSE lru
      /\ buf' = [buf EXCEPT ![t] = 0] /\ want' = [want EXCEPT ![t] = NoBlock]
      /\ pc' = [pc EXCEPT ![t] = "idle"]
      /\ UNCHANGED <<blockno, valid, dirty, data, locked, idequeue, drive, sector, disk>>
  BY DEF Brelse, Unref, Goto, device
<1>2. /\ pc'[t] = "idle" /\ buf'[t] = 0
      /\ \A u \in Holds : u # t => pc'[u] = pc[u] /\ buf'[u] = buf[u] /\ want'[u] = want[u]
  BY <1>1 DEF TypeOK
<1>3. RefCounts'
  <2> SUFFICES ASSUME NEW j \in Bufs PROVE refcnt'[j] = Cardinality(UsersOf(j)')
    BY DEF RefCounts
  <2>0. UsersOf(j) \in SUBSET Holds /\ j # 0
    BY DEF UsersOf, Bufs
  <2>1. CASE j = i
    <3>1. UsersOf(j)' = UsersOf(j) \ {t} /\ t \in UsersOf(j)
      BY <1>2, <2>0, <2>1 DEF UsersOf
    <3>2. refcnt'[j] = refcnt[j] - 1
      BY <1>0, <1>1, <2>1 DEF TypeOK
    <3> QED BY <2>0, <3>1, <3>2, CountUser DEF RefCounts
  <2>2. CASE j # i
    <3>1. UsersOf(j)' = UsersOf(j)
      BY <1>2, <2>0, <2>2 DEF UsersOf
    <3>2. refcnt'[j] = refcnt[j]
      BY <1>1, <2>2 DEF TypeOK
    <3> QED BY <3>1, <3>2 DEF RefCounts
  <2> QED BY <2>1, <2>2
<1>4. TypeOK'
  <2>1. refcnt' \in [Bufs -> Int]
    BY <1>0, <1>1 DEF TypeOK
  <2>2. refcnt' \in [Bufs -> 0..Cardinality(Holds)]
    BY <1>3, <2>1, RefType
  <2>3. lru' \in [Bufs -> Bufs] /\ \A j \in Bufs : \E k \in Bufs : lru'[k] = j
    <3>1. lru \in [Bufs -> Bufs] /\ \A j \in Bufs : \E k \in Bufs : lru[k] = j
      BY DEF TypeOK
    <3> QED BY <1>0, <1>1, <3>1, MoveToFrontKeepsAll
  <2> QED BY <1>0, <1>1, <2>2, <2>3 DEF TypeOK, PCs
<1>5. NoBcachePanic' /\ BufShape' /\ CachedOnce' /\ WaitShape' /\ FlagShape'
  BY <1>0, <1>1, <1>2 DEF NoBcachePanic, BufShape, CachedOnce, WaitShape, FlagShape
<1>9. HandShape'
  BY <1>2 DEF HandShape, Siblings
<1>6. LockShape'
  BY <1>0, <1>1, <1>2 DEF LockShape, Holder
<1>7. DataShape' /\ QueueShape' /\ DriveShape'
  BY <1>0, <1>1, <1>2 DEF DataShape, QueueShape, Asleep, DriveShape
<1>8. PinnedBound'
  <2>1. Saving' = Saving
    BY <1>0, <1>1, <1>2 DEF Saving
  <2> QED BY <1>1, <2>1, FewerPinned
<1> QED BY <1>3, <1>4, <1>5, <1>6, <1>7, <1>8, <1>9

\* iderw() puts the request at the end of the queue and starts an idle drive.
LEMMA IderwIInv ==
  ASSUME IInv, NEW t \in Holds, NEW at, NEW asleep,
         <<at, asleep>> \in {<<"read", "read_asleep">>, <<"write", "write_asleep">>},
         Iderw(t, at, asleep)
  PROVE  IInv'
<1> USE DEF IInv
<1> DEFINE i == buf[t]
<1>a. \/ at = "read" /\ asleep = "read_asleep"
      \/ at = "write" /\ asleep = "write_asleep"
  OBVIOUS
<1>0. i \in Bufs /\ pc[t] = at /\ pc[t] \in Holder \ Asleep /\ locked[i] = t
      /\ (i \in valid => i \in dirty)
  BY <1>a DEF Iderw, BufShape, LockShape, Holder, Asleep, FlagShape
<1>1. /\ pc' = [pc EXCEPT ![t] = asleep]
      /\ idequeue' = Append(idequeue, i)
      /\ IF Head(idequeue') = i THEN Idestart(i) ELSE UNCHANGED <<drive, sector>>
      /\ UNCHANGED <<blockno, refcnt, valid, dirty, data, locked, lru, disk, buf, want>>
  BY <1>0 DEF Iderw, Goto, buffers
<1>2. pc'[t] = asleep /\ asleep \in Asleep /\ \A u \in Holds : u # t => pc'[u] = pc[u]
  BY <1>1, <1>a DEF TypeOK, Asleep
<1>q. idequeue \in Seq(Bufs)
  BY DEF TypeOK
<1>3. /\ Len(idequeue') = Len(idequeue) + 1 /\ Len(idequeue) \in Nat
      /\ idequeue'[Len(idequeue) + 1] = i
      /\ \A k \in 1..Len(idequeue) : idequeue'[k] = idequeue[k]
      /\ idequeue' \in Seq(Bufs) /\ idequeue' # <<>> /\ Head(idequeue') = idequeue'[1]
      /\ idequeue # <<>> => Len(idequeue) > 0 /\ Head(idequeue) = idequeue[1]
      /\ idequeue = <<>> => Len(idequeue) = 0
  BY <1>0, <1>1, <1>q
<1>4. idequeue # <<>> => Head(idequeue') = Head(idequeue) /\ Head(idequeue) # i
  BY <1>0, <1>3, HeadOfOther
<1>5. idequeue = <<>> => Head(idequeue') = i
  BY <1>3
<1>6. TypeOK'
  <2>1. drive' \in {"idle", "busy", "done"} /\
        sector' \in [block : Blocks \cup {NoBlock}, data : Values \cup {Nothing}]
    <3>1. CASE Head(idequeue') = i
      <4>1. drive' = "busy" /\ sector' = [block |-> blockno[i], data |-> IF i \in dirty THEN data[i] ELSE Nothing]
        BY <1>1, <3>1 DEF Idestart
      <4>2. blockno[i] \in Blocks \cup {NoBlock} /\ data[i] \in Values \cup {Nothing}
        BY <1>0 DEF TypeOK
      <4> QED BY <4>1, <4>2
    <3>2. CASE Head(idequeue') # i
      BY <1>1, <3>2 DEF TypeOK
    <3> QED BY <3>1, <3>2
  <2>2. pc' \in [Holds -> PCs]
    BY <1>1, <1>a DEF TypeOK, PCs
  <2> QED BY <1>1, <1>3, <2>1, <2>2 DEF TypeOK
<1>7. NoBcachePanic' /\ BufShape' /\ HandShape' /\ RefCounts' /\ CachedOnce'
  BY <1>0, <1>1, <1>2, <1>a, KeepsCounts DEF NoBcachePanic
<1>8. LockShape' /\ WaitShape' /\ FlagShape'
  BY <1>0, <1>1, <1>2, <1>a DEF LockShape, Holder, WaitShape, FlagShape
<1>9. DataShape'
  BY <1>0, <1>1, <1>2, <1>a DEF DataShape
<1>10. QueueShape'
  <2>0. \A k \in 1..Len(idequeue) : idequeue[k] # i
    <3> SUFFICES ASSUME NEW k \in 1..Len(idequeue), idequeue[k] = i PROVE FALSE
      OBVIOUS
    <3>1. PICK u \in Holds : pc[u] \in Asleep /\ buf[u] = i
      BY DEF QueueShape
    <3>2. pc[u] \in Holder /\ u # t
      BY <1>0, <3>1 DEF Asleep, Holder
    <3> QED BY <1>0, <3>1, <3>2, HoldersDiffer
  <2>n. \A k \in 1..Len(idequeue') : k \in 1..Len(idequeue) \/ k = Len(idequeue) + 1
    BY <1>3
  <2>m. 1..Len(idequeue) \subseteq 1..Len(idequeue') /\ Len(idequeue) + 1 \in 1..Len(idequeue')
    BY <1>3
  <2>1. \A u \in Holds : pc'[u] \in Asleep => \E k \in 1..Len(idequeue') : idequeue'[k] = buf[u]
    <3> SUFFICES ASSUME NEW u \in Holds, pc'[u] \in Asleep
                 PROVE  \E k \in 1..Len(idequeue') : idequeue'[k] = buf[u]
      OBVIOUS
    <3>1. CASE u = t
      BY <1>3, <2>m, <3>1
    <3>2. CASE u # t
      <4>1. PICK k \in 1..Len(idequeue) : idequeue[k] = buf[u]
        BY <1>2, <3>2 DEF QueueShape
      <4> QED BY <1>3, <2>m, <4>1
    <3> QED BY <3>1, <3>2
  <2>2. \A k \in 1..Len(idequeue') : \E u \in Holds : pc'[u] \in Asleep /\ buf[u] = idequeue'[k]
    <3> SUFFICES ASSUME NEW k \in 1..Len(idequeue')
                 PROVE  \E u \in Holds : pc'[u] \in Asleep /\ buf[u] = idequeue'[k]
      OBVIOUS
    <3>1. CASE k \in 1..Len(idequeue)
      <4>1. PICK u \in Holds : pc[u] \in Asleep /\ buf[u] = idequeue[k]
        BY <3>1 DEF QueueShape
      <4> QED BY <1>0, <1>2, <1>3, <3>1, <4>1
    <3>2. CASE k = Len(idequeue) + 1
      BY <1>2, <1>3, <3>2
    <3> QED BY <2>n, <3>1, <3>2
  <2>3. \A k, m \in 1..Len(idequeue') : idequeue'[k] = idequeue'[m] => k = m
    BY <1>3, <2>0, <2>n DEF QueueShape
  <2> QED BY <1>1, <2>1, <2>2, <2>3 DEF QueueShape
<1>11. DriveShape'
  <2>1. CASE idequeue = <<>>
    <3>1. /\ drive' = "busy"
          /\ sector' = [block |-> blockno[i], data |-> IF i \in dirty THEN data[i] ELSE Nothing]
      BY <1>1, <1>5, <2>1 DEF Idestart
    <3> QED BY <1>1, <1>3, <1>5, <2>1, <3>1 DEF DriveShape
  <2>2. CASE idequeue # <<>>
    BY <1>1, <1>3, <1>4, <2>2 DEF DriveShape
  <2> QED BY <2>1, <2>2
<1>12. PinnedBound'
  <2>1. \A u \in Holds : pc[u] \in {"write", "write_asleep"} => pc'[u] \in {"write", "write_asleep"}
    BY <1>0, <1>2, <1>a
  <2>2. Saving \subseteq Saving'
    BY <1>1, <2>1 DEF Saving
  <2> QED BY <1>1, <2>2, FewerPinned
<1> QED BY <1>6, <1>7, <1>8, <1>9, <1>10, <1>11, <1>12

\* After the wakeup the buffer is valid and clean: the while loop ends.
LEMMA IderwWokenIInv ==
  ASSUME IInv, NEW t \in Holds, NEW woken \in {"read_woken", "write_woken"},
         NEW asleep, IderwWoken(t, woken, asleep, "use")
  PROVE  IInv'
<1> USE DEF IInv
<1>0. pc[t] = woken /\ buf[t] \in valid \ dirty
  BY DEF IderwWoken, FlagShape
<1>1. /\ pc' = [pc EXCEPT ![t] = "use"]
      /\ UNCHANGED <<blockno, refcnt, valid, dirty, data, locked, lru, idequeue, drive, sector, disk, buf, want>>
  BY <1>0 DEF IderwWoken, Goto, buffers, device
<1>2. pc'[t] = "use" /\ \A u \in Holds : u # t => pc'[u] = pc[u]
  BY <1>1 DEF TypeOK
<1>3. TypeOK'
  BY <1>1 DEF TypeOK, PCs
<1>4. NoBcachePanic' /\ BufShape' /\ HandShape' /\ RefCounts' /\ CachedOnce'
  BY <1>0, <1>1, <1>2, KeepsCounts DEF NoBcachePanic
<1>5. LockShape' /\ WaitShape' /\ FlagShape'
  BY <1>0, <1>1, <1>2 DEF LockShape, Holder, WaitShape, FlagShape
<1>6. DataShape' /\ QueueShape' /\ DriveShape'
  BY <1>0, <1>1, <1>2 DEF DataShape, QueueShape, Asleep, DriveShape
<1>7. PinnedBound'
  <2>1. Saving' = Saving
    BY <1>0, <1>1, <1>2 DEF Saving
  <2> QED BY <1>1, <2>1, FewerPinned
<1> QED BY <1>3, <1>4, <1>5, <1>6, <1>7

\* What the drive works on: the first buffer of the queue, which a sleeping
\* thread holds, dirty exactly if it is being written.
LEMMA HeadFacts ==
  ASSUME IInv, idequeue # <<>>
  PROVE  /\ Len(idequeue) \in Nat /\ Len(idequeue) > 0
         /\ Head(idequeue) = idequeue[1] /\ Head(idequeue) \in Bufs
         /\ blockno[Head(idequeue)] \in Blocks
         /\ \E t \in Holds : /\ buf[t] = Head(idequeue) /\ pc[t] \in Asleep
                             /\ Head(idequeue) \in dirty <=> pc[t] = "write_asleep"
                             /\ Head(idequeue) \in valid <=> pc[t] = "write_asleep"
<1> USE DEF IInv
<1>1. /\ Len(idequeue) \in Nat /\ Len(idequeue) > 0
      /\ Head(idequeue) = idequeue[1] /\ Head(idequeue) \in Bufs
  BY DEF TypeOK
<1>2. PICK t \in Holds : pc[t] \in Asleep /\ buf[t] = Head(idequeue)
  BY <1>1 DEF QueueShape
<1>3. blockno[Head(idequeue)] \in Blocks
  BY <1>2 DEF BufShape, Asleep
<1>4. /\ Head(idequeue) \in dirty <=> pc[t] = "write_asleep"
      /\ Head(idequeue) \in valid <=> pc[t] = "write_asleep"
  BY <1>2 DEF FlagShape, Asleep, DataShape
<1> QED BY <1>1, <1>2, <1>3, <1>4

\* The drive finishes: only the block it was given changes on the disk.
LEMMA DriveDoneIInv == ASSUME IInv, DriveDone PROVE IInv'
<1> USE DEF IInv
<1>0. /\ drive = "busy" /\ drive' = "done" /\ idequeue # <<>>
      /\ disk' = IF sector.data = Nothing THEN disk ELSE [disk EXCEPT ![sector.block] = sector.data]
      /\ UNCHANGED <<blockno, refcnt, valid, dirty, data, locked, lru, idequeue, sector, pc, buf, want>>
  BY DEF DriveDone, DriveShape, buffers
<1> DEFINE h == Head(idequeue)
<1>1. h \in Bufs /\ blockno[h] \in Blocks
  BY <1>0, HeadFacts
<1>2. /\ sector.block = blockno[h]
      /\ sector.data = IF h \in dirty THEN data[h] ELSE Nothing
      /\ sector.data # Nothing => h \in dirty /\ sector.data \in Values
  BY <1>0, <1>1 DEF DriveShape, TypeOK
<1>3. /\ disk' \in [Blocks -> Values]
      /\ sector.data # Nothing => disk'[sector.block] = sector.data
      /\ \A b \in Blocks : (b = sector.block /\ sector.data # Nothing) \/ disk'[b] = disk[b]
  BY <1>0, <1>1, <1>2 DEF TypeOK
<1>4. TypeOK'
  BY <1>0, <1>3 DEF TypeOK
<1>5. NoBcachePanic' /\ BufShape' /\ HandShape' /\ RefCounts' /\ CachedOnce'
  BY <1>0, KeepsCounts DEF NoBcachePanic
<1>6. LockShape' /\ WaitShape' /\ FlagShape' /\ QueueShape'
  BY <1>0 DEF LockShape, WaitShape, FlagShape, QueueShape
<1>7. DataShape'
  <2>1. \A j \in valid \ dirty : j \in Bufs /\ blockno[j] \in Blocks /\ disk'[blockno[j]] = disk[blockno[j]]
    <3> SUFFICES ASSUME NEW j \in valid \ dirty, sector.data # Nothing
                 PROVE  j \in Bufs /\ blockno[j] \in Blocks /\ blockno[j] # sector.block
      BY <1>3 DEF DataShape, TypeOK
    <3>1. j \in Bufs /\ j # h /\ blockno[j] \in Blocks
      BY <1>2 DEF DataShape, TypeOK
    <3>2. blockno[j] # NoBlock
      BY <3>1, BcacheAssumption
    <3> QED BY <1>1, <1>2, <3>1, <3>2 DEF CachedOnce
  <2> QED BY <1>0, <2>1 DEF DataShape
<1>8. DriveShape'
  BY <1>0, <1>2, <1>3 DEF DriveShape
<1>9. PinnedBound'
  <2>1. Saving' = Saving
    BY <1>0 DEF Saving
  <2> QED BY <1>0, <2>1, FewerPinned
<1> QED BY <1>4, <1>5, <1>6, <1>7, <1>8, <1>9

\* ideintr() completes the first request, wakes its thread and starts the next.
LEMMA IdeintrIInv == ASSUME IInv, Ideintr PROVE IInv'
<1> USE DEF IInv
<1> DEFINE h == Head(idequeue)
           q == Tail(idequeue)
<1>0. /\ drive = "done" /\ idequeue # <<>>
      /\ data' = IF h \in dirty THEN data ELSE [data EXCEPT ![h] = disk[sector.block]]
      /\ valid' = valid \cup {h} /\ dirty' = dirty \ {h}
      /\ WakeRequest(h)
      /\ idequeue' = q
      /\ IF q = <<>> THEN drive' = "idle" /\ sector' = NoSector ELSE Idestart(Head(q))
      /\ UNCHANGED <<blockno, refcnt, locked, lru, disk, buf, want>>
  BY DEF Ideintr
<1>1. /\ Len(idequeue) \in Nat /\ Len(idequeue) > 0
      /\ h = idequeue[1] /\ h \in Bufs /\ blockno[h] \in Blocks
  BY <1>0, HeadFacts
<1>2. PICK t \in Holds : buf[t] = h /\ pc[t] \in Asleep /\ (h \in dirty <=> pc[t] = "write_asleep")
  BY <1>0, HeadFacts
<1>3. \A u \in Holds : u # t /\ pc[u] \in Holder => buf[u] # h
  BY <1>2, HoldersDiffer DEF Asleep, Holder
<1>4. /\ pc' \in [Holds -> PCs]
      /\ pc'[t] = IF h \in dirty THEN "write_woken" ELSE "read_woken"
      /\ \A u \in Holds : u # t => pc'[u] = pc[u]
  <2>1. \A u \in Holds : pc'[u] = IF buf[u] # h THEN pc[u]
                                    ELSE CASE pc[u] = "read_asleep" -> "read_woken"
                                           [] pc[u] = "write_asleep" -> "write_woken"
                                           [] OTHER -> pc[u]
    BY <1>0 DEF WakeRequest
  <2>2. \A u \in Holds : u # t => pc'[u] = pc[u]
    BY <1>3, <2>1 DEF Holder
  <2>3. pc'[t] = IF h \in dirty THEN "write_woken" ELSE "read_woken"
    BY <1>2, <2>1 DEF Asleep
  <2>4. pc' = [u \in Holds |-> pc'[u]]
    BY <1>0 DEF WakeRequest
  <2>5. \A u \in Holds : pc'[u] \in PCs
    BY <2>2, <2>3 DEF TypeOK, PCs
  <2> QED BY <2>2, <2>3, <2>4, <2>5
<1>5. /\ sector.block = blockno[h] /\ sector.data = (IF h \in dirty THEN data[h] ELSE Nothing)
      /\ sector.data # Nothing => disk[sector.block] = sector.data
  BY <1>0 DEF DriveShape
<1>6. /\ data'[h] = disk[blockno[h]] /\ data'[h] \in Values
      /\ \A j \in Bufs : j # h => data'[j] = data[j]
      /\ data' \in [Bufs -> Values \cup {Nothing}]
  <2>0. disk[blockno[h]] \in Values
    BY <1>1 DEF TypeOK
  <2>1. CASE h \in dirty
    <3>1. data[h] \in Values /\ data[h] # Nothing
      BY <2>1, BcacheAssumption DEF DataShape
    <3> QED BY <1>0, <1>1, <1>5, <2>0, <2>1, <3>1 DEF TypeOK
  <2>2. CASE h \notin dirty
    BY <1>0, <1>1, <1>5, <2>0, <2>2 DEF TypeOK
  <2> QED BY <2>1, <2>2
<1>s. idequeue \in Seq(Bufs)
  BY DEF TypeOK
<1>7. /\ q \in Seq(Bufs) /\ Len(q) = Len(idequeue) - 1
      /\ \A k \in 1..Len(q) : q[k] = idequeue[k + 1] /\ k + 1 \in 1..Len(idequeue)
      /\ q # <<>> => Head(q) = q[1] /\ Len(q) > 0
      /\ q = <<>> => Len(q) = 0
  BY <1>0, <1>s, TailFacts
<1> HIDE DEF q, h
<1>8. \A k \in 1..Len(q) : q[k] \in Bufs /\ q[k] # h
  BY <1>1, <1>7 DEF QueueShape
<1>9. q # <<>> => Head(q) \in Bufs /\ Head(q) # h
  BY <1>7, <1>8
<1>10. q # <<>> => /\ drive' = "busy"
                   /\ sector' = [block |-> blockno[Head(q)],
                                 data |-> IF Head(q) \in dirty THEN data[Head(q)] ELSE Nothing]
  BY <1>0 DEF Idestart
<1>11. TypeOK'
  <2>1. drive' \in {"idle", "busy", "done"} /\
        sector' \in [block : Blocks \cup {NoBlock}, data : Values \cup {Nothing}]
    <3>1. CASE q = <<>>
      BY <1>0, <3>1 DEF NoSector
    <3>2. CASE q # <<>>
      <4>1. blockno[Head(q)] \in Blocks \cup {NoBlock} /\ data[Head(q)] \in Values \cup {Nothing}
        BY <1>9, <3>2 DEF TypeOK
      <4> QED BY <1>10, <3>2, <4>1
    <3> QED BY <3>1, <3>2
  <2>2. valid' \subseteq Bufs /\ dirty' \subseteq Bufs
    BY <1>0, <1>1 DEF TypeOK
  <2> QED BY <1>0, <1>4, <1>6, <1>7, <2>1, <2>2 DEF TypeOK
<1>12. NoBcachePanic' /\ BufShape' /\ HandShape' /\ RefCounts' /\ CachedOnce'
  BY <1>0, <1>2, <1>4, KeepsCounts DEF NoBcachePanic, Asleep
<1>13. LockShape' /\ WaitShape'
  BY <1>0, <1>2, <1>4 DEF LockShape, Holder, Asleep, WaitShape
<1>14. FlagShape'
  <2> SUFFICES ASSUME NEW u \in Holds
               PROVE  /\ pc'[u] \in {"read", "read_asleep"} => buf[u] \notin valid'
                      /\ pc'[u] \in {"use", "changed", "write", "write_asleep"} => buf[u] \in valid'
                      /\ pc'[u] \in {"write", "write_asleep"} => buf[u] \in dirty'
                      /\ pc'[u] \in {"read_woken", "write_woken"} => buf[u] \in valid' \ dirty'
    BY <1>0 DEF FlagShape
  <2>1. CASE u = t
    BY <1>0, <1>2, <1>4, <2>1
  <2>2. CASE u # t
    BY <1>0, <1>3, <1>4, <2>2 DEF FlagShape, Holder
  <2> QED BY <2>1, <2>2
<1>15. DataShape'
  <2>1. dirty' \subseteq valid'
    BY <1>0 DEF DataShape
  <2>2. \A j \in valid' : blockno'[j] \in Blocks /\ data'[j] \in Values
    BY <1>0, <1>1, <1>6 DEF DataShape, TypeOK
  <2>3. \A j \in valid' \ dirty' : j = h \/ (j # h /\ j \in valid \ dirty /\ j \in Bufs)
    BY <1>0, <1>1 DEF TypeOK
  <2>4. \A u \in Holds : pc'[u] = "changed" <=> pc[u] = "changed"
    BY <1>2, <1>4 DEF Asleep
  <2>5. \A j \in valid' \ dirty' :
           (\A u \in Holds : pc'[u] = "changed" => buf'[u] # j) => data'[j] = disk'[blockno'[j]]
    BY <1>0, <1>6, <2>3, <2>4 DEF DataShape
  <2> QED BY <2>1, <2>2, <2>5 DEF DataShape
<1>16. QueueShape'
  <2>1. \A u \in Holds : pc'[u] \in Asleep => \E k \in 1..Len(q) : q[k] = buf[u]
    <3> SUFFICES ASSUME NEW u \in Holds, pc'[u] \in Asleep
                 PROVE  \E k \in 1..Len(q) : q[k] = buf[u]
      OBVIOUS
    <3>1. u # t /\ pc[u] \in Asleep
      BY <1>4 DEF Asleep
    <3>2. buf[u] # h
      BY <1>3, <3>1 DEF Asleep, Holder
    <3>3. PICK k \in 1..Len(idequeue) : idequeue[k] = buf[u]
      BY <3>1 DEF QueueShape
    <3>4. k - 1 \in 1..Len(q) /\ (k - 1) + 1 = k
      BY <1>1, <1>7, <3>2, <3>3
    <3> QED BY <1>7, <3>3, <3>4
  <2>2. \A k \in 1..Len(q) : \E u \in Holds : pc'[u] \in Asleep /\ buf[u] = q[k]
    <3> SUFFICES ASSUME NEW k \in 1..Len(q) PROVE \E u \in Holds : pc'[u] \in Asleep /\ buf[u] = q[k]
      OBVIOUS
    <3>1. PICK u \in Holds : pc[u] \in Asleep /\ buf[u] = q[k]
      BY <1>7 DEF QueueShape
    <3>2. u # t
      BY <1>2, <1>8, <3>1
    <3> QED BY <1>4, <3>1, <3>2
  <2>3. \A k, m \in 1..Len(q) : q[k] = q[m] => k = m
    <3> SUFFICES ASSUME NEW k \in 1..Len(q), NEW m \in 1..Len(q), q[k] = q[m] PROVE k = m
      OBVIOUS
    <3>1. /\ k + 1 \in 1..Len(idequeue) /\ m + 1 \in 1..Len(idequeue)
          /\ idequeue[k + 1] = idequeue[m + 1]
      BY <1>7
    <3>2. k + 1 = m + 1
      BY <3>1 DEF QueueShape
    <3> QED BY <3>2
  <2> QED BY <1>0, <2>1, <2>2, <2>3 DEF QueueShape
<1>17. DriveShape'
  <2>1. CASE q = <<>>
    BY <1>0, <2>1 DEF DriveShape
  <2>2. CASE q # <<>>
    <3>1. (Head(q) \in dirty' <=> Head(q) \in dirty) /\ data'[Head(q)] = data[Head(q)]
      BY <1>0, <1>6, <1>9, <2>2
    <3>2. sector'.block = blockno[Head(q)] /\
          sector'.data = IF Head(q) \in dirty THEN data[Head(q)] ELSE Nothing
      BY <1>10, <2>2
    <3> QED BY <1>0, <1>10, <2>2, <3>1, <3>2 DEF DriveShape
  <2> QED BY <2>1, <2>2
<1>18. PinnedBound'
  <2>1. \A u \in Holds : u # t /\ pc[u] \in {"write", "write_asleep"} => pc'[u] \in {"write", "write_asleep"}
    BY <1>4
  <2>2. \A j \in Saving : j # h => j \in Saving'
    BY <1>0, <1>2, <2>1 DEF Saving
  <2>3. dirty' \ Saving' \subseteq dirty \ Saving
    BY <1>0, <2>2
  <2> QED BY <2>3, FewerPinned
<1> QED BY <1>11, <1>12, <1>13, <1>14, <1>15, <1>16, <1>17, <1>18

\* A stuttering step changes nothing the invariant reads.
LEMMA StutterIInv == ASSUME IInv, UNCHANGED vars PROVE IInv'
<1>1. UNCHANGED <<blockno, refcnt, valid, dirty, data, locked, lru, idequeue, drive, sector, disk, pc, buf, want>>
  BY DEF vars, buffers, device
<1>2. NoBcachePanic' /\ BufShape' /\ HandShape' /\ RefCounts' /\ CachedOnce'
  BY <1>1, KeepsCounts DEF NoBcachePanic, IInv
<1>3. Saving' = Saving
  BY <1>1 DEF Saving
<1>4. PinnedBound'
  BY <1>1, <1>3, FewerPinned
<1>5. TypeOK'
  BY <1>1 DEF IInv, TypeOK
<1>6. LockShape' /\ WaitShape' /\ FlagShape'
  BY <1>1 DEF IInv, LockShape, WaitShape, FlagShape
<1>7. DataShape' /\ QueueShape' /\ DriveShape'
  BY <1>1 DEF IInv, DataShape, QueueShape, DriveShape
<1> QED BY <1>2, <1>4, <1>5, <1>6, <1>7 DEF IInv

\* No step but the end of bget()'s second loop panics; that one changes nothing
\* but the program counter.
PanicStep(t) == pc[t] = "idle" /\ Reusable = {} /\ pc' = [pc EXCEPT ![t] = "panic"]
                /\ UNCHANGED <<buffers, device, buf, want>>

\* bio.c, sleeplock.c and ide.c keep the invariant, whatever the interleaving,
\* or bget() panics.
LEMMA NextIInv ==
  IInv /\ [Next]_vars => IInv' \/ \E t \in Holds : PanicStep(t)
<1> SUFFICES ASSUME IInv, [Next]_vars PROVE IInv' \/ \E t \in Holds : PanicStep(t)
  OBVIOUS
<1>1. ASSUME NEW t \in Holds, Step(t) PROVE IInv' \/ PanicStep(t)
  <2>1. CASE Iderw(t, "read", "read_asleep")
    BY <2>1, IderwIInv
  <2>2. CASE Iderw(t, "write", "write_asleep")
    BY <2>2, IderwIInv
  <2>3. CASE IderwWoken(t, "read_woken", "read_asleep", "use")
    BY <2>3, IderwWokenIInv
  <2>4. CASE IderwWoken(t, "write_woken", "write_asleep", "use")
    BY <2>4, IderwWokenIInv
  <2>5. ASSUME NEW b \in Blocks, BgetMiss(t, b) PROVE IInv' \/ PanicStep(t)
    <3>1. CASE Reusable = {}
      BY <2>5, <3>1 DEF BgetMiss, Asks, PanicStep, Goto, buffers
    <3> QED BY <2>5, <3>1, BgetMissIInv
  <2> QED BY <1>1, <2>1, <2>2, <2>3, <2>4, <2>5, AcquireSleepIInv, WaitForLockIInv, LogWriteIInv,
             BwriteIInv, ReleaseSleepIInv, BrelseIInv, ModifyIInv, BgetHitIInv DEF Step
<1> QED BY <1>1, DriveDoneIInv, IdeintrIInv, StutterIInv DEF Next

-----------------------------------------------------------------------------
(* Safety *)

\* A waiting thread is woken by the lock's holder, another thread, or by the disk.
LEMMA InvSleeperHasWaker == IInv => SleeperHasWaker
<1> SUFFICES ASSUME IInv PROVE SleeperHasWaker
  OBVIOUS
<1> USE DEF IInv
<1>1. ASSUME NEW t \in Holds, pc[t] = "lock_asleep"
      PROVE  \E u \in Holds : locked[buf[t]] = u /\ u[1] # t[1]
  <2>1. buf[t] \in Bufs /\ blockno[buf[t]] = want[t] /\ locked[buf[t]] # NoThread
    BY <1>1 DEF WaitShape, BufShape
  <2>2. PICK u \in Holds : locked[buf[t]] = u
    BY <2>1 DEF TypeOK
  <2>3. buf[u] = buf[t] /\ pc[u] \in Holder
    BY <2>1, <2>2 DEF LockShape
  <2>4. u # t /\ pc[u] # "idle" /\ want[u] = want[t]
    BY <1>1, <2>1, <2>3 DEF BufShape, Holder
  <2>5. u \notin Siblings(t)
    BY <1>1, <2>4 DEF HandShape
  <2> QED BY <2>2, <2>4, <2>5 DEF Siblings
<1>2. ASSUME NEW t \in Holds, pc[t] \in {"read_asleep", "write_asleep"}
      PROVE  Cardinality({k \in DOMAIN idequeue : idequeue[k] = buf[t]}) = 1
  <2>1. PICK k \in 1..Len(idequeue) : idequeue[k] = buf[t]
    BY <1>2 DEF QueueShape, Asleep
  <2>2. DOMAIN idequeue = 1..Len(idequeue)
    BY DEF TypeOK
  <2>3. {m \in DOMAIN idequeue : idequeue[m] = buf[t]} = {k}
    BY <2>1, <2>2 DEF QueueShape
  <2> QED BY <2>3, FS_Singleton
<1> QED BY <1>1, <1>2 DEF SleeperHasWaker, DriveShape

\* What holds of every state, a panicked one too.
Inv == TypeOK /\ SleeperHasWaker /\ (NoBcachePanic => IInv)

LEMMA NextInv == Inv /\ [Next]_vars => Inv'
<1> SUFFICES ASSUME Inv, [Next]_vars PROVE Inv'
  OBVIOUS
<1>1. CASE UNCHANGED vars
  <2>1. TypeOK' /\ SleeperHasWaker'
    BY <1>1 DEF Inv, vars, buffers, device, TypeOK, SleeperHasWaker
  <2>2. NoBcachePanic' => IInv'
    BY <1>1, StutterIInv DEF Inv, vars, NoBcachePanic
  <2> QED BY <2>1, <2>2 DEF Inv
<1>2. CASE NoBcachePanic /\ IInv'
  BY <1>2, InvSleeperHasWaker, PTL DEF Inv, IInv
<1>3. CASE \E t \in Holds : PanicStep(t)
  <2>1. PICK t \in Holds : PanicStep(t)
    BY <1>3
  <2>2. /\ pc'[t] = "panic" /\ \A u \in Holds : u # t => pc'[u] = pc[u]
        /\ pc[t] = "idle" /\ pc' \in [Holds -> PCs]
        /\ UNCHANGED <<blockno, refcnt, valid, dirty, data, locked, lru, idequeue, drive, sector, disk, buf, want>>
    BY <2>1 DEF PanicStep, Inv, TypeOK, PCs, buffers, device
  <2>3. TypeOK'
    BY <2>2 DEF Inv, TypeOK
  <2>4. SleeperHasWaker'
    BY <2>2 DEF Inv, SleeperHasWaker
  <2>5. ~NoBcachePanic'
    BY <2>2 DEF NoBcachePanic
  <2> QED BY <2>3, <2>4, <2>5 DEF Inv
<1> QED BY <1>1, <1>2, <1>3, NextIInv DEF Inv, Next

LEMMA InitInv == Init => Inv
  BY InitIInv, InvSleeperHasWaker DEF Inv, IInv

\* The buffers, the list and the disk queue keep their types; in particular the
\* list loses no buffer and no reference count exceeds all threads' hands.
THEOREM TypeCorrect == Spec => []TypeOK
<1>1. Inv => TypeOK
  BY DEF Inv
<1> QED BY <1>1, InitInv, NextInv, PTL DEF Spec

\* No caller of brelse(), bwrite() or iderw() meets a panic; bget() panics only
\* when the buffers in threads' hands and the log's pinned ones may be all.
THEOREM OnlyBgetPanicsHolds == Spec => OnlyBgetPanics
<1> DEFINE A == \A t \in Holds : pc[t] # "panic" /\ pc'[t] = "panic" => pc[t] = "idle" /\ CacheFull
<1>1. Inv /\ [Next]_vars => [A]_vars
  <2> SUFFICES ASSUME Inv, Next, NEW t \in Holds, pc[t] # "panic", pc'[t] = "panic"
               PROVE  pc[t] = "idle" /\ CacheFull
    OBVIOUS
  <2>1. NoBcachePanic /\ IInv
    BY DEF Inv, Next, vars
  <2>2. ~IInv'
    BY DEF IInv, NoBcachePanic
  <2>3. PICK u \in Holds : PanicStep(u)
    BY <2>1, <2>2, NextIInv
  <2>4. u = t
    BY <2>1, <2>3 DEF PanicStep, IInv, TypeOK
  <2> QED BY <2>1, <2>3, <2>4, NoneReusable DEF PanicStep
<1> QED BY <1>1, InitInv, NextInv, PTL DEF Spec, OnlyBgetPanics

\* Every sleeper has a waker: the lock's holder, or the disk with its request.
THEOREM SleeperHasWakerHolds == Spec => []SleeperHasWaker
<1>1. Inv => SleeperHasWaker
  BY DEF Inv
<1> QED BY <1>1, InitInv, NextInv, PTL DEF Spec

-----------------------------------------------------------------------------
(* The block store *)

\* Where a thread is inside bwrite().
Saver == {"write", "write_asleep", "write_woken"}

storeVars == <<users, value, disk, saving>>

\* A valid buffer has the value of its block, the only buffer that has it.
LEMMA ValueOfValid ==
  ASSUME IInv, NEW i \in valid
  PROVE  blockno[i] \in Blocks /\ value[blockno[i]] = data[i]
<1> USE DEF IInv
<1>1. blockno[i] \in Blocks /\ blockno[i] # NoBlock /\ valid \subseteq Bufs
  BY BcacheAssumption DEF DataShape, TypeOK
<1> DEFINE c == CHOOSE j \in valid : blockno[j] = blockno[i]
<1>2. c \in valid /\ blockno[c] = blockno[i]
  OBVIOUS
<1>3. c = i
  BY <1>1, <1>2 DEF CachedOnce
<1>4. value[blockno[i]] = data[c]
  BY <1>1 DEF value
<1> QED BY <1>1, <1>3, <1>4

\* So in every state that satisfies the invariant.
ValueShape == \A i \in valid : blockno[i] \in Blocks /\ value[blockno[i]] = data[i]

\* The cache's contents are the store's.
LEMMA InvValueShape == IInv => ValueShape
  BY ValueOfValid DEF ValueShape

\* The value of a block that no valid buffer has is the disk's.
LEMMA ValueOnDisk ==
  ASSUME NEW b \in Blocks, \A i \in valid : blockno[i] # b
  PROVE  value[b] = disk[b]
  BY DEF value

\* Two values of the store are equal if they agree on every block.
LEMMA SameValue ==
  ASSUME \A b \in Blocks : value'[b] = value[b]
  PROVE  value' = value
<1>1. value = [b \in Blocks |-> value[b]] /\ value' = [b \in Blocks |-> value'[b]]
  BY DEF value
<1> QED BY <1>1

\* The value of every block is one of Values.
LEMMA ValueType == ASSUME IInv PROVE value \in [Blocks -> Values]
<1>1. \A b \in Blocks : value[b] \in Values
  <2> SUFFICES ASSUME NEW b \in Blocks PROVE value[b] \in Values
    OBVIOUS
  <2>1. CASE \E i \in valid : blockno[i] = b
    BY <2>1, ValueOfValid DEF IInv, DataShape
  <2>2. CASE ~ \E i \in valid : blockno[i] = b
    BY <2>2, ValueOnDisk DEF IInv, TypeOK
  <2> QED BY <2>1, <2>2
<1>2. value = [b \in Blocks |-> value[b]]
  BY DEF value
<1> QED BY <1>1, <1>2

\* A step in which nobody starts or ends the use of a block, or a bwrite(),
\* shows the store neither.
LEMMA SameUsers ==
  ASSUME \A u \in Holds : /\ Using(u)' <=> Using(u)
                          /\ pc'[u] \in Saver <=> pc[u] \in Saver
                          /\ Using(u) => want'[u] = want[u]
  PROVE  users' = users /\ saving' = saving
<1>1. users' = users
  BY DEF users
<1>2. saving' = saving
  <2>1. \A u \in Holds : pc[u] \in Saver => want'[u] = want[u]
    BY DEF Saver, Using
  <2> QED BY <2>1 DEF saving, Saver
<1> QED BY <1>1, <1>2

\* A thread that uses its buffer is the only user of its block.
LEMMA OnlyUser ==
  ASSUME IInv, NEW t \in Holds, pc[t] \in Holder
  PROVE  /\ want[t] \in Blocks
         /\ users[want[t]] = IF Using(t) THEN {t} ELSE {}
         /\ want[t] \in saving <=> pc[t] \in Saver
<1> USE DEF IInv
<1>1. want[t] \in Blocks /\ buf[t] \in Bufs /\ blockno[buf[t]] = want[t] /\ want[t] # NoBlock
  BY BcacheAssumption DEF BufShape, Holder
<1>2. ASSUME NEW u \in Holds, pc[u] \in Holder, want[u] = want[t] PROVE u = t
  <2>1. buf[u] \in Bufs /\ blockno[buf[u]] = want[t]
    BY <1>2 DEF BufShape, Holder
  <2>2. buf[u] = buf[t]
    BY <1>1, <2>1 DEF CachedOnce
  <2> QED BY <1>2, <2>2, HoldersDiffer
<1>3. \A u \in Holds : Using(u) \/ pc[u] \in Saver => pc[u] \in Holder
  BY DEF Using, Holder, Saver
<1>4. users[want[t]] = {u \in Holds : Using(u) /\ want[u] = want[t]}
  BY <1>1 DEF users
<1>5. want[t] \in saving <=> \E u \in Holds : pc[u] \in Saver /\ want[u] = want[t]
  BY DEF saving, Saver
<1> QED BY <1>1, <1>2, <1>3, <1>4, <1>5

\* binit() shows the store with nobody in it and the disk's values.
LEMMA InitStore == Init => Store!Init
<1> SUFFICES ASSUME Init PROVE Store!Init
  OBVIOUS
<1>1. users = [b \in Blocks |-> {}] /\ saving = {}
  BY DEF Init, users, saving, Using
<1>2. \A b \in Blocks : value[b] = disk[b]
  BY ValueOnDisk DEF Init
<1>3. value = [b \in Blocks |-> value[b]] /\ disk \in [Blocks -> Values]
  BY DEF value, Init
<1>4. value = disk
  BY <1>2, <1>3
<1> QED BY <1>1, <1>3, <1>4 DEF Store!Init

\* Those that only look for a buffer, wait, or queue a request are invisible.
LEMMA InvisibleSteps ==
  ASSUME IInv, NEW t \in Holds,
         \/ WaitForLock(t) \/ LogWrite(t) \/ Brelse(t)
         \/ Iderw(t, "read", "read_asleep") \/ Iderw(t, "write", "write_asleep")
         \/ \E b \in Blocks : BgetHit(t, b)
  PROVE  UNCHANGED storeVars
<1> USE DEF IInv
<1>1. UNCHANGED <<valid, blockno, data, disk>>
  BY DEF WaitForLock, LogWrite, Brelse, Iderw, BgetHit, buffers, device
<1>2. UNCHANGED value
  BY <1>1 DEF value
<1>3. PICK next : pc' = [pc EXCEPT ![t] = next] /\
        \/ pc[t] \in {"lock", "release", "idle", "read"} /\ next \in {"lock_asleep", "idle", "lock", "read_asleep", "panic"}
           /\ \A u \in Holds : u # t => want'[u] = want[u]
        \/ pc[t] = "changed" /\ next = "use" /\ want' = want
        \/ pc[t] = "write" /\ next = "write_asleep" /\ want' = want
  <2>1. CASE WaitForLock(t)
    BY <2>1 DEF WaitForLock, Goto
  <2>2. CASE LogWrite(t)
    BY <2>2 DEF LogWrite, Goto
  <2>3. CASE Brelse(t)
    BY <2>3 DEF Brelse, Goto, TypeOK
  <2>4. CASE Iderw(t, "read", "read_asleep")
    BY <2>4 DEF Iderw, Goto
  <2>5. CASE Iderw(t, "write", "write_asleep")
    <3>1. pc[t] = "write" /\ locked[buf[t]] = t /\ buf[t] \in dirty
      BY <2>5 DEF Iderw, BufShape, LockShape, Holder, FlagShape
    <3> QED BY <2>5, <3>1 DEF Iderw, Goto
  <2>6. CASE \E b \in Blocks : BgetHit(t, b)
    BY <2>6 DEF BgetHit, Asks, Goto, TypeOK
  <2> QED BY <2>1, <2>2, <2>3, <2>4, <2>5, <2>6
<1>4. pc'[t] = next /\ \A u \in Holds : u # t => pc'[u] = pc[u]
  BY <1>3 DEF TypeOK
<1>5. users' = users /\ saving' = saving
  <2>1. \A u \in Holds : u # t => Using(u)' <=> Using(u)
    BY <1>4 DEF Using
  <2>2. (Using(t)' <=> Using(t)) /\ (pc'[t] \in Saver <=> pc[t] \in Saver) /\ (Using(t) => want' = want)
    BY <1>3, <1>4 DEF Using, Saver
  <2> QED BY <1>3, <1>4, <2>1, <2>2, SameUsers
<1> QED BY <1>1, <1>2, <1>5 DEF storeVars

\* bget() recycles a buffer whose contents the disk has: no value is lost.
LEMMA BgetMissStore ==
  ASSUME IInv, ValueShape', NEW t \in Holds, NEW b \in Blocks, BgetMiss(t, b), Reusable # {}
  PROVE  UNCHANGED storeVars
<1> USE DEF IInv
<1>p. pc[t] = "idle" /\ Reusable # {} /\ \A j \in Bufs : blockno[j] # b
  BY DEF BgetMiss, Asks, Cached
<1>q. PICK k \in Reusable :
        /\ blockno' = [blockno EXCEPT ![lru[k]] = b]
        /\ valid' = valid \ {lru[k]}
        /\ want' = [want EXCEPT ![t] = b]
        /\ pc' = [pc EXCEPT ![t] = "lock"]
  <2>1. Reusable \in SUBSET Bufs
    BY DEF Reusable
  <2>2. \E k \in Reusable : \A j \in Reusable : j <= k
    BY <1>p, <2>1, LastPosition
  <2>3. (CHOOSE k \in Reusable : \A j \in Reusable : j <= k) \in Reusable
    BY <2>2
  <2> QED BY <1>p, <2>3 DEF BgetMiss, Goto
<1> DEFINE i == lru[k]
<1>0. i \in Bufs /\ refcnt[i] = 0 /\ i \notin dirty
  BY DEF Reusable, TypeOK
<1>1. UNCHANGED <<data, disk>>
  BY DEF BgetMiss, device
<1> HIDE DEF i
<1>2. \A u \in Holds : buf[u] # i
  <2>1. Cardinality(UsersOf(i)) = 0 /\ UsersOf(i) \in SUBSET Holds
    BY <1>0 DEF RefCounts, UsersOf
  <2>2. UsersOf(i) = {}
    BY <2>1, CountUser
  <2> QED BY <2>2 DEF UsersOf
<1>3. /\ blockno'[i] = b /\ \A j \in Bufs : j # i => blockno'[j] = blockno[j]
      /\ valid' = valid \ {i} /\ valid \subseteq Bufs
  BY <1>q, <1>0 DEF TypeOK, i
<1>4. \A c \in Blocks : value'[c] = value[c]
  <2> SUFFICES ASSUME NEW c \in Blocks PROVE value'[c] = value[c]
    OBVIOUS
  <2>1. CASE \E j \in valid' : blockno'[j] = c
    <3>1. PICK j \in valid' : blockno'[j] = c
      BY <2>1
    <3>2. j \in valid /\ blockno[j] = c /\ data'[j] = data[j]
      BY <1>1, <1>3, <3>1
    <3>3. value[c] = data[j]
      BY <3>2, ValueOfValid
    <3>4. value'[c] = data'[j]
      BY <3>1 DEF ValueShape
    <3> QED BY <3>2, <3>3, <3>4
  <2>2. CASE \A j \in valid' : blockno'[j] # c
    <3>1. value'[c] = disk[c]
      BY <1>1, <2>2 DEF value
    <3>2. CASE \A j \in valid : blockno[j] # c
      BY <3>1, <3>2, ValueOnDisk
    <3>3. CASE \E j \in valid : blockno[j] = c
      <4>1. i \in valid /\ blockno[i] = c
        BY <1>3, <2>2, <3>3
      <4>2. value[c] = data[i]
        BY <4>1, ValueOfValid
      <4>3. data[i] = disk[c]
        BY <1>0, <1>2, <4>1 DEF DataShape
      <4> QED BY <3>1, <4>2, <4>3
    <3> QED BY <3>2, <3>3
  <2> QED BY <2>1, <2>2
<1>5. /\ pc'[t] = "lock"
      /\ \A u \in Holds : u # t => pc'[u] = pc[u] /\ want'[u] = want[u]
  BY <1>q DEF TypeOK
<1>6. users' = users /\ saving' = saving
  BY <1>5, <1>p, SameUsers DEF Using, Saver
<1> QED BY <1>1, <1>4, <1>6, SameValue DEF storeVars

\* acquiresleep() of a valid buffer, or the end of a read: t has the block.
LEMMA BecomesUser ==
  ASSUME IInv, NEW t \in Holds, pc'[t] = "use", ~Using(t), pc[t] # "idle",
         \A u \in Holds : u # t => pc'[u] = pc[u],
         \A u \in Holds \ {t} : pc[u] \in Holder => buf[u] # buf[t],
         UNCHANGED <<blockno, valid, data, disk, want>>
  PROVE  Store!Acquire(t, want[t]) /\ want[t] \in Blocks
<1> USE DEF IInv
<1>1. want[t] \in Blocks /\ buf[t] \in Bufs /\ blockno[buf[t]] = want[t] /\ want[t] # NoBlock
  BY BcacheAssumption DEF BufShape
<1>2. \A u \in Holds : u # t => (Using(u)' <=> Using(u))
  BY DEF Using
<1>3. Using(t)'
  BY DEF Using
<1>4. \A u \in Holds : Using(u) => want[u] # want[t]
  <2> SUFFICES ASSUME NEW u \in Holds, Using(u), want[u] = want[t] PROVE FALSE
    OBVIOUS
  <2>1. pc[u] \in Holder /\ u # t
    BY DEF Using, Holder
  <2>2. buf[u] \in Bufs /\ blockno[buf[u]] = want[t]
    BY <2>1 DEF BufShape, Holder
  <2> QED BY <1>1, <2>1, <2>2 DEF CachedOnce
<1>5. users[want[t]] = {}
  BY <1>1, <1>4 DEF users
<1>6. users' = [users EXCEPT ![want[t]] = {t}]
  <2>1. \A b \in Blocks : {u \in Holds : Using(u)' /\ want'[u] = b} =
             IF b = want[t] THEN {t} ELSE {u \in Holds : Using(u) /\ want[u] = b}
    BY <1>2, <1>3, <1>4
  <2>2. users' = [b \in Blocks |-> {u \in Holds : Using(u)' /\ want'[u] = b}]
    BY DEF users
  <2>3. users = [b \in Blocks |-> {u \in Holds : Using(u) /\ want[u] = b}]
    BY DEF users
  <2> QED BY <1>1, <2>1, <2>2, <2>3
<1>7. saving' = saving
  <2>1. \A u \in Holds : pc'[u] \in Saver <=> pc[u] \in Saver
    BY DEF Using, Saver
  <2> QED BY <2>1 DEF saving, Saver
<1>8. value' = value
  BY DEF value
<1> QED BY <1>1, <1>5, <1>6, <1>7, <1>8 DEF Store!Acquire

\* acquiresleep() is the store's Acquire, unless the block has to be read first.
LEMMA AcquireSleepStore ==
  ASSUME IInv, NEW t \in Holds, AcquireSleep(t)
  PROVE  [Store!Next]_storeVars
<1> USE DEF IInv
<1>0. pc[t] = "lock" /\ locked[buf[t]] = NoThread /\ buf[t] \in Bufs
  BY DEF AcquireSleep, BufShape
<1>1. /\ pc' = [pc EXCEPT ![t] = IF buf[t] \in valid THEN "use" ELSE "read"]
      /\ UNCHANGED <<blockno, valid, data, disk, want>>
  BY DEF AcquireSleep, Goto, device
<1>2. /\ pc'[t] = IF buf[t] \in valid THEN "use" ELSE "read"
      /\ \A u \in Holds : u # t => pc'[u] = pc[u]
  BY <1>1 DEF TypeOK
<1>3. CASE buf[t] \in valid
  <2>1. \A u \in Holds \ {t} : pc[u] \in Holder => buf[u] # buf[t]
    BY <1>0, BcacheAssumption DEF LockShape
  <2>2. Store!Acquire(t, want[t]) /\ want[t] \in Blocks
    BY <1>0, <1>1, <1>2, <1>3, <2>1, BecomesUser DEF Using
  <2> QED BY <2>2 DEF Store!Next
<1>4. CASE buf[t] \notin valid
  <2>1. users' = users /\ saving' = saving
    BY <1>0, <1>1, <1>2, <1>4, SameUsers DEF Using, Saver
  <2> QED BY <1>1, <2>1 DEF storeVars, value
<1> QED BY <1>3, <1>4

\* A read is over: Acquire.  A bwrite() is over: Saved, the disk has the value.
LEMMA IderwWokenStore ==
  ASSUME IInv, NEW t \in Holds, NEW woken \in {"read_woken", "write_woken"},
         NEW asleep, IderwWoken(t, woken, asleep, "use")
  PROVE  [Store!Next]_storeVars
<1> USE DEF IInv
<1>0. pc[t] = woken /\ buf[t] \in valid \ dirty /\ pc[t] \in Holder
  BY DEF IderwWoken, FlagShape, Holder
<1>1. /\ pc' = [pc EXCEPT ![t] = "use"]
      /\ UNCHANGED <<blockno, valid, data, disk, buf, want>>
  BY <1>0 DEF IderwWoken, Goto, buffers, device
<1>2. pc'[t] = "use" /\ \A u \in Holds : u # t => pc'[u] = pc[u]
  BY <1>1 DEF TypeOK
<1>3. CASE woken = "read_woken"
  <2>1. \A u \in Holds \ {t} : pc[u] \in Holder => buf[u] # buf[t]
    BY <1>0, HoldersDiffer
  <2>2. Store!Acquire(t, want[t]) /\ want[t] \in Blocks
    BY <1>0, <1>1, <1>2, <1>3, <2>1, BecomesUser DEF Using
  <2> QED BY <2>2 DEF Store!Next
<1>4. CASE woken = "write_woken"
  <2> DEFINE b == want[t]
  <2>1. b \in Blocks /\ b \in saving /\ blockno[buf[t]] = b
    BY <1>0, <1>4, OnlyUser DEF Saver, BufShape
  <2>2. value[b] = disk[b]
    <3>1. \A u \in Holds : pc[u] = "changed" => buf[u] # buf[t]
      BY <1>0, <1>4, HoldersDiffer DEF Holder
    <3>2. data[buf[t]] = disk[b]
      BY <1>0, <2>1, <3>1 DEF DataShape
    <3> QED BY <1>0, <2>1, <3>2, ValueOfValid
  <2>3. \A u \in Holds : u # t /\ pc[u] \in Saver => want[u] # b
    <3> SUFFICES ASSUME NEW u \in Holds, u # t, pc[u] \in Saver, want[u] = b PROVE FALSE
      OBVIOUS
    <3>1. Using(u) /\ Using(t)
      BY <1>0, <1>4 DEF Using, Saver
    <3>2. u \in users[b] /\ users[b] = {t}
      BY <1>0, <2>1, <3>1, OnlyUser DEF users
    <3> QED BY <3>2
  <2>4. saving' = saving \ {b}
    <3>1. \A u \in Holds : pc'[u] \in Saver <=> pc[u] \in Saver /\ u # t
      BY <1>2 DEF Saver
    <3> QED BY <1>1, <2>3, <3>1 DEF saving, Saver
  <2>5. users' = users
    <3>1. \A u \in Holds : Using(u)' <=> Using(u)
      BY <1>0, <1>2, <1>4 DEF Using
    <3> QED BY <1>1, <3>1 DEF users
  <2>6. value' = value
    BY <1>1 DEF value
  <2>7. Store!Saved(b)
    BY <1>1, <2>1, <2>2, <2>4, <2>5, <2>6 DEF Store!Saved
  <2> QED BY <2>1, <2>7 DEF Store!Next
<1> QED BY <1>3, <1>4

\* The user of a block changes its value.
LEMMA ModifyStore ==
  ASSUME IInv, ValueShape', NEW t \in Holds, NEW v \in Values, Modify(t, v)
  PROVE  Store!Next
<1> USE DEF IInv
<1> DEFINE b == want[t]
           i == buf[t]
<1>0. /\ pc[t] \in {"use", "changed"} /\ pc[t] \in Holder /\ Using(t) /\ pc[t] \notin Saver
      /\ i \in Bufs /\ i \in valid /\ blockno[i] = b
  BY DEF Modify, Holder, Using, Saver, FlagShape, BufShape
<1>1. /\ data' = [data EXCEPT ![i] = v] /\ pc' = [pc EXCEPT ![t] = "changed"]
      /\ UNCHANGED <<blockno, valid, disk, want>>
  BY DEF Modify, Goto, device
<1>2. pc'[t] = "changed" /\ \A u \in Holds : u # t => pc'[u] = pc[u]
  BY <1>1 DEF TypeOK
<1>3. b \in Blocks /\ users[b] = {t} /\ b \notin saving
  BY <1>0, OnlyUser
<1>4. users' = users /\ saving' = saving
  BY <1>0, <1>1, <1>2, SameUsers DEF Using, Saver
<1>5. /\ data'[i] = v /\ \A j \in Bufs : j # i => data'[j] = data[j]
      /\ valid \subseteq Bufs
  BY <1>0, <1>1 DEF TypeOK
<1>6. value'[b] = v
  BY <1>0, <1>1, <1>5 DEF ValueShape
<1>7. \A c \in Blocks : c # b => value'[c] = value[c]
  <2> SUFFICES ASSUME NEW c \in Blocks, c # b PROVE value'[c] = value[c]
    OBVIOUS
  <2>1. CASE \E j \in valid : blockno[j] = c
    <3>1. PICK j \in valid : blockno[j] = c
      BY <2>1
    <3>2. value[c] = data[j] /\ value'[c] = data'[j]
      BY <1>1, <3>1, ValueOfValid DEF ValueShape
    <3> QED BY <1>0, <1>5, <3>1, <3>2
  <2>2. CASE \A j \in valid : blockno[j] # c
    BY <1>1, <2>2 DEF value
  <2> QED BY <2>1, <2>2
<1>8. value' = [value EXCEPT ![b] = v]
  <2>1. value' = [c \in Blocks |-> value'[c]] /\ value = [c \in Blocks |-> value[c]]
    BY DEF value
  <2> QED BY <1>3, <1>6, <1>7, <2>1
<1>9. Store!Change(t, b, v)
  BY <1>1, <1>3, <1>4, <1>8 DEF Store!Change
<1> QED BY <1>3, <1>9 DEF Store!Next

\* bwrite() begins to save the block of its caller.
LEMMA BwriteStore ==
  ASSUME IInv, NEW t \in Holds, Bwrite(t)
  PROVE  Store!Next
<1> USE DEF IInv
<1> DEFINE b == want[t]
<1>0. pc[t] \in {"use", "changed"} /\ pc[t] \in Holder /\ Using(t)
  BY DEF Bwrite, Holder, Using
<1>1. pc' = [pc EXCEPT ![t] = "write"] /\ UNCHANGED <<blockno, valid, data, disk, want>>
  BY DEF Bwrite, Goto, device
<1>2. pc'[t] = "write" /\ \A u \in Holds : u # t => pc'[u] = pc[u]
  BY <1>1 DEF TypeOK
<1>3. b \in Blocks /\ users[b] = {t}
  BY <1>0, OnlyUser
<1>4. users' = users
  <2>1. \A u \in Holds : Using(u)' <=> Using(u)
    BY <1>0, <1>2 DEF Using
  <2> QED BY <1>1, <2>1 DEF users
<1>5. saving' = saving \cup {b}
  <2>1. \A u \in Holds : pc'[u] \in Saver <=> pc[u] \in Saver \/ u = t
    BY <1>2 DEF Saver
  <2> QED BY <1>1, <2>1 DEF saving, Saver
<1>6. value' = value
  BY <1>1 DEF value
<1>7. Store!Save(t, b)
  BY <1>1, <1>3, <1>4, <1>5, <1>6 DEF Store!Save
<1> QED BY <1>3, <1>7 DEF Store!Next

\* releasesleep() ends the use of a block.
LEMMA ReleaseSleepStore ==
  ASSUME IInv, NEW t \in Holds, ReleaseSleep(t)
  PROVE  Store!Next
<1> USE DEF IInv
<1> DEFINE b == want[t]
<1>0. /\ pc[t] = "use" /\ pc[t] \in Holder /\ Using(t) /\ pc[t] \notin Saver
      /\ buf[t] \in Bufs /\ locked[buf[t]] = t
  BY DEF ReleaseSleep, Holder, Using, Saver, BufShape, LockShape
<1>1. /\ WakeAndGoto(t, "release", buf[t], "lock_asleep", "lock")
      /\ UNCHANGED <<blockno, valid, data, disk, want>>
  BY <1>0 DEF ReleaseSleep, device
<1>2. /\ pc'[t] = "release"
      /\ \A u \in Holds : u # t =>
            pc'[u] = IF pc[u] = "lock_asleep" /\ buf[u] = buf[t] THEN "lock" ELSE pc[u]
  BY <1>1 DEF WakeAndGoto
<1>3. b \in Blocks /\ users[b] = {t} /\ b \notin saving
  BY <1>0, OnlyUser
<1>4. \A u \in Holds : (Using(u)' <=> Using(u) /\ u # t) /\ (pc'[u] \in Saver <=> pc[u] \in Saver)
  BY <1>0, <1>2 DEF Using, Saver
<1>5. users' = [users EXCEPT ![b] = {}]
  <2>1. users' = [c \in Blocks |-> {u \in Holds : Using(u)' /\ want'[u] = c}]
    BY DEF users
  <2>2. users = [c \in Blocks |-> {u \in Holds : Using(u) /\ want[u] = c}]
    BY DEF users
  <2>3. \A c \in Blocks : {u \in Holds : Using(u)' /\ want'[u] = c} =
             IF c = b THEN {} ELSE {u \in Holds : Using(u) /\ want[u] = c}
    <3>1. {u \in Holds : Using(u) /\ want[u] = b} = {t}
      BY <1>3, <2>2
    <3> QED BY <1>1, <1>4, <3>1
  <2> QED BY <1>3, <2>1, <2>2, <2>3
<1>6. saving' = saving
  BY <1>1, <1>4 DEF saving, Saver
<1>7. value' = value
  BY <1>1 DEF value
<1>8. Store!Release(t, b)
  BY <1>1, <1>3, <1>5, <1>6, <1>7 DEF Store!Release
<1> QED BY <1>3, <1>8 DEF Store!Next

\* The disk copy of a block changes only while its user saves it, to its value.
LEMMA DriveDoneStore ==
  ASSUME IInv, DriveDone
  PROVE  [Store!Next]_storeVars
<1> USE DEF IInv
<1>0. /\ idequeue # <<>>
      /\ disk' = IF sector.data = Nothing THEN disk ELSE [disk EXCEPT ![sector.block] = sector.data]
      /\ UNCHANGED <<blockno, valid, dirty, data, pc, buf, want>>
  BY DEF DriveDone, DriveShape, buffers
<1> DEFINE h == Head(idequeue)
           b == blockno[h]
<1>1. users' = users /\ saving' = saving
  BY <1>0 DEF users, saving, Using
<1>2. CASE sector.data = Nothing
  BY <1>0, <1>1, <1>2 DEF storeVars, value
<1>3. CASE sector.data # Nothing
  <2>1. h \in dirty /\ sector.data = data[h] /\ sector.block = b
    BY <1>0, <1>3 DEF DriveShape
  <2>2. PICK t \in Holds : buf[t] = h /\ pc[t] = "write_asleep"
    BY <1>0, <2>1, HeadFacts
  <2>3. b = want[t] /\ b \in Blocks /\ b \in saving
    BY <2>2, OnlyUser DEF BufShape, Holder, Saver
  <2>4. h \in valid /\ value[b] = data[h]
    BY <2>1, ValueOfValid DEF DataShape
  <2>5. disk' = [disk EXCEPT ![b] = value[b]]
    BY <1>0, <1>3, <2>1, <2>4
  <2>6. \A c \in Blocks : value'[c] = value[c]
    <3> SUFFICES ASSUME NEW c \in Blocks PROVE value'[c] = value[c]
      OBVIOUS
    <3>1. CASE \E j \in valid : blockno[j] = c
      BY <1>0, <3>1 DEF value
    <3>2. CASE \A j \in valid : blockno[j] # c
      <4>1. c # b
        BY <2>4, <3>2
      <4>2. disk'[c] = disk[c]
        BY <2>5, <4>1 DEF TypeOK
      <4> QED BY <1>0, <3>2, <4>2 DEF value
    <3> QED BY <3>1, <3>2
  <2>7. Store!Persist(b)
    BY <1>1, <2>3, <2>5, <2>6, SameValue DEF Store!Persist
  <2> QED BY <2>3, <2>7 DEF Store!Next
<1> QED BY <1>2, <1>3

\* ideintr() gives a read buffer the value that the disk has.
LEMMA IdeintrStore ==
  ASSUME IInv, ValueShape', Ideintr
  PROVE  UNCHANGED storeVars
<1> USE DEF IInv
<1> DEFINE h == Head(idequeue)
<1>0. /\ idequeue # <<>> /\ valid' = valid \cup {h} /\ WakeRequest(h)
      /\ data' = IF h \in dirty THEN data ELSE [data EXCEPT ![h] = disk[sector.block]]
      /\ UNCHANGED <<blockno, disk, buf, want>>
  BY DEF Ideintr
<1>1. h \in Bufs /\ (h \in valid <=> h \in dirty) /\ blockno[h] \in Blocks
  BY <1>0, HeadFacts
<1>2. sector.block = blockno[h]
  BY <1>0 DEF DriveShape
<1>3. \A u \in Holds : (Using(u)' <=> Using(u)) /\ (pc'[u] \in Saver <=> pc[u] \in Saver)
  <2>1. \A u \in Holds : \/ pc'[u] = pc[u]
                         \/ pc[u] = "read_asleep" /\ pc'[u] = "read_woken"
                         \/ pc[u] = "write_asleep" /\ pc'[u] = "write_woken"
    BY <1>0 DEF WakeRequest
  <2> QED BY <2>1 DEF Using, Saver
<1>4. users' = users /\ saving' = saving
  BY <1>0, <1>3, SameUsers
<1>5. \A j \in valid' : \/ j \in valid /\ data'[j] = data[j]
                        \/ j = h /\ h \notin valid /\ data'[j] = disk[blockno[h]]
  <2>1. data \in [Bufs -> Values \cup {Nothing}] /\ valid \subseteq Bufs
    BY DEF TypeOK
  <2>2. CASE h \in dirty
    BY <1>0, <1>1, <2>2
  <2>3. CASE h \notin dirty
    BY <1>0, <1>1, <1>2, <2>1, <2>3
  <2> QED BY <2>2, <2>3
<1>6. \A c \in Blocks : value'[c] = value[c]
  <2> SUFFICES ASSUME NEW c \in Blocks PROVE value'[c] = value[c]
    OBVIOUS
  <2>1. CASE \E j \in valid : blockno[j] = c
    <3>1. PICK j \in valid : blockno[j] = c
      BY <2>1
    <3>2. value[c] = data[j]
      BY <3>1, ValueOfValid
    <3>3. value'[c] = data'[j] /\ data'[j] = data[j]
      BY <1>0, <1>5, <3>1 DEF ValueShape
    <3> QED BY <3>2, <3>3
  <2>2. CASE \A j \in valid : blockno[j] # c
    <3>1. value[c] = disk[c]
      BY <2>2, ValueOnDisk
    <3>2. CASE c = blockno[h]
      <4>1. h \in valid' /\ data'[h] = disk[c] /\ blockno'[h] = c
        BY <1>0, <1>5, <2>2, <3>2
      <4> QED BY <3>1, <4>1 DEF ValueShape
    <3>3. CASE c # blockno[h]
      <4>1. \A j \in valid' : blockno'[j] # c
        BY <1>0, <2>2, <3>3
      <4>2. value'[c] = disk'[c]
        BY <4>1 DEF value
      <4> QED BY <1>0, <3>1, <4>2
    <3> QED BY <3>2, <3>3
  <2> QED BY <2>1, <2>2
<1> QED BY <1>0, <1>4, <1>6, SameValue DEF storeVars

\* bget()'s panic shows the store nothing.
LEMMA PanicStore ==
  ASSUME TypeOK, NEW t \in Holds, PanicStep(t)
  PROVE  UNCHANGED storeVars
<1>1. /\ pc'[t] = "panic" /\ pc[t] = "idle" /\ \A u \in Holds : u # t => pc'[u] = pc[u]
      /\ UNCHANGED <<valid, blockno, data, disk, want>>
  BY DEF PanicStep, TypeOK, buffers, device
<1>2. users' = users /\ saving' = saving
  BY <1>1, SameUsers DEF Using, Saver
<1> QED BY <1>1, <1>2 DEF storeVars, value

\* Every step of the cache and the disk is a step of the block store, or none.
LEMMA NextStore ==
  Inv /\ Inv' /\ [Next]_vars => [Store!Next]_storeVars
<1> SUFFICES ASSUME Inv, Inv', [Next]_vars PROVE [Store!Next]_storeVars
  OBVIOUS
<1>1. CASE UNCHANGED vars
  BY <1>1 DEF vars, buffers, device, storeVars, users, value, saving, Using
<1>2. CASE \E t \in Holds : PanicStep(t)
  BY <1>2, PanicStore DEF Inv
<1>3. CASE Next /\ NoBcachePanic /\ IInv'
  <2>0. IInv /\ ValueShape'
    BY <1>3, InvValueShape, PTL DEF Inv
  <2>1. ASSUME NEW t \in Holds, Step(t) PROVE [Store!Next]_storeVars
    <3>1. CASE \/ WaitForLock(t) \/ LogWrite(t) \/ Brelse(t)
               \/ Iderw(t, "read", "read_asleep") \/ Iderw(t, "write", "write_asleep")
               \/ \E b \in Blocks : BgetHit(t, b)
      BY <2>0, <3>1, InvisibleSteps
    <3>2. CASE \E b \in Blocks : BgetMiss(t, b)
      <4>1. PICK b \in Blocks : BgetMiss(t, b)
        BY <3>2
      <4>2. Reusable # {}
        <5> SUFFICES ASSUME Reusable = {} PROVE FALSE
          OBVIOUS
        <5>1. pc'[t] = "panic"
          BY <2>0, <4>1 DEF BgetMiss, Goto, IInv, TypeOK
        <5> QED BY <1>3, <5>1 DEF IInv, NoBcachePanic
      <4> QED BY <2>0, <4>1, <4>2, BgetMissStore
    <3>3. CASE IderwWoken(t, "read_woken", "read_asleep", "use")
      BY <2>0, <3>3, IderwWokenStore
    <3>4. CASE IderwWoken(t, "write_woken", "write_asleep", "use")
      BY <2>0, <3>4, IderwWokenStore
    <3>5. CASE AcquireSleep(t)
      BY <2>0, <3>5, AcquireSleepStore
    <3>6. CASE Bwrite(t) \/ ReleaseSleep(t) \/ \E v \in Values : Modify(t, v)
      BY <2>0, <3>6, BwriteStore, ReleaseSleepStore, ModifyStore
    <3> QED BY <2>1, <3>1, <3>2, <3>3, <3>4, <3>5, <3>6 DEF Step
  <2> QED BY <1>3, <2>0, <2>1, DriveDoneStore, IdeintrStore DEF Next
<1> QED BY <1>1, <1>2, <1>3, NextIInv DEF Inv, Next

\* A thread that has a block has it alone and sees its latest value, and the
\* disk changes only by a bwrite() that returns after it did: bio.c, with its
\* sleep locks and the disk driver, implements the block store.
THEOREM Refinement == Spec => ImplementsBlockStore
<1> QED BY InitStore, InitInv, NextInv, NextStore, PTL
        DEF Spec, ImplementsBlockStore, Store!Spec, storeVars
=============================================================================
