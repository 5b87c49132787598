-------------------------- MODULE PthreadLabProofs ---------------------------
(***************************************************************************)
(* Proofs about the programs of the threads lab, for every number of       *)
(* threads, items, slots and turns: a writer writes alone, nothing is lost *)
(* or consumed twice, threads print in turn, a batch is served as a whole, *)
(* each with what spurious wakeups and an overrun ring take from it.       *)
(***************************************************************************)
EXTENDS PthreadLab, FiniteSetTheorems, TLAPS

ReaderLabels == {"start", "cond", "first", "set_avail", "reading", "strayed", "last", "done"}
WriterLabels == {"start", "cond", "want", "writing", "last", "done"}

\* The readers that numreader stands for: each has run rw->numreader++ and not
\* yet rw->numreader--.  Only in the lab's reader-preference lock are readers
\* that wait on the condition variable, or strayed from it, among them.
Counted == {r \in Readers : \/ rwpc[r] \in {"first", "set_avail", "reading", "strayed"}
                            \/ lab = "reader_pref" /\ rwpc[r] = "cond"}

\* The writers that numwriter stands for.
CountedWriters == {w \in Writers : RW!WriterFirst /\ rwpc[w] \in {"want", "writing"}}

\* The readers hold lock together: the first of the batch has taken it.
BatchHolds == Counted # {} /\ \A r \in Readers : rwpc[r] # "first"

\* A thread holds lock for itself.
Owns(t) == rwpc[t] \in {"writing", "last"}

RWTyped ==
    /\ rwpc \in [Readers \cup Writers -> ReaderLabels \cup WriterLabels]
    /\ \A r \in Readers : rwpc[r] \in ReaderLabels
    /\ \A r \in Readers : rwpc[r] \in {"set_avail", "strayed"} => lab = "reader_pref"
    /\ \A w \in Writers : rwpc[w] \in WriterLabels
    /\ read_avail \in BOOLEAN /\ commonlock \in BOOLEAN /\ lock \in BOOLEAN

RWCounts ==
    /\ numreader = Cardinality(Counted)
    /\ numwriter = Cardinality(CountedWriters)

\* The first reader of a batch is alone until it has lock, and in all kinds but
\* one it holds the common mutex, so that no writer is counted meanwhile.
FirstAlone ==
    /\ \A r, s \in Readers : rwpc[r] = "first" =>
          /\ rwpc[s] \notin {"set_avail", "reading"}
          /\ s # r => rwpc[s] # "first"
    /\ commonlock <=> (lab # "reader_pref" /\ \E r \in Readers : rwpc[r] = "first")
    /\ (commonlock /\ RW!WriterFirst) => numwriter = 0

\* lock has one holder: a writer, the last reader of a batch, or a batch.
OneHolder ==
    /\ \A t \in Readers \cup Writers : Owns(t) =>
          /\ lock /\ ~BatchHolds
          /\ \A u \in Readers \cup Writers : u # t => ~Owns(u)
    /\ BatchHolds => lock
    /\ read_avail => BatchHolds

RWInv == RWTyped /\ RWCounts /\ FirstAlone /\ OneHolder

-----------------------------------------------------------------------------
(* Sets of threads, and rings *)

\* The next place of a ring, as (i + 1) % n computes it: the semaphore a thread
\* raises, the index the master-worker ring moves on to.
LEMMA NextSlot ==
    ASSUME NEW N \in Nat \ {0}, NEW x \in 0..N - 1
    PROVE  (x + 1) % N = IF x = N - 1 THEN 0 ELSE x + 1
<1>1. N % N = 0 /\ (x + 1 < N => (x + 1) % N = x + 1)
  OBVIOUS
<1>2. QED
  BY <1>1

\* A subset of a finite set of threads is finite and no larger: the counters
\* of the locks never exceed the number of threads.
LEMMA SubsetSize ==
    ASSUME NEW S, NEW T \in SUBSET S, IsFiniteSet(S)
    PROVE  /\ IsFiniteSet(T)
           /\ Cardinality(T) \in 0..Cardinality(S)
BY FS_Subset, FS_CardinalityType

\* Counting one more thread, as numreader++ does.
LEMMA OneMore ==
    ASSUME NEW S, NEW x, IsFiniteSet(S), x \notin S
    PROVE  Cardinality(S \cup {x}) = Cardinality(S) + 1
BY FS_AddElement

\* Counting one thread less, as numreader-- does, and what the test for the
\* last one tells.
LEMMA OneLess ==
    ASSUME NEW S, NEW x \in S, IsFiniteSet(S)
    PROVE  /\ Cardinality(S \ {x}) = Cardinality(S) - 1
           /\ Cardinality(S) > 1 => S \ {x} # {}
           /\ ~(Cardinality(S) > 1) => S = {x}
<1>1. IsFiniteSet(S \ {x}) /\ Cardinality(S \ {x}) = Cardinality(S) - 1
  BY FS_RemoveElement
<1>2. Cardinality(S) \in Nat /\ Cardinality(S \ {x}) \in Nat
  BY <1>1, FS_CardinalityType
<1>3. S \ {x} = {} <=> Cardinality(S \ {x}) = 0
  BY <1>1, FS_EmptySet
<1>4. QED
  BY <1>1, <1>2, <1>3

\* A counter is zero exactly when nobody is counted.
LEMMA NoneCounted ==
    ASSUME NEW S, IsFiniteSet(S)
    PROVE  Cardinality(S) \in Nat /\ (Cardinality(S) = 0 <=> S = {})
BY FS_EmptySet, FS_CardinalityType

\* The counted threads of a lock are finitely many.
LEMMA CountedFinite == IsFiniteSet(Counted) /\ IsFiniteSet(CountedWriters)
<1>1. Counted \in SUBSET Readers /\ CountedWriters \in SUBSET Writers
  BY DEF Counted, CountedWriters
<1>2. QED
  BY <1>1, LabAssumption, SubsetSize DEF LabAssumption

\* At the start of a lock nobody is counted and nobody holds it.
LEMMA RWInit ==
    ASSUME RW!Init
    PROVE  RWInv
<1> USE DEF RW!Init
<1>1. \A t \in Readers \cup Writers : rwpc[t] = "start"
  OBVIOUS
<1>2. RWTyped
  BY <1>1 DEF RWTyped, ReaderLabels, WriterLabels
<1>3. Counted = {} /\ CountedWriters = {}
  BY <1>1 DEF Counted, CountedWriters
<1>4. RWCounts
  BY <1>3, FS_EmptySet DEF RWCounts
<1>5. FirstAlone
  BY <1>1 DEF FirstAlone
<1>6. OneHolder
  BY <1>1, <1>3 DEF OneHolder, BatchHolds, Owns
<1>7. QED
  BY <1>2, <1>4, <1>5, <1>6 DEF RWInv

-----------------------------------------------------------------------------
(* The steps of the read-write locks *)

\* What one thread's step does to the places of the others: nothing.
LEMMA GotoPlaces ==
    ASSUME RWTyped, NEW t \in Readers \cup Writers,
           NEW label \in ReaderLabels \cup WriterLabels, RW!Goto(t, label)
    PROVE  /\ rwpc' \in [Readers \cup Writers -> ReaderLabels \cup WriterLabels]
           /\ rwpc'[t] = label
           /\ \A u \in Readers \cup Writers : u # t => rwpc'[u] = rwpc[u]
BY DEF RWTyped, RW!Goto

\* A broadcast sends the threads of S that wait on the condition variable on.
LEMMA BroadcastPlaces ==
    ASSUME RWTyped, NEW t \in Readers \cup Writers,
           NEW label \in ReaderLabels \cup WriterLabels,
           NEW awake \in ReaderLabels \cup WriterLabels,
           NEW S, RW!BroadcastAndGoto(t, label, S, awake)
    PROVE  /\ rwpc' \in [Readers \cup Writers -> ReaderLabels \cup WriterLabels]
           /\ rwpc'[t] = label
           /\ \A u \in Readers \cup Writers : u # t =>
                rwpc'[u] = IF u \in S /\ rwpc[u] = "cond" THEN awake ELSE rwpc[u]
BY DEF RWTyped, RW!BroadcastAndGoto

\* A reader that must wait is not counted by a writer-preference lock.
LEMMA ReaderWaitsKeeps ==
    ASSUME RWInv, lab' = lab, NEW r \in Readers, RW!ReaderWaits(r)
    PROVE  RWInv'
<1> USE LabAssumption DEF LabAssumption
<1>1. /\ lab # "reader_pref" /\ rwpc[r] = "start"
      /\ UNCHANGED <<numreader, numwriter, read_avail, commonlock, lock>>
      /\ RW!Goto(r, "cond")
  BY DEF RW!ReaderWaits, RW!WriterFirst
<1>2. /\ rwpc' \in [Readers \cup Writers -> ReaderLabels \cup WriterLabels]
      /\ rwpc'[r] = "cond"
      /\ \A u \in Readers \cup Writers : u # r => rwpc'[u] = rwpc[u]
  BY <1>1, GotoPlaces DEF RWInv, ReaderLabels
<1>3. Counted' = Counted /\ CountedWriters' = CountedWriters
  BY <1>1, <1>2 DEF Counted, CountedWriters, RW!WriterFirst
<1>4. RWTyped'
  BY <1>1, <1>2 DEF RWInv, RWTyped, ReaderLabels, WriterLabels
<1>5. RWCounts'
  BY <1>1, <1>3 DEF RWInv, RWCounts
<1>6. FirstAlone'
  BY <1>1, <1>2 DEF RWInv, FirstAlone, RW!WriterFirst
<1>7. OneHolder'
  BY <1>1, <1>2, <1>3 DEF RWInv, OneHolder, BatchHolds, Owns
<1>8. QED
  BY <1>4, <1>5, <1>6, <1>7 DEF RWInv

\* A reader that finds others counted joins their batch; the first one goes on
\* to wait for lock, with the common mutex.
LEMMA ReaderEntersKeeps ==
    ASSUME RWInv, lab' = lab, NEW r \in Readers, RW!ReaderEnters(r)
    PROVE  RWInv'
<1> USE LabAssumption DEF LabAssumption
<1> DEFINE label == IF numreader = 0 THEN "first" ELSE "reading"
<1>1. /\ lab # "reader_pref" /\ rwpc[r] = "start" /\ ~commonlock
      /\ numreader' = numreader + 1
      /\ commonlock' = (numreader = 0)
      /\ RW!WriterFirst => numwriter = 0
      /\ UNCHANGED <<numwriter, read_avail, lock>>
      /\ RW!Goto(r, label)
  BY DEF RW!ReaderEnters, RW!WriterFirst, RW!HoldCommon, RWInv, RWTyped
<1>2. /\ rwpc' \in [Readers \cup Writers -> ReaderLabels \cup WriterLabels]
      /\ rwpc'[r] = label
      /\ \A u \in Readers \cup Writers : u # r => rwpc'[u] = rwpc[u]
  BY <1>1, GotoPlaces DEF RWInv, ReaderLabels
<1>3. Counted' = Counted \cup {r} /\ r \notin Counted /\ CountedWriters' = CountedWriters
  BY <1>1, <1>2 DEF Counted, CountedWriters, RW!WriterFirst
<1>4. numreader = 0 <=> Counted = {}
  BY CountedFinite, NoneCounted DEF RWInv, RWCounts
<1>5. RWTyped'
  BY <1>1, <1>2 DEF RWInv, RWTyped, ReaderLabels, WriterLabels
<1>6. RWCounts'
  BY <1>1, <1>3, CountedFinite, OneMore DEF RWInv, RWCounts
<1>7. \A s \in Readers : rwpc[s] # "first"
  BY <1>1 DEF RWInv, FirstAlone
<1>8. FirstAlone'
  <2>1. CASE numreader = 0
    <3>1. \A s \in Readers : rwpc[s] \notin {"set_avail", "reading", "first"}
      BY <2>1, <1>4 DEF Counted
    <3>2. QED
      BY <2>1, <3>1, <1>1, <1>2 DEF FirstAlone, RW!WriterFirst
  <2>2. CASE numreader # 0
    BY <2>2, <1>7, <1>1, <1>2 DEF FirstAlone
  <2>3. QED
    BY <2>1, <2>2
<1>9. OneHolder'
  <2>1. BatchHolds' = BatchHolds
    <3>1. CASE numreader = 0
      BY <3>1, <1>2, <1>4 DEF BatchHolds
    <3>2. CASE numreader # 0
      BY <3>2, <1>2, <1>3, <1>4, <1>7 DEF BatchHolds
    <3>3. QED
      BY <3>1, <3>2
  <2>2. QED
    BY <2>1, <1>1, <1>2 DEF RWInv, OneHolder, Owns
<1>10. QED
  BY <1>5, <1>6, <1>8, <1>9 DEF RWInv

\* The first reader gets lock when nobody has it; from then on the batch has it.
LEMMA ReaderTakesLockKeeps ==
    ASSUME RWInv, lab' = lab, NEW r \in Readers,
           RW!ReaderTakesLock(r) \/ RW!PrefReaderTakesLock(r)
    PROVE  RWInv'
<1> USE LabAssumption DEF LabAssumption
<1> DEFINE label == IF lab = "reader_pref" THEN "set_avail" ELSE "reading"
<1>1. /\ rwpc[r] = "first" /\ ~lock /\ lock'
      /\ commonlock' = IF lab = "reader_pref" THEN commonlock ELSE FALSE
      /\ UNCHANGED <<numreader, numwriter, read_avail>>
      /\ RW!Goto(r, label)
  BY DEF RW!ReaderTakesLock, RW!PrefReaderTakesLock
<1>2. /\ rwpc' \in [Readers \cup Writers -> ReaderLabels \cup WriterLabels]
      /\ rwpc'[r] = label
      /\ \A u \in Readers \cup Writers : u # r => rwpc'[u] = rwpc[u]
  BY <1>1, GotoPlaces DEF RWInv, ReaderLabels
<1>3. Counted' = Counted /\ r \in Counted /\ CountedWriters' = CountedWriters
  BY <1>1, <1>2 DEF Counted, CountedWriters, RW!WriterFirst
<1>4. RWTyped'
  <2>1. lock' \in BOOLEAN
    BY DEF RW!ReaderTakesLock, RW!PrefReaderTakesLock
  <2>2. QED
    BY <2>1, <1>1, <1>2 DEF RWInv, RWTyped, ReaderLabels, WriterLabels
<1>5. RWCounts'
  BY <1>1, <1>3 DEF RWInv, RWCounts
<1>6. \A s \in Readers : rwpc'[s] # "first"
  BY <1>1, <1>2 DEF RWInv, FirstAlone
<1>7. FirstAlone'
  BY <1>1, <1>6 DEF RWInv, FirstAlone
<1>8. OneHolder'
  <2>1. \A t \in Readers \cup Writers : ~Owns(t)'
    BY <1>1, <1>2 DEF RWInv, OneHolder, Owns
  <2>2. BatchHolds'
    BY <1>3, <1>6 DEF BatchHolds
  <2>3. QED
    BY <2>1, <2>2, <1>1 DEF OneHolder
<1>9. QED
  BY <1>4, <1>5, <1>7, <1>8 DEF RWInv

\* A reader of the lab's reader-preference lock is counted at once; a later one
\* reads only if read_avail says that the batch has lock.
LEMMA PrefReaderEntersKeeps ==
    ASSUME RWInv, lab' = lab, NEW r \in Readers, RW!PrefReaderEnters(r)
    PROVE  RWInv'
<1> USE LabAssumption DEF LabAssumption
<1> DEFINE label == IF numreader = 0 THEN "first" ELSE IF read_avail THEN "reading" ELSE "cond"
<1>1. /\ lab = "reader_pref" /\ rwpc[r] = "start"
      /\ numreader' = numreader + 1
      /\ UNCHANGED <<numwriter, read_avail, commonlock, lock>>
  BY DEF RW!PrefReaderEnters
<1>2. numreader = 0 <=> Counted = {}
  BY CountedFinite, NoneCounted DEF RWInv, RWCounts
<1>3. /\ rwpc' \in [Readers \cup Writers -> ReaderLabels \cup WriterLabels]
      /\ rwpc'[r] = label
      /\ \A u \in Readers \cup Writers : u # r => rwpc'[u] = rwpc[u]
  <2>1. CASE numreader = 0
    <3>1. RW!BroadcastAndGoto(r, "first", Readers, "reading")
      BY <2>1 DEF RW!PrefReaderEnters
    <3>2. \A s \in Readers : rwpc[s] # "cond"
      BY <2>1, <1>1, <1>2 DEF Counted
    <3>3. QED
      BY <2>1, <3>1, <3>2, BroadcastPlaces DEF RWInv, ReaderLabels
  <2>2. CASE numreader # 0
    BY <2>2, GotoPlaces DEF RW!PrefReaderEnters, RWInv, ReaderLabels
  <2>3. QED
    BY <2>1, <2>2
<1>4. Counted' = Counted \cup {r} /\ r \notin Counted /\ CountedWriters' = CountedWriters
  BY <1>1, <1>3 DEF Counted, CountedWriters, RW!WriterFirst
<1>5. RWTyped'
  BY <1>1, <1>3 DEF RWInv, RWTyped, ReaderLabels, WriterLabels
<1>6. RWCounts'
  BY <1>1, <1>4, CountedFinite, OneMore DEF RWInv, RWCounts
<1>7. CASE numreader = 0
  <2>1. \A s \in Readers : rwpc[s] \notin {"set_avail", "reading", "first"}
    BY <1>7, <1>2 DEF Counted
  <2>2. FirstAlone'
    BY <1>7, <2>1, <1>1, <1>3 DEF RWInv, FirstAlone, RW!WriterFirst
  <2>3. ~BatchHolds /\ ~BatchHolds'
    BY <1>7, <1>2, <1>3 DEF BatchHolds
  <2>4. OneHolder'
    BY <1>7, <2>3, <1>1, <1>3 DEF RWInv, OneHolder, Owns
  <2>5. QED
    BY <2>2, <2>4, <1>5, <1>6 DEF RWInv
<1>8. CASE numreader # 0
  <2>1. Counted # {}
    BY <1>8, <1>2
  <2>2. FirstAlone'
    <3>1. read_avail => \A s \in Readers : rwpc[s] # "first"
      BY DEF RWInv, OneHolder, BatchHolds
    <3>2. label = (IF read_avail THEN "reading" ELSE "cond") /\ ~commonlock
      BY <1>8, <1>1 DEF RWInv, FirstAlone
    <3>3. \A s \in Readers : rwpc'[s] = "first" <=> rwpc[s] = "first"
      BY <3>2, <1>1, <1>3
    <3>4. \A s \in Readers : rwpc'[s] \in {"set_avail", "reading"} =>
            rwpc[s] \in {"set_avail", "reading"} \/ read_avail
      BY <3>2, <1>1, <1>3
    <3>5. \A q, s \in Readers : rwpc'[q] = "first" =>
            /\ rwpc'[s] \notin {"set_avail", "reading"}
            /\ s # q => rwpc'[s] # "first"
      BY <3>1, <3>3, <3>4 DEF RWInv, FirstAlone
    <3>6. commonlock' = FALSE /\ lab' = "reader_pref"
      BY <3>2, <1>1 DEF RWInv, RWTyped
    <3>7. QED
      BY <3>5, <3>6 DEF FirstAlone
  <2>3. BatchHolds' = BatchHolds
    BY <1>8, <2>1, <1>1, <1>3, <1>4 DEF BatchHolds
  <2>4. OneHolder'
    BY <1>8, <2>3, <1>1, <1>3 DEF RWInv, OneHolder, Owns
  <2>5. QED
    BY <2>2, <2>4, <1>5, <1>6 DEF RWInv
<1>9. QED
  BY <1>7, <1>8

\* rw->read_avail = 1 is set while the batch has lock.
LEMMA PrefReaderSetsKeeps ==
    ASSUME RWInv, lab' = lab, NEW r \in Readers, RW!PrefReaderSets(r)
    PROVE  RWInv'
<1> USE LabAssumption DEF LabAssumption
<1>1. /\ rwpc[r] = "set_avail" /\ read_avail' = TRUE
      /\ UNCHANGED <<numreader, numwriter, commonlock, lock>>
      /\ RW!Goto(r, "reading")
  BY DEF RW!PrefReaderSets
<1>2. /\ rwpc' \in [Readers \cup Writers -> ReaderLabels \cup WriterLabels]
      /\ rwpc'[r] = "reading"
      /\ \A u \in Readers \cup Writers : u # r => rwpc'[u] = rwpc[u]
  BY <1>1, GotoPlaces DEF RWInv, ReaderLabels
<1>3. Counted' = Counted /\ r \in Counted /\ CountedWriters' = CountedWriters
  BY <1>1, <1>2 DEF Counted, CountedWriters, RW!WriterFirst
<1>4. RWTyped'
  BY <1>1, <1>2 DEF RWInv, RWTyped, ReaderLabels, WriterLabels
<1>5. RWCounts'
  BY <1>1, <1>3 DEF RWInv, RWCounts
<1>6. \A s \in Readers : rwpc[s] # "first"
  BY <1>1 DEF RWInv, FirstAlone
<1>7. FirstAlone'
  BY <1>6, <1>1, <1>2 DEF RWInv, FirstAlone, RW!WriterFirst
<1>8. BatchHolds /\ BatchHolds'
  BY <1>6, <1>2, <1>3 DEF BatchHolds
<1>9. OneHolder'
  BY <1>8, <1>1, <1>2 DEF RWInv, OneHolder, Owns
<1>10. QED
  BY <1>4, <1>5, <1>7, <1>9 DEF RWInv

\* The last reader of a batch gives lock back, at once or after the common
\* mutex; another one leaves it with those that still read.
LEMMA ReaderLeavesKeeps ==
    ASSUME RWInv, lab' = lab, NEW r \in Readers, RW!ReaderLeaves(r)
    PROVE  RWInv'
<1> USE LabAssumption DEF LabAssumption
<1>1. /\ rwpc[r] \in {"reading", "strayed"} /\ ~commonlock
      /\ numreader' = numreader - 1
      /\ UNCHANGED <<numwriter, commonlock>>
  BY DEF RW!ReaderLeaves
<1>2. r \in Counted
  BY <1>1 DEF Counted
<1>3. /\ Cardinality(Counted \ {r}) = numreader - 1
      /\ numreader > 1 => Counted \ {r} # {}
      /\ ~(numreader > 1) => Counted = {r}
  BY <1>2, CountedFinite, OneLess DEF RWInv, RWCounts
<1>4. CASE numreader > 1
  <2>1. RW!Goto(r, "done") /\ UNCHANGED <<read_avail, lock>>
    BY <1>4 DEF RW!ReaderLeaves
  <2>2. /\ rwpc' \in [Readers \cup Writers -> ReaderLabels \cup WriterLabels]
        /\ rwpc'[r] = "done"
        /\ \A u \in Readers \cup Writers : u # r => rwpc'[u] = rwpc[u]
    BY <2>1, GotoPlaces DEF RWInv, ReaderLabels
  <2>3. Counted' = Counted \ {r} /\ CountedWriters' = CountedWriters
    BY <1>1, <2>2 DEF Counted, CountedWriters, RW!WriterFirst
  <2>4. RWTyped'
    BY <1>1, <2>1, <2>2 DEF RWInv, RWTyped, ReaderLabels, WriterLabels
  <2>5. RWCounts'
    BY <1>1, <1>3, <2>3 DEF RWInv, RWCounts
  <2>6. \A s \in Readers : rwpc'[s] = "first" <=> rwpc[s] = "first"
    BY <1>1, <2>2
  <2>7. FirstAlone'
    BY <2>2, <2>6, <1>1 DEF RWInv, FirstAlone, RW!WriterFirst
  <2>8. BatchHolds' <=> BatchHolds
    BY <1>2, <1>3, <1>4, <2>3, <2>6 DEF BatchHolds
  <2>9. OneHolder'
    BY <2>8, <1>1, <2>1, <2>2 DEF RWInv, OneHolder, Owns
  <2>10. QED
    BY <2>4, <2>5, <2>7, <2>9 DEF RWInv
<1>5. CASE ~(numreader > 1)
  <2>0. /\ \A s \in Readers : rwpc[s] # "first"
        /\ BatchHolds
        /\ \A t \in Readers \cup Writers : ~Owns(t)
    <3>1. \A s \in Readers : rwpc[s] = "first" => s \in Counted
      BY DEF Counted
    <3>2. \A s \in Readers : rwpc[s] # "first"
      BY <1>1, <1>3, <1>5, <3>1
    <3>3. BatchHolds
      BY <1>2, <3>2 DEF BatchHolds
    <3>4. QED
      BY <3>2, <3>3 DEF RWInv, OneHolder
  <2> DEFINE label == IF RW!Solution THEN "done" ELSE "last"
             W == IF lab = "reader_pref" THEN Writers ELSE {}
  <2>1. /\ RW!BroadcastAndGoto(r, label, W, "start")
        /\ read_avail' = FALSE
        /\ lock' = (lock /\ ~RW!Solution)
    BY <1>5 DEF RW!ReaderLeaves
  <2>2. label \in ReaderLabels
    BY DEF ReaderLabels
  <2>3. /\ rwpc' \in [Readers \cup Writers -> ReaderLabels \cup WriterLabels]
        /\ rwpc'[r] = label
        /\ \A u \in Readers \cup Writers : u # r =>
             rwpc'[u] = IF u \in W /\ rwpc[u] = "cond" THEN "start" ELSE rwpc[u]
    <3> HIDE DEF label, W
    <3>1. QED
      BY <2>1, <2>2, BroadcastPlaces DEF RWInv, ReaderLabels
  <2>4. Counted' = {} /\ CountedWriters' = CountedWriters
    <3>1. \A s \in Readers : s # r => rwpc'[s] = rwpc[s]
      BY <2>3
    <3>2. Counted' = {}
      BY <3>1, <1>3, <1>5, <2>3 DEF Counted
    <3>3. CountedWriters' = CountedWriters
      BY <2>3 DEF CountedWriters, RW!WriterFirst
    <3>4. QED
      BY <3>2, <3>3
  <2>5. RWTyped'
    <3>1. \A s \in Readers : rwpc'[s] \in ReaderLabels
      BY <2>2, <2>3 DEF RWInv, RWTyped
    <3>2. \A w \in Writers : rwpc'[w] \in WriterLabels
      BY <2>3 DEF RWInv, RWTyped, WriterLabels
    <3>3. read_avail' \in BOOLEAN /\ commonlock' \in BOOLEAN /\ lock' \in BOOLEAN
      BY <2>1, <1>1 DEF RWInv, RWTyped
    <3>4. \A s \in Readers : rwpc'[s] \in {"set_avail", "strayed"} => rwpc'[s] = rwpc[s]
      BY <2>3
    <3>5. QED
      BY <2>3, <3>1, <3>2, <3>3, <3>4 DEF RWInv, RWTyped
  <2>6. RWCounts'
    <3>1. Counted \ {r} = {}
      BY <1>3, <1>5
    <3>2. QED
      BY <3>1, <1>1, <1>3, <2>4 DEF RWInv, RWCounts
  <2>7. FirstAlone'
    <3>1. \A s \in Readers : rwpc'[s] # "first"
      BY <2>0, <2>3
    <3>2. QED
      BY <3>1, <1>1 DEF RWInv, FirstAlone
  <2>8. OneHolder'
    <3>1. ~BatchHolds'
      BY <2>4 DEF BatchHolds
    <3>2. \A t \in Readers \cup Writers : Owns(t)' => t = r /\ ~RW!Solution
      BY <2>0, <2>3 DEF Owns
    <3>3. ~RW!Solution => lock'
      BY <2>0, <2>1 DEF RWInv, OneHolder
    <3>4. QED
      BY <3>1, <3>2, <3>3, <2>1 DEF OneHolder
  <2>9. QED
    BY <2>5, <2>6, <2>7, <2>8 DEF RWInv
<1>6. QED
  BY <1>4, <1>5

\* The unlock after the common mutex is the owner's.
LEMMA LastUnlocksKeeps ==
    ASSUME RWInv, lab' = lab, NEW t \in Readers \cup Writers, RW!LastUnlocks(t)
    PROVE  RWInv'
<1> USE LabAssumption DEF LabAssumption
<1>1. /\ rwpc[t] = "last" /\ lock' = FALSE
      /\ UNCHANGED <<numreader, numwriter, read_avail, commonlock>>
      /\ RW!Goto(t, "done")
  BY DEF RW!LastUnlocks
<1>2. /\ rwpc' \in [Readers \cup Writers -> ReaderLabels \cup WriterLabels]
      /\ rwpc'[t] = "done"
      /\ \A u \in Readers \cup Writers : u # t => rwpc'[u] = rwpc[u]
  BY <1>1, GotoPlaces DEF RWInv, ReaderLabels
<1>3. Counted' = Counted /\ CountedWriters' = CountedWriters
  BY <1>1, <1>2 DEF Counted, CountedWriters, RW!WriterFirst
<1>4. RWTyped'
  BY <1>1, <1>2 DEF RWInv, RWTyped, ReaderLabels, WriterLabels
<1>5. RWCounts'
  BY <1>1, <1>3 DEF RWInv, RWCounts
<1>6. FirstAlone'
  BY <1>1, <1>2 DEF RWInv, FirstAlone, RW!WriterFirst
<1>7. OneHolder'
  <2>1. ~BatchHolds /\ \A u \in Readers \cup Writers : u # t => ~Owns(u)
    BY <1>1 DEF RWInv, OneHolder, Owns
  <2>2. ~BatchHolds'
    BY <2>1, <1>1, <1>2, <1>3 DEF BatchHolds
  <2>3. \A u \in Readers \cup Writers : ~Owns(u)'
    BY <2>1, <1>2 DEF Owns
  <2>4. QED
    BY <2>1, <2>2, <2>3, <1>1 DEF RWInv, OneHolder
<1>8. QED
  BY <1>4, <1>5, <1>6, <1>7 DEF RWInv

\* A writer of a writer-preference lock is counted before it waits for lock.
LEMMA WriterCountsKeeps ==
    ASSUME RWInv, lab' = lab, NEW w \in Writers, RW!WriterCounts(w)
    PROVE  RWInv'
<1> USE LabAssumption DEF LabAssumption
<1>1. /\ rwpc[w] = "start" /\ ~commonlock /\ RW!WriterFirst
      /\ numwriter' = numwriter + 1
      /\ UNCHANGED <<numreader, read_avail, commonlock, lock>>
      /\ RW!Goto(w, "want")
  BY DEF RW!WriterCounts
<1>2. /\ rwpc' \in [Readers \cup Writers -> ReaderLabels \cup WriterLabels]
      /\ rwpc'[w] = "want"
      /\ \A u \in Readers \cup Writers : u # w => rwpc'[u] = rwpc[u]
  BY <1>1, GotoPlaces DEF RWInv, WriterLabels
<1>3. /\ Counted' = Counted
      /\ CountedWriters' = CountedWriters \cup {w} /\ w \notin CountedWriters
  BY <1>1, <1>2 DEF Counted, CountedWriters, RW!WriterFirst
<1>4. RWTyped'
  BY <1>1, <1>2 DEF RWInv, RWTyped, ReaderLabels, WriterLabels
<1>5. RWCounts'
  BY <1>1, <1>3, CountedFinite, OneMore DEF RWInv, RWCounts
<1>6. FirstAlone'
  BY <1>1, <1>2 DEF RWInv, FirstAlone, RW!WriterFirst
<1>7. OneHolder'
  BY <1>1, <1>2, <1>3 DEF RWInv, OneHolder, BatchHolds, Owns
<1>8. QED
  BY <1>4, <1>5, <1>6, <1>7 DEF RWInv

\* A writer of a reader-preference lock goes on or waits; it holds nothing yet.
LEMMA WriterTestsKeeps ==
    ASSUME RWInv, lab' = lab, NEW w \in Writers, RW!WriterTests(w)
    PROVE  RWInv'
<1> USE LabAssumption DEF LabAssumption
<1> DEFINE label == IF lab = "reader_pref" /\ numreader > 0 THEN "cond" ELSE "want"
<1>1. /\ rwpc[w] = "start" /\ ~RW!WriterFirst
      /\ UNCHANGED <<numreader, numwriter, read_avail, commonlock, lock>>
      /\ RW!Goto(w, label)
  BY DEF RW!WriterTests
<1>2. label \in {"cond", "want"}
  OBVIOUS
<1> HIDE DEF label
<1>3. /\ rwpc' \in [Readers \cup Writers -> ReaderLabels \cup WriterLabels]
      /\ rwpc'[w] = label
      /\ \A u \in Readers \cup Writers : u # w => rwpc'[u] = rwpc[u]
  BY <1>1, <1>2, GotoPlaces DEF RWInv, WriterLabels
<1>4. Counted' = Counted /\ CountedWriters' = CountedWriters
  BY <1>1, <1>3 DEF Counted, CountedWriters, RW!WriterFirst
<1>5. RWTyped'
  BY <1>1, <1>2, <1>3 DEF RWInv, RWTyped, ReaderLabels, WriterLabels
<1>6. RWCounts'
  BY <1>1, <1>4 DEF RWInv, RWCounts
<1>7. FirstAlone'
  BY <1>1, <1>3 DEF RWInv, FirstAlone, RW!WriterFirst
<1>8. OneHolder'
  BY <1>1, <1>2, <1>3, <1>4 DEF RWInv, OneHolder, BatchHolds, Owns
<1>9. QED
  BY <1>5, <1>6, <1>7, <1>8 DEF RWInv

\* A writer gets lock when neither a batch nor another thread has it.
LEMMA WriterTakesLockKeeps ==
    ASSUME RWInv, lab' = lab, NEW w \in Writers, RW!WriterTakesLock(w)
    PROVE  RWInv'
<1> USE LabAssumption DEF LabAssumption
<1>1. /\ rwpc[w] = "want" /\ ~lock /\ lock' = TRUE
      /\ UNCHANGED <<numreader, numwriter, read_avail, commonlock>>
      /\ RW!Goto(w, "writing")
  BY DEF RW!WriterTakesLock
<1>2. /\ rwpc' \in [Readers \cup Writers -> ReaderLabels \cup WriterLabels]
      /\ rwpc'[w] = "writing"
      /\ \A u \in Readers \cup Writers : u # w => rwpc'[u] = rwpc[u]
  BY <1>1, GotoPlaces DEF RWInv, WriterLabels
<1>3. Counted' = Counted /\ CountedWriters' = CountedWriters
  BY <1>1, <1>2 DEF Counted, CountedWriters, RW!WriterFirst
<1>4. RWTyped'
  BY <1>1, <1>2 DEF RWInv, RWTyped, ReaderLabels, WriterLabels
<1>5. RWCounts'
  BY <1>1, <1>3 DEF RWInv, RWCounts
<1>6. FirstAlone'
  BY <1>1, <1>2 DEF RWInv, FirstAlone, RW!WriterFirst
<1>7. OneHolder'
  <2>1. ~BatchHolds /\ \A u \in Readers \cup Writers : ~Owns(u)
    BY <1>1 DEF RWInv, OneHolder
  <2>2. ~BatchHolds'
    BY <2>1, <1>1, <1>2, <1>3 DEF BatchHolds
  <2>3. QED
    BY <2>1, <2>2, <1>1, <1>2 DEF RWInv, OneHolder, Owns
<1>8. QED
  BY <1>4, <1>5, <1>6, <1>7 DEF RWInv

\* The last counted writer wakes the readers; none of them is counted for that.
LEMMA WriterUncountsKeeps ==
    ASSUME RWInv, lab' = lab, NEW w \in Writers, RW!WriterUncounts(w)
    PROVE  RWInv'
<1> USE LabAssumption DEF LabAssumption
<1>1. /\ rwpc[w] = "writing" /\ ~commonlock /\ RW!WriterFirst
      /\ lab # "reader_pref"
      /\ numwriter' = numwriter - 1
      /\ UNCHANGED <<numreader, read_avail, commonlock, lock>>
      /\ RW!BroadcastAndGoto(w, "last", RW!WokenByLast, "start")
  BY DEF RW!WriterUncounts, RW!WriterFirst
<1>2. /\ rwpc' \in [Readers \cup Writers -> ReaderLabels \cup WriterLabels]
      /\ rwpc'[w] = "last"
      /\ \A u \in Readers \cup Writers : u # w =>
           rwpc'[u] = IF u \in RW!WokenByLast /\ rwpc[u] = "cond" THEN "start" ELSE rwpc[u]
  BY <1>1, BroadcastPlaces DEF RWInv, WriterLabels
<1>3. RW!WokenByLast \subseteq Readers
  BY DEF RW!WokenByLast
<1>4. /\ \A u \in Writers : u # w => rwpc'[u] = rwpc[u]
      /\ \A r \in Readers : rwpc'[r] = rwpc[r] \/ (rwpc[r] = "cond" /\ rwpc'[r] = "start")
  BY <1>2, <1>3
<1> HIDE <1>2
<1>5. Counted' = Counted
  BY <1>1, <1>4 DEF Counted
<1>6. CountedWriters' = CountedWriters \ {w} /\ w \in CountedWriters
  <2>1. rwpc'[w] = "last"
    BY <1>2
  <2>2. QED
    BY <2>1, <1>1, <1>4 DEF CountedWriters, RW!WriterFirst
<1>7. RWTyped'
  <2>1. rwpc' \in [Readers \cup Writers -> ReaderLabels \cup WriterLabels] /\ rwpc'[w] = "last"
    BY <1>2
  <2>2. QED
    BY <2>1, <1>1, <1>4 DEF RWInv, RWTyped, ReaderLabels, WriterLabels
<1>8. RWCounts'
  BY <1>1, <1>5, <1>6, CountedFinite, OneLess DEF RWInv, RWCounts
<1>9. FirstAlone'
  <2>1. \A r \in Readers : rwpc'[r] \in {"first", "set_avail", "reading"} => rwpc'[r] = rwpc[r]
    BY <1>4
  <2>2. \A r \in Readers : rwpc[r] # "first"
    BY <1>1 DEF RWInv, FirstAlone
  <2>3. QED
    BY <2>1, <2>2, <1>1 DEF RWInv, FirstAlone
<1>10. OneHolder'
  <2>1. \A u \in Readers \cup Writers : u # w => ~Owns(u)
    BY <1>1 DEF RWInv, OneHolder, Owns
  <2>2. lock /\ ~BatchHolds /\ ~read_avail
    BY <1>1 DEF RWInv, OneHolder, Owns
  <2>3. ~BatchHolds'
    BY <2>2, <1>4, <1>5 DEF BatchHolds
  <2>4. \A u \in Readers \cup Writers : u # w => ~Owns(u)'
    BY <2>1, <1>4 DEF Owns
  <2>5. QED
    BY <2>2, <2>3, <2>4, <1>1 DEF OneHolder
<1>11. QED
  BY <1>7, <1>8, <1>9, <1>10 DEF RWInv

\* A writer of a reader-preference lock unlocks what it alone holds.
LEMMA WriterUnlocksKeeps ==
    ASSUME RWInv, lab' = lab, NEW w \in Writers, RW!WriterUnlocks(w)
    PROVE  RWInv'
<1> USE LabAssumption DEF LabAssumption
<1>1. /\ rwpc[w] = "writing" /\ ~RW!WriterFirst /\ lock' = FALSE
      /\ UNCHANGED <<numreader, numwriter, read_avail, commonlock>>
      /\ RW!Goto(w, "done")
  BY DEF RW!WriterUnlocks
<1>2. /\ rwpc' \in [Readers \cup Writers -> ReaderLabels \cup WriterLabels]
      /\ rwpc'[w] = "done"
      /\ \A u \in Readers \cup Writers : u # w => rwpc'[u] = rwpc[u]
  BY <1>1, GotoPlaces DEF RWInv, WriterLabels
<1>3. Counted' = Counted /\ CountedWriters' = CountedWriters
  BY <1>1, <1>2 DEF Counted, CountedWriters, RW!WriterFirst
<1>4. RWTyped'
  BY <1>1, <1>2 DEF RWInv, RWTyped, ReaderLabels, WriterLabels
<1>5. RWCounts'
  BY <1>1, <1>3 DEF RWInv, RWCounts
<1>6. FirstAlone'
  BY <1>1, <1>2 DEF RWInv, FirstAlone, RW!WriterFirst
<1>7. OneHolder'
  <2>1. ~BatchHolds /\ \A u \in Readers \cup Writers : u # w => ~Owns(u)
    BY <1>1 DEF RWInv, OneHolder, Owns
  <2>2. ~BatchHolds'
    BY <2>1, <1>1, <1>2, <1>3 DEF BatchHolds
  <2>3. \A u \in Readers \cup Writers : ~Owns(u)'
    BY <2>1, <1>2 DEF Owns
  <2>4. QED
    BY <2>1, <2>2, <2>3, <1>1 DEF RWInv, OneHolder
<1>8. QED
  BY <1>4, <1>5, <1>6, <1>7 DEF RWInv

\* A spurious wakeup makes a thread that nobody counts test again.
LEMMA SpuriousKeeps ==
    ASSUME RWInv, lab' = lab, NEW t \in Readers \cup Writers, RW!Spurious(t)
    PROVE  RWInv'
<1> USE LabAssumption DEF LabAssumption
<1>1. /\ rwpc[t] = "cond" /\ (t \in Readers => lab # "reader_pref")
      /\ UNCHANGED <<numreader, numwriter, read_avail, commonlock, lock>>
      /\ RW!Goto(t, "start")
  BY DEF RW!Spurious
<1>2. /\ rwpc' \in [Readers \cup Writers -> ReaderLabels \cup WriterLabels]
      /\ rwpc'[t] = "start"
      /\ \A u \in Readers \cup Writers : u # t => rwpc'[u] = rwpc[u]
  BY <1>1, GotoPlaces DEF RWInv, ReaderLabels
<1>3. Counted' = Counted /\ CountedWriters' = CountedWriters
  BY <1>1, <1>2 DEF Counted, CountedWriters, RW!WriterFirst
<1>4. RWTyped'
  BY <1>1, <1>2 DEF RWInv, RWTyped, ReaderLabels, WriterLabels
<1>5. RWCounts'
  BY <1>1, <1>3 DEF RWInv, RWCounts
<1>6. FirstAlone'
  BY <1>1, <1>2 DEF RWInv, FirstAlone, RW!WriterFirst
<1>7. OneHolder'
  BY <1>1, <1>2, <1>3 DEF RWInv, OneHolder, BatchHolds, Owns
<1>8. QED
  BY <1>4, <1>5, <1>6, <1>7 DEF RWInv

\* A reader that strays stays counted in its batch, which has lock or not as before.
LEMMA PrefReaderStraysKeeps ==
    ASSUME RWInv, lab' = lab, NEW r \in Readers, RW!PrefReaderStrays(r)
    PROVE  RWInv'
<1> USE LabAssumption DEF LabAssumption
<1>1. /\ rwpc[r] = "cond" /\ lab = "reader_pref"
      /\ UNCHANGED <<numreader, numwriter, read_avail, commonlock, lock>>
      /\ RW!Goto(r, "strayed")
  BY DEF RW!PrefReaderStrays
<1>2. /\ rwpc' \in [Readers \cup Writers -> ReaderLabels \cup WriterLabels]
      /\ rwpc'[r] = "strayed"
      /\ \A u \in Readers \cup Writers : u # r => rwpc'[u] = rwpc[u]
  BY <1>1, GotoPlaces DEF RWInv, ReaderLabels
<1>3. Counted' = Counted /\ CountedWriters' = CountedWriters
  BY <1>1, <1>2 DEF Counted, CountedWriters, RW!WriterFirst
<1>4. RWTyped'
  BY <1>1, <1>2 DEF RWInv, RWTyped, ReaderLabels, WriterLabels
<1>5. RWCounts'
  BY <1>1, <1>3 DEF RWInv, RWCounts
<1>6. FirstAlone'
  BY <1>1, <1>2 DEF RWInv, FirstAlone, RW!WriterFirst
<1>7. OneHolder'
  BY <1>1, <1>2, <1>3 DEF RWInv, OneHolder, BatchHolds, Owns
<1>8. QED
  BY <1>4, <1>5, <1>6, <1>7 DEF RWInv

\* Every step of the read-write lock programs keeps the invariant.
LEMMA RWStep ==
    ASSUME RWInv, lab' = lab, RW!Next
    PROVE  RWInv'
<1>1. CASE \E r \in Readers : RW!Reader(r)
  BY <1>1, ReaderWaitsKeeps, ReaderEntersKeeps, ReaderTakesLockKeeps, PrefReaderEntersKeeps,
     PrefReaderSetsKeeps, ReaderLeavesKeeps, LastUnlocksKeeps DEF RW!Reader
<1>2. CASE \E w \in Writers : RW!Writer(w)
  BY <1>2, WriterCountsKeeps, WriterTestsKeeps, WriterTakesLockKeeps, WriterUncountsKeeps,
     WriterUnlocksKeeps, LastUnlocksKeeps DEF RW!Writer
<1>3. CASE \E t \in Readers \cup Writers : RW!Spurious(t)
  BY <1>3, SpuriousKeeps
<1>4. CASE \E r \in Readers : RW!PrefReaderStrays(r)
  BY <1>4, PrefReaderStraysKeeps
<1>5. QED
  BY <1>1, <1>2, <1>3, <1>4 DEF RW!Next

\* The size of a set of threads is the same number in the locks' module.
LEMMA RWSize == \A S : RW!Cardinality(S) = Cardinality(S)
BY DEF RW!Cardinality, Cardinality

\* What the tests check of the locks follows: the counters count threads, and a
\* writer, which owns lock, is alone but for readers that strayed from a batch whose
\* first reader waits for lock.
LEMMA RWSafe ==
    ASSUME RWInv
    PROVE  RW!TypeOK /\ RW!Exclusive
<1> USE LabAssumption DEF LabAssumption
<1>1. RW!TypeOK
  <2>1. Counted \in SUBSET Readers /\ CountedWriters \in SUBSET Writers
    BY DEF Counted, CountedWriters
  <2>2. numreader \in 0..Cardinality(Readers) /\ numwriter \in 0..Cardinality(Writers)
    BY <2>1, SubsetSize DEF RWInv, RWCounts
  <2>3. QED
    BY <2>2, RWSize DEF RWInv, RWTyped, RW!TypeOK, ReaderLabels, WriterLabels
<1>2. ASSUME NEW w \in Writers, rwpc[w] = "writing",
             NEW t \in (Readers \cup Writers) \ {w}
      PROVE  /\ rwpc[t] \notin {"reading", "writing"}
             /\ rwpc[t] = "strayed" => /\ lab = "reader_pref"
                                      /\ \E r \in Readers : rwpc[r] = "first"
  <2>1. ~BatchHolds /\ ~Owns(t)
    BY <1>2 DEF RWInv, OneHolder, Owns
  <2>2. t \in Writers => rwpc[t] \notin {"reading", "strayed"}
    BY DEF RWInv, RWTyped, WriterLabels
  <2>3. ASSUME t \in Readers, rwpc[t] = "reading"
        PROVE  FALSE
    <3>1. t \in Counted /\ \A s \in Readers : rwpc[s] # "first"
      BY <2>3 DEF Counted, RWInv, FirstAlone
    <3>2. QED
      BY <3>1, <2>1 DEF BatchHolds
  <2>4. ASSUME t \in Readers, rwpc[t] = "strayed"
        PROVE  lab = "reader_pref" /\ \E r \in Readers : rwpc[r] = "first"
    <3>1. t \in Counted
      BY <2>4 DEF Counted
    <3>2. QED
      BY <3>1, <2>1, <2>4 DEF BatchHolds, RWInv, RWTyped
  <2>5. QED
    BY <2>1, <2>2, <2>3, <2>4 DEF Owns
<1>3. QED
  BY <1>1, <1>2 DEF RW!Exclusive

\* With writer preference no reader starts to read while a writer waits: a reader
\* enters only when no writer is counted, and the first one keeps the common
\* mutex, so that none is counted, until it has lock.
LEMMA RWOrder ==
    ASSUME RWInv, lab' = lab, RW!Next
    PROVE  RW!WriterGoesFirst
<1> USE LabAssumption DEF LabAssumption
<1> SUFFICES ASSUME NEW r \in Readers, RW!WriterFirst, rwpc[r] # "reading", rwpc'[r] = "reading",
                    NEW w \in Writers, rwpc[w] = "want"
             PROVE  FALSE
  BY DEF RW!WriterGoesFirst
<1>1. numwriter # 0 /\ lab # "reader_pref"
  <2>1. w \in CountedWriters
    BY DEF CountedWriters
  <2>2. QED
    BY <2>1, CountedFinite, NoneCounted DEF RWInv, RWCounts, RW!WriterFirst
<1>2. ~commonlock
  BY <1>1 DEF RWInv, FirstAlone
<1>3. rwpc[r] # "first"
  BY <1>1, <1>2 DEF RWInv, FirstAlone
<1>4. CASE \E s \in Readers : RW!Reader(s)
  <2>1. PICK s \in Readers : RW!Reader(s)
    BY <1>4
  <2>2. ~RW!ReaderEnters(s) /\ ~RW!PrefReaderEnters(s) /\ ~RW!PrefReaderTakesLock(s)
    BY <1>1 DEF RW!ReaderEnters, RW!PrefReaderEnters, RW!PrefReaderTakesLock
  <2>3. CASE RW!ReaderWaits(s) \/ RW!LastUnlocks(s)
    BY <2>3 DEF RW!ReaderWaits, RW!LastUnlocks, RW!Goto, RWInv, RWTyped
  <2>4. CASE RW!ReaderTakesLock(s)
    BY <2>4, <1>3 DEF RW!ReaderTakesLock, RW!Goto, RWInv, RWTyped
  <2>5. CASE RW!PrefReaderSets(s)
    BY <2>5, <1>1 DEF RW!PrefReaderSets, RWInv, RWTyped
  <2>6. CASE RW!ReaderLeaves(s)
    BY <2>6, <1>1 DEF RW!ReaderLeaves, RW!Goto, RW!BroadcastAndGoto, RWInv, RWTyped
  <2>7. QED
    BY <2>1, <2>2, <2>3, <2>4, <2>5, <2>6 DEF RW!Reader
<1>5. CASE \E u \in Writers : RW!Writer(u)
  <2>1. PICK u \in Writers : RW!Writer(u)
    BY <1>5
  <2>2. rwpc'[r] = rwpc[r] \/ rwpc'[r] = "start"
    BY <2>1 DEF RW!Writer, RW!WriterCounts, RW!WriterTests, RW!WriterTakesLock,
       RW!WriterUncounts, RW!WriterUnlocks, RW!LastUnlocks, RW!Goto, RW!BroadcastAndGoto,
       RWInv, RWTyped
  <2>3. QED
    BY <2>2
<1>6. CASE \E t \in Readers \cup Writers : RW!Spurious(t)
  BY <1>6 DEF RW!Spurious, RW!Goto, RWInv, RWTyped
<1>7. CASE \E s \in Readers : RW!PrefReaderStrays(s)
  BY <1>1, <1>7 DEF RW!PrefReaderStrays
<1>8. QED
  BY <1>4, <1>5, <1>6, <1>7 DEF RW!Next

-----------------------------------------------------------------------------
(* The semaphores *)

\* The thread whose zem_up() raises thread u's semaphore.
Prev(u) == IF u = 0 THEN NUM_THREADS - 1 ELSE u - 1

\* How often thread t has called zem_up(), how often t's own semaphore was raised,
\* main() included, and how often t has entered zem_down() and come out of it.
Ups(t) == iter[t] - IF zpc[t] = "up" THEN 1 ELSE 0
Raised(t) == Ups(Prev(t)) + IF t = 0 THEN 1 ELSE 0
Downs(t) == iter[t] + IF zpc[t] \in {"waiting", "print"} THEN 1 ELSE 0
Passed(t) == iter[t] + IF zpc[t] = "print" THEN 1 ELSE 0

ToggleTyped ==
    /\ value \in [Sem!Ids -> Int]
    /\ iter \in [Sem!Ids -> Nat] /\ stray \in [Sem!Ids -> Nat]
    /\ zpc \in [Sem!Ids -> {"down", "waiting", "print", "up", "done"}]

\* A thread has one more line to print until it has printed its last.
ItersLeft(t) ==
    /\ iter[t] <= NUM_ITER
    /\ zpc[t] \in {"down", "waiting", "print"} => iter[t] < NUM_ITER
    /\ zpc[t] = "up" => iter[t] > 0

\* A semaphore's value is the balance of its calls, and its thread passes once for
\* every zem_up() at most, and once more for every wait that ended for no reason.
Balanced(t) ==
    /\ value[t] = Raised(t) - Downs(t)
    /\ Passed(t) <= Raised(t) + stray[t]
    /\ stray[t] <= Passed(t)

ToggleInv == ToggleTyped /\ \A t \in Sem!Ids : ItersLeft(t) /\ Balanced(t)

Arrived == {r \in Sem!Requests : bpc[r] # "start"}
Served == {r \in Sem!Requests : bpc[r] = "done"}

\* The producer is woken once, when all have arrived, and what it posts is
\* waiting in cv_req or has let a request through.
BatchInv ==
    /\ bpc \in [0..BATCH -> {"start", "blocked", "posting", "done"}]
    /\ cnt = Cardinality(Arrived)
    /\ cv_prod = IF cnt = BATCH /\ bpc[0] = "start" THEN 1 ELSE 0
    /\ bpc[0] # "start" => cnt = BATCH
    /\ cv_req \in Nat /\ posts \in 0..BATCH
    /\ cv_req + Cardinality(Served) = posts
    /\ bpc[0] = "start" => posts = 0
    /\ bpc[0] = "posting" => posts < BATCH

\* The thread before another one is its only predecessor.
LEMMA PrevOf ==
    ASSUME NEW t \in Sem!Ids
    PROVE  /\ Prev(t) \in Sem!Ids
           /\ \A u \in Sem!Ids : (t + 1) % NUM_THREADS = u <=> Prev(u) = t
<1>1. (t + 1) % NUM_THREADS = IF t = NUM_THREADS - 1 THEN 0 ELSE t + 1
  BY NextSlot, LabAssumption DEF Sem!Ids, LabAssumption
<1>2. QED
  BY <1>1, LabAssumption DEF Prev, Sem!Ids, LabAssumption

\* At first only main() has raised a semaphore, thread 0's.
LEMMA ToggleInit ==
    ASSUME Sem!Init
    PROVE  ToggleInv
<1> USE LabAssumption DEF LabAssumption, Sem!Init
<1>1. ToggleTyped
  BY DEF ToggleTyped
<1>2. ASSUME NEW t \in Sem!Ids
      PROVE  ItersLeft(t) /\ Balanced(t)
  <2>1. Prev(t) \in Sem!Ids
    BY PrevOf
  <2>2. QED
    BY <2>1 DEF ItersLeft, Balanced, Raised, Ups, Downs, Passed
<1>3. QED
  BY <1>1, <1>2 DEF ToggleInv

\* The counts of the threads are numbers.
LEMMA TogglesCount ==
    ASSUME ToggleInv, NEW t \in Sem!Ids
    PROVE  Ups(t) \in Nat /\ Raised(t) \in Nat /\ Downs(t) \in Nat /\ Passed(t) \in Nat
<1>1. \A u \in Sem!Ids : Ups(u) \in Nat
  BY DEF ToggleInv, ToggleTyped, ItersLeft, Ups
<1>2. Raised(t) \in Nat
  BY <1>1, PrevOf DEF Raised
<1>3. QED
  BY <1>1, <1>2 DEF ToggleInv, ToggleTyped, Downs, Passed

\* A step of thread t that raises no semaphore leaves the others' counts alone.
LEMMA NotRaised ==
    ASSUME ToggleInv, ToggleTyped', NEW t \in Sem!Ids,
           \A u \in Sem!Ids \ {t} : zpc'[u] = zpc[u] /\ iter'[u] = iter[u]
                                   /\ value'[u] = value[u] /\ stray'[u] = stray[u],
           Ups(t)' = Ups(t),
           ItersLeft(t)',
           value'[t] = Raised(t) - Downs(t)',
           Passed(t)' <= Raised(t) + stray'[t],
           stray'[t] <= Passed(t)'
    PROVE  ToggleInv'
<1>1. \A u \in Sem!Ids : Ups(u)' = Ups(u)
  BY DEF Ups
<1>2. \A u \in Sem!Ids : Raised(u)' = Raised(u)
  BY <1>1, PrevOf DEF Raised, Prev
<1>3. \A u \in Sem!Ids \ {t} : Downs(u)' = Downs(u) /\ Passed(u)' = Passed(u)
  BY DEF Downs, Passed
<1>4. \A u \in Sem!Ids \ {t} : ItersLeft(u)'
  BY DEF ToggleInv, ItersLeft
<1>5. \A u \in Sem!Ids : Balanced(u)'
  BY <1>2, <1>3 DEF ToggleInv, Balanced
<1>6. QED
  BY <1>4, <1>5 DEF ToggleInv

\* zem_down() passes when the semaphore was raised more often than entered.
LEMMA ZemDownKeeps ==
    ASSUME ToggleInv, NEW t \in Sem!Ids, Sem!ZemDown(t)
    PROVE  ToggleInv'
<1> DEFINE label == IF value[t] - 1 < 0 THEN "waiting" ELSE "print"
<1>1. /\ zpc[t] = "down" /\ iter' = iter /\ stray' = stray
      /\ value' = [value EXCEPT ![t] = @ - 1]
      /\ zpc' = [zpc EXCEPT ![t] = label]
  BY DEF Sem!ZemDown, Sem!ZemWaits
<1>2. ToggleTyped'
  BY <1>1 DEF ToggleInv, ToggleTyped
<1>3. zpc'[t] = label /\ value'[t] = value[t] - 1
  BY <1>1 DEF ToggleInv, ToggleTyped
<1>4. Balanced(t) /\ ItersLeft(t) /\ iter[t] \in Nat /\ stray[t] \in Nat /\ Raised(t) \in Nat
  BY TogglesCount DEF ToggleInv, ToggleTyped
<1>5. Ups(t)' = Ups(t) /\ Downs(t)' = Downs(t) + 1 /\ Downs(t) = iter[t] /\ Passed(t) = iter[t]
      /\ Passed(t)' = iter[t] + IF label = "print" THEN 1 ELSE 0
  BY <1>1, <1>3, <1>4 DEF Ups, Downs, Passed
<1>6. ItersLeft(t)'
  BY <1>1, <1>3, <1>4 DEF ItersLeft
<1>7. value'[t] = Raised(t) - Downs(t)' /\ Passed(t)' <= Raised(t) + stray'[t]
      /\ stray'[t] <= Passed(t)'
  BY <1>1, <1>3, <1>4, <1>5 DEF Balanced
<1> HIDE DEF label
<1>8. \A u \in Sem!Ids \ {t} : zpc'[u] = zpc[u] /\ iter'[u] = iter[u]
                             /\ value'[u] = value[u] /\ stray'[u] = stray[u]
  BY <1>1 DEF ToggleInv, ToggleTyped
<1>9. QED
  BY <1>2, <1>5, <1>6, <1>7, <1>8, NotRaised

\* A wait that ends for no reason lets the thread pass, and is counted.
LEMMA ZemStraysKeeps ==
    ASSUME ToggleInv, NEW t \in Sem!Ids, Sem!ZemStrays(t)
    PROVE  ToggleInv'
<1>1. /\ zpc[t] = "waiting" /\ iter' = iter /\ value' = value
      /\ stray' = [stray EXCEPT ![t] = @ + 1]
      /\ zpc' = [zpc EXCEPT ![t] = "print"]
  BY DEF Sem!ZemStrays
<1>2. ToggleTyped'
  BY <1>1 DEF ToggleInv, ToggleTyped
<1>3. zpc'[t] = "print" /\ stray'[t] = stray[t] + 1
  BY <1>1 DEF ToggleInv, ToggleTyped
<1>4. Balanced(t) /\ ItersLeft(t) /\ iter[t] \in Nat /\ stray[t] \in Nat /\ Raised(t) \in Nat
  BY TogglesCount DEF ToggleInv, ToggleTyped
<1>5. Ups(t)' = Ups(t) /\ Downs(t)' = Downs(t) /\ Passed(t) = iter[t] /\ Passed(t)' = iter[t] + 1
  BY <1>1, <1>3, <1>4 DEF Ups, Downs, Passed
<1>6. ItersLeft(t)'
  BY <1>1, <1>3, <1>4 DEF ItersLeft
<1>7. value'[t] = Raised(t) - Downs(t)' /\ Passed(t)' <= Raised(t) + stray'[t]
      /\ stray'[t] <= Passed(t)'
  BY <1>1, <1>3, <1>4, <1>5 DEF Balanced
<1>8. \A u \in Sem!Ids \ {t} : zpc'[u] = zpc[u] /\ iter'[u] = iter[u]
                             /\ value'[u] = value[u] /\ stray'[u] = stray[u]
  BY <1>1 DEF ToggleInv, ToggleTyped
<1>9. QED
  BY <1>2, <1>5, <1>6, <1>7, <1>8, NotRaised

\* A thread that has passed prints its line.
LEMMA PrintLineKeeps ==
    ASSUME ToggleInv, NEW t \in Sem!Ids, Sem!PrintLine(t)
    PROVE  ToggleInv'
<1>1. /\ zpc[t] = "print" /\ value' = value /\ stray' = stray
      /\ iter' = [iter EXCEPT ![t] = @ + 1]
      /\ zpc' = [zpc EXCEPT ![t] = "up"]
  BY DEF Sem!PrintLine
<1>2. ToggleTyped'
  BY <1>1 DEF ToggleInv, ToggleTyped
<1>3. zpc'[t] = "up" /\ iter'[t] = iter[t] + 1
  BY <1>1 DEF ToggleInv, ToggleTyped
<1>4. Balanced(t) /\ ItersLeft(t) /\ iter[t] \in Nat /\ stray[t] \in Nat /\ Raised(t) \in Nat
  BY TogglesCount DEF ToggleInv, ToggleTyped
<1>5. Ups(t)' = Ups(t) /\ Downs(t)' = Downs(t) /\ Passed(t)' = Passed(t)
  BY <1>1, <1>3, <1>4 DEF Ups, Downs, Passed
<1>6. ItersLeft(t)'
  BY <1>1, <1>3, <1>4, LabAssumption DEF ItersLeft, LabAssumption
<1>7. value'[t] = Raised(t) - Downs(t)' /\ Passed(t)' <= Raised(t) + stray'[t]
      /\ stray'[t] <= Passed(t)'
  BY <1>1, <1>4, <1>5 DEF Balanced
<1>8. \A u \in Sem!Ids \ {t} : zpc'[u] = zpc[u] /\ iter'[u] = iter[u]
                             /\ value'[u] = value[u] /\ stray'[u] = stray[u]
  BY <1>1 DEF ToggleInv, ToggleTyped
<1>9. QED
  BY <1>2, <1>5, <1>6, <1>7, <1>8, NotRaised

\* zem_up() raises the next thread's semaphore, and lets that thread pass if it waits.
LEMMA ZemUpKeeps ==
    ASSUME ToggleInv, NEW t \in Sem!Ids, Sem!ZemUp(t)
    PROVE  ToggleInv'
<1> DEFINE u == (t + 1) % NUM_THREADS
           after == IF iter[t] = NUM_ITER THEN "done" ELSE "down"
<1>1. /\ zpc[t] = "up" /\ iter' = iter /\ stray' = stray
      /\ value' = [value EXCEPT ![u] = @ + 1]
      /\ zpc' = [v \in Sem!Ids |-> IF v = t THEN after
                   ELSE IF v = u /\ zpc[v] = "waiting" THEN "print" ELSE zpc[v]]
  BY DEF Sem!ZemUp
<1>2. u \in Sem!Ids /\ Prev(u) = t /\ \A v \in Sem!Ids : v # u => Prev(v) # t
  <2>1. u = IF t = NUM_THREADS - 1 THEN 0 ELSE t + 1
    BY NextSlot, LabAssumption DEF Sem!Ids, LabAssumption
  <2>2. u \in Sem!Ids
    BY <2>1, LabAssumption DEF Sem!Ids, LabAssumption
  <2>3. QED
    BY <2>2, PrevOf
<1> HIDE DEF u
<1>3. /\ zpc'[t] = after /\ value'[u] = value[u] + 1
      /\ \A v \in Sem!Ids : v # u => value'[v] = value[v]
      /\ \A v \in Sem!Ids : v # t =>
           zpc'[v] = IF v = u /\ zpc[v] = "waiting" THEN "print" ELSE zpc[v]
  BY <1>1, <1>2 DEF ToggleInv, ToggleTyped
<1>4. ToggleTyped'
  BY <1>1, <1>2 DEF ToggleInv, ToggleTyped
<1>5. \A v \in Sem!Ids : iter[v] \in Nat /\ stray[v] \in Nat /\ value[v] \in Int
  BY DEF ToggleInv, ToggleTyped
<1>6. Ups(t)' = Ups(t) + 1 /\ \A v \in Sem!Ids : v # t => Ups(v)' = Ups(v)
  BY <1>1, <1>3, <1>5 DEF Ups
<1>7. \A v \in Sem!Ids : Raised(v) \in Nat /\ Raised(v)' = Raised(v) + IF v = u THEN 1 ELSE 0
  <2>1. ASSUME NEW v \in Sem!Ids
        PROVE  Raised(v) \in Nat /\ Raised(v)' = Raised(v) + IF v = u THEN 1 ELSE 0
    <3>1. Prev(v) \in Sem!Ids /\ Prev(v)' = Prev(v) /\ Ups(Prev(v)) \in Nat
      BY PrevOf, TogglesCount DEF Prev
    <3>2. Prev(v) = t <=> v = u
      BY <1>2
    <3>3. QED
      BY <1>6, <3>1, <3>2, TogglesCount DEF Raised
  <2>2. QED
    BY <2>1
<1>8. \A v \in Sem!Ids : Downs(v)' = Downs(v) /\ Downs(v) \in Nat
  BY <1>1, <1>3, <1>5 DEF Downs
<1>9. \A v \in Sem!Ids :
        /\ Passed(v) \in Nat
        /\ Passed(v)' = Passed(v) + IF v = u /\ v # t /\ zpc[v] = "waiting" THEN 1 ELSE 0
  BY <1>1, <1>3, <1>5 DEF Passed
<1>10. \A v \in Sem!Ids : ItersLeft(v)'
  BY <1>1, <1>3, <1>5, LabAssumption DEF ToggleInv, ItersLeft, LabAssumption
<1>11. \A v \in Sem!Ids : Balanced(v)'
  BY <1>1, <1>3, <1>5, <1>7, <1>8, <1>9 DEF ToggleInv, Balanced
<1>12. QED
  BY <1>4, <1>10, <1>11 DEF ToggleInv

\* The balance says that the lines are printed in turn, but for the stray ones, and
\* bounds the semaphores.
LEMMA ToggleSafe ==
    ASSUME ToggleInv
    PROVE  /\ Sem!InTurn
           /\ value \in [Sem!Ids -> -NUM_ITER..NUM_ITER + 1]
           /\ iter \in [Sem!Ids -> 0..NUM_ITER] /\ stray \in [Sem!Ids -> 0..NUM_ITER]
<1> USE LabAssumption DEF LabAssumption
<1>1. ASSUME NEW t \in Sem!Ids
      PROVE  /\ iter[t] \in 0..NUM_ITER /\ Ups(t) \in 0..iter[t]
             /\ Downs(t) \in 0..NUM_ITER /\ Passed(t) \in iter[t]..NUM_ITER
  BY DEF ToggleInv, ToggleTyped, ItersLeft, Ups, Downs, Passed
<1>2. ASSUME NEW t \in Sem!Ids
      PROVE  /\ iter[t] <= stray[t] + IF t = 0 THEN iter[NUM_THREADS - 1] + 1 ELSE iter[t - 1]
             /\ value[t] \in -NUM_ITER..NUM_ITER + 1 /\ stray[t] \in 0..NUM_ITER
  <2>1. Prev(t) \in Sem!Ids
    BY PrevOf
  <2>2. Raised(t) \in 0..iter[Prev(t)] + (IF t = 0 THEN 1 ELSE 0)
    BY <2>1, <1>1 DEF Raised
  <2>3. Balanced(t) /\ stray[t] \in Nat
    BY DEF ToggleInv, ToggleTyped
  <2>4. iter[t] <= iter[Prev(t)] + (IF t = 0 THEN 1 ELSE 0) + stray[t]
    BY <2>1, <2>2, <2>3, <1>1 DEF Balanced
  <2>5. value[t] \in -NUM_ITER..NUM_ITER + 1 /\ stray[t] \in 0..NUM_ITER
    BY <2>1, <2>2, <2>3, <1>1 DEF Balanced
  <2>6. QED
    BY <2>1, <2>3, <2>4, <2>5, <1>1 DEF Prev
<1>3. QED
  BY <1>1, <1>2 DEF ToggleInv, ToggleTyped, Sem!InTurn

\* At the start of a batch nobody has arrived and nothing is posted.
LEMMA BatchInit ==
    ASSUME Sem!Init
    PROVE  BatchInv
<1> USE LabAssumption DEF LabAssumption, Sem!Init
<1>1. Arrived = {} /\ Served = {}
  BY DEF Arrived, Served, Sem!Requests
<1>2. Cardinality({}) = 0
  BY FS_EmptySet
<1>3. QED
  BY <1>1, <1>2 DEF BatchInv

\* The requests are BATCH many.
LEMMA RequestsSize ==
    /\ IsFiniteSet(Sem!Requests) /\ Cardinality(Sem!Requests) = BATCH
    /\ IsFiniteSet(Arrived) /\ Cardinality(Arrived) \in 0..BATCH
    /\ IsFiniteSet(Served) /\ Cardinality(Served) \in 0..BATCH
<1> USE LabAssumption DEF LabAssumption
<1>1. IsFiniteSet(Sem!Requests) /\ Cardinality(Sem!Requests) = BATCH
  BY FS_Interval DEF Sem!Requests
<1>2. Arrived \in SUBSET Sem!Requests /\ Served \in SUBSET Sem!Requests
  BY DEF Arrived, Served
<1>3. QED
  BY <1>1, <1>2, SubsetSize

\* The request that completes the batch raises cv_prod, and only that one.
LEMMA RequestArrivesKeeps ==
    ASSUME BatchInv, NEW r \in Sem!Requests, Sem!RequestArrives(r)
    PROVE  BatchInv'
<1> USE LabAssumption DEF LabAssumption
<1>1. /\ bpc[r] = "start" /\ cnt' = cnt + 1
      /\ cv_prod' = cv_prod + IF cnt + 1 = BATCH THEN 1 ELSE 0
      /\ bpc' = [bpc EXCEPT ![r] = "blocked"]
      /\ cv_req' = cv_req /\ posts' = posts
  BY DEF Sem!RequestArrives, Sem!Raises
<1>2. r \in 0..BATCH /\ r # 0
  BY DEF Sem!Requests
<1>3. /\ bpc' \in [0..BATCH -> {"start", "blocked", "posting", "done"}]
      /\ bpc'[r] = "blocked" /\ bpc'[0] = bpc[0]
      /\ \A q \in Sem!Requests : q # r => bpc'[q] = bpc[q]
  BY <1>1, <1>2 DEF BatchInv, Sem!Requests
<1>4. /\ Arrived' = Arrived \cup {r} /\ r \notin Arrived
      /\ Served' = Served
  BY <1>1, <1>3 DEF Arrived, Served
<1>5. cnt' = Cardinality(Arrived')
  BY <1>1, <1>4, RequestsSize, OneMore DEF BatchInv
<1>6. cnt \in 0..BATCH - 1
  <2>1. Arrived' \in SUBSET Sem!Requests
    BY <1>4 DEF Arrived
  <2>2. Cardinality(Arrived') \in 0..BATCH
    BY <2>1, RequestsSize, SubsetSize
  <2>3. QED
    BY <2>2, <1>1, <1>5, RequestsSize DEF BatchInv
<1>7. bpc[0] = "start" /\ cv_prod = 0
  BY <1>6 DEF BatchInv
<1>8. QED
  BY <1>1, <1>3, <1>4, <1>5, <1>6, <1>7 DEF BatchInv

\* A request that goes through has used up one post.
LEMMA RequestServedKeeps ==
    ASSUME BatchInv, NEW r \in Sem!Requests, Sem!RequestServed(r)
    PROVE  BatchInv'
<1> USE LabAssumption DEF LabAssumption
<1>1. /\ bpc[r] = "blocked" /\ cv_req > 0 /\ cv_req' = cv_req - 1
      /\ bpc' = [bpc EXCEPT ![r] = "done"]
      /\ cnt' = cnt /\ cv_prod' = cv_prod /\ posts' = posts
  BY DEF Sem!RequestServed
<1>2. r \in 0..BATCH /\ r # 0
  BY DEF Sem!Requests
<1>3. /\ bpc' \in [0..BATCH -> {"start", "blocked", "posting", "done"}]
      /\ bpc'[r] = "done" /\ bpc'[0] = bpc[0]
      /\ \A q \in Sem!Requests : q # r => bpc'[q] = bpc[q]
  BY <1>1, <1>2 DEF BatchInv, Sem!Requests
<1>4. /\ Arrived' = Arrived
      /\ Served' = Served \cup {r} /\ r \notin Served
  BY <1>1, <1>3 DEF Arrived, Served
<1>5. Cardinality(Served') = Cardinality(Served) + 1
  BY <1>4, RequestsSize, OneMore
<1>6. cv_req' \in Nat /\ cv_req' + Cardinality(Served') = posts
  BY <1>1, <1>5, RequestsSize DEF BatchInv
<1>7. QED
  BY <1>1, <1>3, <1>4, <1>6 DEF BatchInv

\* The producer wakes when the batch is complete, and posts as often as there
\* are requests.
LEMMA ProducerKeeps ==
    ASSUME BatchInv, Sem!Producer
    PROVE  BatchInv'
<1> USE LabAssumption DEF LabAssumption
<1>1. CASE Sem!ProducerWoken
  <2>1. /\ bpc[0] = "start" /\ cv_prod > 0 /\ cv_prod' = cv_prod - 1
        /\ bpc' = [bpc EXCEPT ![0] = "posting"]
        /\ cnt' = cnt /\ cv_req' = cv_req /\ posts' = posts
    BY <1>1 DEF Sem!ProducerWoken
  <2>2. cv_prod = 1 /\ cnt = BATCH /\ posts = 0
    BY <2>1 DEF BatchInv
  <2>3. /\ bpc' \in [0..BATCH -> {"start", "blocked", "posting", "done"}]
        /\ bpc'[0] = "posting"
        /\ \A q \in Sem!Requests : bpc'[q] = bpc[q]
    BY <2>1 DEF BatchInv, Sem!Requests
  <2>4. Arrived' = Arrived /\ Served' = Served
    BY <2>3 DEF Arrived, Served
  <2>5. /\ cnt' = Cardinality(Arrived') /\ cv_prod' = 0
        /\ cv_req' \in Nat /\ cv_req' + Cardinality(Served') = posts'
        /\ posts' = 0 /\ cnt' = BATCH
    <3>1. cnt' = Cardinality(Arrived')
      BY <2>1, <2>4 DEF BatchInv
    <3>2. cv_req' \in Nat /\ cv_req' + Cardinality(Served') = posts'
      BY <2>1, <2>4 DEF BatchInv
    <3>3. cv_prod' = 0 /\ posts' = 0 /\ cnt' = BATCH
      BY <2>1, <2>2
    <3>4. QED
      BY <3>1, <3>2, <3>3
  <2>6. bpc'[0] # "start" /\ 0 < BATCH /\ 0 \in 0..BATCH
    BY <2>3
  <2>7. QED
    BY <2>3, <2>5, <2>6 DEF BatchInv
<1>2. CASE Sem!ProducerPosts
  <2> DEFINE label == IF posts + 1 = BATCH THEN "done" ELSE "posting"
  <2>1. /\ bpc[0] = "posting" /\ cv_req' = cv_req + 1 /\ posts' = posts + 1
        /\ bpc' = [bpc EXCEPT ![0] = label]
        /\ cnt' = cnt /\ cv_prod' = cv_prod
    BY <1>2 DEF Sem!ProducerPosts
  <2>2. posts \in 0..BATCH - 1 /\ cv_prod = 0 /\ cnt = BATCH
    BY <2>1 DEF BatchInv
  <2>3. /\ bpc' \in [0..BATCH -> {"start", "blocked", "posting", "done"}]
        /\ bpc'[0] = label
        /\ \A q \in Sem!Requests : bpc'[q] = bpc[q]
    BY <2>1 DEF BatchInv, Sem!Requests
  <2>4. Arrived' = Arrived /\ Served' = Served
    BY <2>3 DEF Arrived, Served
  <2>5. cv_req' \in Nat /\ cv_req' + Cardinality(Served') = posts'
    BY <2>1, <2>4, RequestsSize DEF BatchInv
  <2>6. cnt' = Cardinality(Arrived') /\ cv_prod' = 0 /\ cnt' = BATCH
    BY <2>1, <2>2, <2>4 DEF BatchInv
  <2>7. /\ bpc'[0] # "start" /\ posts' \in 0..BATCH
        /\ bpc'[0] = "posting" => posts' < BATCH
    BY <2>1, <2>2, <2>3
  <2>8. QED
    BY <2>3, <2>5, <2>6, <2>7 DEF BatchInv
<1>3. QED
  BY <1>1, <1>2 DEF Sem!Producer

\* A request is served only after the producer posted, that is, when all are there.
LEMMA BatchSafe ==
    ASSUME BatchInv
    PROVE  /\ Sem!ServedTogether
           /\ cnt \in 0..BATCH /\ cv_prod \in 0..1 /\ cv_req \in 0..BATCH
<1> USE LabAssumption DEF LabAssumption
<1>1. cnt \in 0..BATCH /\ cv_prod \in 0..1 /\ cv_req \in 0..BATCH
  BY RequestsSize DEF BatchInv
<1>2. ASSUME NEW r \in Sem!Requests, bpc[r] = "done"
      PROVE  cnt = BATCH
  <2>1. Cardinality(Served) # 0
    BY <1>2, RequestsSize, NoneCounted DEF Served
  <2>2. posts # 0
    BY <2>1, RequestsSize DEF BatchInv
  <2>3. QED
    BY <2>2 DEF BatchInv
<1>3. QED
  BY <1>1, <1>2 DEF Sem!ServedTogether

SemInv == ToggleInv /\ BatchInv

\* Both programs start and go on as said; each leaves the other's state alone.
LEMMA SemInitial ==
    ASSUME Sem!Init
    PROVE  SemInv
BY ToggleInit, BatchInit DEF SemInv

\* The balances depend on the variables of "toggle" only.
LEMMA ToggleUnchanged ==
    ASSUME ToggleInv, UNCHANGED Sem!toggle
    PROVE  ToggleInv'
<1>1. value' = value /\ iter' = iter /\ stray' = stray /\ zpc' = zpc
  BY DEF Sem!toggle
<1>2. ToggleTyped'
  BY <1>1 DEF ToggleInv, ToggleTyped
<1>3. \A t \in Sem!Ids : ItersLeft(t)' /\ Balanced(t)'
  BY <1>1 DEF ToggleInv, ItersLeft, Balanced, Raised, Ups, Downs, Passed, Prev
<1>4. QED
  BY <1>2, <1>3 DEF ToggleInv

\* The counts depend on the variables of "batch" only.
LEMMA BatchUnchanged ==
    ASSUME BatchInv, UNCHANGED Sem!batch
    PROVE  BatchInv'
BY DEF BatchInv, Arrived, Served, Sem!batch

\* Every step of the semaphore programs keeps the invariant.
LEMMA SemStep ==
    ASSUME SemInv, Sem!Next
    PROVE  SemInv'
<1>1. CASE \E t \in Sem!Ids : Sem!Thread(t) \/ Sem!ZemStrays(t)
  <2>1. UNCHANGED Sem!batch
    BY <1>1 DEF Sem!Thread, Sem!ZemDown, Sem!ZemStrays, Sem!PrintLine, Sem!ZemUp
  <2>2. QED
    BY <1>1, <2>1, BatchUnchanged, ZemDownKeeps, ZemStraysKeeps, PrintLineKeeps, ZemUpKeeps
    DEF SemInv, Sem!Thread
<1>2. CASE (\E r \in Sem!Requests : Sem!Request(r)) \/ Sem!Producer
  <2>1. UNCHANGED Sem!toggle
    BY <1>2 DEF Sem!Request, Sem!RequestArrives, Sem!RequestServed,
       Sem!Producer, Sem!ProducerWoken, Sem!ProducerPosts
  <2>2. QED
    BY <1>2, <2>1, ToggleUnchanged, RequestArrivesKeeps, RequestServedKeeps, ProducerKeeps
    DEF SemInv, Sem!Request
<1>3. QED
  BY <1>1, <1>2 DEF Sem!Next

\* What the test programs of the semaphores print is in order.
LEMMA SemSafe ==
    ASSUME SemInv
    PROVE  Sem!TypeOK /\ Sem!InTurn /\ Sem!ServedTogether
<1>1. Sem!TypeOK
  BY ToggleSafe, BatchSafe DEF SemInv, ToggleInv, ToggleTyped, BatchInv, Sem!TypeOK
<1>2. QED
  BY <1>1, ToggleSafe, BatchSafe DEF SemInv

-----------------------------------------------------------------------------
(* The master-worker programs *)

MWLabels == {"start", "loop", "test", "waiting", "woken", "done"}

\* The slots of the solution's stack that hold item i.
Places(i) == {s \in MW!Slots : s < curr_buf_size /\ buffer[s] = i}

\* An item that was produced is in the buffer or was consumed, once.
StackInv ==
    /\ item_to_produce <= total_items
    /\ \A t \in MW!Threads : mwpc[t] \notin {"loop", "test"}
    /\ \A i \in MW!Items :
          consumed[i] + Cardinality(Places(i)) = IF i < item_to_produce THEN 1 ELSE 0

\* How far slot s of the ring is from the one that is read next, and how many
\* items wait there.
Distance(s) == IF s >= curr_cons_size THEN s - curr_cons_size
               ELSE s - curr_cons_size + max_buf_size
Pending == Distance(curr_buf_size)

\* The masters that have produced their last item, or may have.
Stopped == {m \in Masters : mwpc[m] \in {"loop", "done"}}

\* The ring holds the last items produced, in order, and those were not consumed.
\* A master that is told to stop while the ring is full stores its item all the
\* same and makes the ring look empty: the items are lost, but not read twice.
RingItems ==
    /\ curr_buf_size \in MW!Slots
    /\ Pending <= item_to_produce
    /\ \A s \in MW!Slots : Distance(s) < Pending =>
          buffer[s] = item_to_produce - Pending + Distance(s)
    /\ \A i \in MW!Items :
          /\ consumed[i] <= 1
          /\ i >= item_to_produce - Pending => consumed[i] = 0

\* The thread in the loop has the mutex.  Masters are told to stop when all items
\* are produced, so that each of them stores at most one more.
RingTurns ==
    /\ \A t \in MW!Threads : mwpc[t] \in {"loop", "test"} <=> holder = t
    /\ \A m \in Masters : mwpc[m] = "test" => ready /\ item_to_produce < total_items
    /\ item_to_produce <= total_items + Cardinality(Stopped)
    /\ ready => item_to_produce <= total_items
    /\ (ready /\ item_to_produce >= total_items) =>
          total_items = 0 \/ \E m \in Masters : mwpc[m] = "loop"
    /\ total_items = 0 => \A t \in MW!Threads : mwpc[t] \in {"start", "done"}

MWInv ==
    /\ MW!TypeOK
    /\ lab = "stack" => StackInv
    /\ lab = "ring" => RingItems /\ RingTurns
    /\ lab \notin MasterWorkers => item_to_produce = 0 /\ \A i \in MW!Items : consumed[i] = 0

\* The ring until a master that was told to stop stores an item all the same: what
\* was read is what was produced and does not wait any more, and it was consumed.
\* A master is told to stop only when all the items have been produced.
RingKept ==
    /\ ~ready => item_to_produce >= total_items
    /\ item_to_produce <= total_items =>
          /\ item_to_read = item_to_produce - Pending
          /\ \A i \in MW!Items : i < item_to_read => consumed[i] = 1

\* A step of thread t, which goes on at label; of the others some may be woken.
Moves(t, label) ==
    /\ mwpc' \in [MW!Threads -> MWLabels]
    /\ mwpc'[t] = label
    /\ \A u \in MW!Threads : u # t =>
          mwpc'[u] = mwpc[u] \/ (mwpc[u] = "waiting" /\ mwpc'[u] = "woken")

MWData == <<holder, item_to_produce, item_to_read, buffer, curr_buf_size, curr_cons_size,
            ready, consumed>>

\* The size of a set is the same number in the master-worker module.
LEMMA MWSize == \A S : MW!Cardinality(S) = Cardinality(S)
BY DEF MW!Cardinality, Cardinality

\* Items are numbered up to one per master more than total_items.
LEMMA ItemsRange ==
    /\ MW!Items = 0..total_items + Cardinality(Masters)
    /\ Cardinality(Masters) \in Nat /\ total_items \in Nat
    /\ max_buf_size \in Nat \ {0}
BY LabAssumption, MWSize, FS_CardinalityType DEF LabAssumption, MW!Items

\* However threads are woken, by a broadcast or a signal, only waiting ones are.
LEMMA WakesOnlyWaiting ==
    ASSUME MW!TypeOK, NEW t \in MW!Threads, NEW label \in MWLabels, NEW S \in SUBSET MW!Threads,
           \/ MW!Goto(t, label)
           \/ MW!WakeAndGoto(t, label, MW!Waiting(S))
           \/ MW!SignalAndGoto(t, label, S)
    PROVE  Moves(t, label)
<1>1. mwpc \in [MW!Threads -> MWLabels]
  BY DEF MW!TypeOK, MWLabels
<1>2. ASSUME MW!Goto(t, label)
      PROVE  Moves(t, label)
  BY <1>1, <1>2 DEF MW!Goto, Moves
<1>3. ASSUME NEW W \in SUBSET MW!Waiting(S), MW!WakeAndGoto(t, label, W)
      PROVE  Moves(t, label)
  <2>1. \A u \in W : mwpc[u] = "waiting"
    BY DEF MW!Waiting
  <2>2. mwpc' = [u \in MW!Threads |-> IF u = t THEN label ELSE IF u \in W THEN "woken" ELSE mwpc[u]]
    BY <1>3 DEF MW!WakeAndGoto
  <2>3. mwpc' \in [MW!Threads -> MWLabels]
    BY <1>1, <2>2 DEF MWLabels
  <2>4. QED
    BY <2>1, <2>2, <2>3 DEF Moves
<1>4. ASSUME MW!SignalAndGoto(t, label, S)
      PROVE  Moves(t, label)
  <2>1. CASE MW!Waiting(S) = {}
    BY <2>1, <1>2, <1>4 DEF MW!SignalAndGoto
  <2>2. CASE MW!Waiting(S) # {}
    <3>1. PICK u \in MW!Waiting(S) : MW!WakeAndGoto(t, label, {u})
      BY <2>2, <1>4 DEF MW!SignalAndGoto
    <3>2. {u} \in SUBSET MW!Waiting(S)
      OBVIOUS
    <3>3. QED
      BY <1>3, <3>1, <3>2
  <2>3. QED
    BY <2>1, <2>2
<1>5. QED
  BY <1>2, <1>3, <1>4

\* The slots that hold an item are finitely many.
LEMMA PlacesFinite == ASSUME NEW i PROVE IsFiniteSet(Places(i)) /\ Cardinality(Places(i)) \in Nat
<1>1. IsFiniteSet(MW!Slots)
  BY FS_Interval, ItemsRange DEF MW!Slots
<1>2. Places(i) \in SUBSET MW!Slots
  BY DEF Places
<1>3. QED
  BY <1>1, <1>2, SubsetSize, FS_CardinalityType

\* Both programs start with an empty buffer.
LEMMA MWInit ==
    ASSUME MW!Init
    PROVE  MWInv
<1> USE ItemsRange DEF MW!Init
<1>1. MW!TypeOK
  BY DEF MW!TypeOK, MW!Slots
<1>2. StackInv
  <2>1. \A i : Places(i) = {}
    BY DEF Places, MW!Slots
  <2>2. QED
    <3>1. \A i \in MW!Items : consumed[i] = 0 /\ Cardinality(Places(i)) = 0 /\ ~(i < 0)
      BY <2>1, FS_EmptySet
    <3>2. \A t \in MW!Threads : mwpc[t] = "start"
      OBVIOUS
    <3>3. QED
      BY <3>1, <3>2 DEF StackInv
<1>3. RingItems
  BY DEF RingItems, Pending, Distance, MW!Slots
<1>4. RingTurns
  <2>1. \A t \in MW!Threads : mwpc[t] = "start" /\ holder # t
    BY LabAssumption DEF LabAssumption, MW!Threads
  <2>2. Masters \subseteq MW!Threads
    BY DEF MW!Threads
  <2>3. Stopped = {}
    BY <2>1, <2>2 DEF Stopped
  <2>4. QED
    BY <2>1, <2>2, <2>3, FS_EmptySet DEF RingTurns
<1>5. QED
  BY <1>1, <1>2, <1>3, <1>4 DEF MWInv

-----------------------------------------------------------------------------
(* The solution's stack *)

\* A step that only changes places keeps the stack's items.
LEMMA StackMoves ==
    ASSUME MWInv, lab = "stack", lab' = lab, NEW t \in MW!Threads,
           NEW label \in {"start", "waiting", "woken", "done"}, Moves(t, label), UNCHANGED MWData
    PROVE  MWInv'
<1> USE DEF MWData
<1>1. MW!TypeOK'
  BY DEF MWInv, MW!TypeOK, Moves, MWLabels
<1>2. \A u \in MW!Threads : mwpc'[u] \notin {"loop", "test"}
  BY DEF MWInv, StackInv, Moves
<1>3. \A i : Places(i)' = Places(i)
  BY DEF Places
<1>4. StackInv'
  BY <1>2, <1>3 DEF MWInv, StackInv
<1>5. QED
  BY <1>1, <1>4 DEF MWInv, MasterWorkers

\* The item that is produced gets the first free slot.
LEMMA StackProducesKeeps ==
    ASSUME MWInv, lab = "stack", lab' = lab, NEW m \in Masters, MW!StackProduces(m)
    PROVE  MWInv'
<1> USE ItemsRange
<1> DEFINE P == item_to_produce
           top == curr_buf_size
<1>1. /\ top < max_buf_size /\ P < total_items
      /\ buffer' = [buffer EXCEPT ![top] = P]
      /\ item_to_produce' = P + 1 /\ curr_buf_size' = top + 1
      /\ UNCHANGED <<holder, item_to_read, curr_cons_size, ready, consumed>>
      /\ MW!WakeAndGoto(m, "start", MW!Waiting(Workers))
  BY DEF MW!StackProduces, MW!Room, MW!Produce
<1>2. Moves(m, "start")
  BY <1>1, WakesOnlyWaiting DEF MWInv, MW!Threads, MWLabels
<1>3. top \in MW!Slots /\ P \in MW!Items /\ P \in Nat
  BY <1>1 DEF MWInv, MW!TypeOK, MW!Slots
<1>4. /\ buffer' \in [MW!Slots -> MW!Items]
      /\ buffer'[top] = P
      /\ \A s \in MW!Slots : s # top => buffer'[s] = buffer[s]
  BY <1>1, <1>3 DEF MWInv, MW!TypeOK
<1>5. MW!TypeOK'
  <2>1. item_to_produce' \in MW!Items /\ curr_buf_size' \in 0..max_buf_size
    BY <1>1, <1>3 DEF MW!Slots
  <2>2. QED
    BY <2>1, <1>1, <1>2, <1>4 DEF MWInv, MW!TypeOK, Moves, MWLabels
<1>6. \A u \in MW!Threads : mwpc'[u] \notin {"loop", "test"}
  BY <1>2 DEF MWInv, StackInv, Moves
<1>7. ASSUME NEW i \in MW!Items
      PROVE  consumed'[i] + Cardinality(Places(i)') = IF i < P + 1 THEN 1 ELSE 0
  <2>1. consumed'[i] = consumed[i] /\ consumed[i] \in Nat /\ i \in Nat
    BY <1>1 DEF MWInv, MW!TypeOK
  <2>2. consumed[i] + Cardinality(Places(i)) = IF i < P THEN 1 ELSE 0
    BY DEF MWInv, StackInv
  <2>3. CASE i = P
    <3>1. Places(i)' = Places(i) \cup {top} /\ top \notin Places(i)
      BY <2>3, <1>1, <1>3, <1>4 DEF Places, MW!Slots
    <3>2. Cardinality(Places(i)') = Cardinality(Places(i)) + 1
      BY <3>1, PlacesFinite, OneMore
    <3>3. QED
      BY <3>2, <2>1, <2>2, <2>3, PlacesFinite
  <2>4. CASE i # P
    <3>1. Places(i)' = Places(i)
      BY <2>4, <1>1, <1>3, <1>4 DEF Places, MW!Slots
    <3>2. QED
      BY <3>1, <2>1, <2>2, <2>4, <1>3
  <2>5. QED
    BY <2>3, <2>4
<1>8. StackInv'
  BY <1>1, <1>3, <1>6, <1>7 DEF StackInv
<1>9. QED
  BY <1>5, <1>8 DEF MWInv, MasterWorkers

\* The item that is consumed leaves the buffer by that.
LEMMA StackConsumesKeeps ==
    ASSUME MWInv, lab = "stack", lab' = lab, NEW w \in Workers, MW!StackConsumes(w)
    PROVE  MWInv'
<1> USE ItemsRange
<1> DEFINE P == item_to_produce
           top == curr_buf_size - 1
<1>0. top \in MW!Slots /\ buffer[top] \in MW!Items
  BY DEF MW!StackConsumes, MWInv, MW!TypeOK, MW!Slots
<1> PICK x \in MW!Items : x = buffer[top]
  BY <1>0
<1>1. /\ curr_buf_size > 0
      /\ consumed' = [consumed EXCEPT ![x] = @ + 1]
      /\ curr_buf_size' = top
      /\ UNCHANGED <<holder, item_to_produce, item_to_read, buffer, curr_cons_size, ready>>
      /\ MW!WakeAndGoto(w, "start", MW!Waiting(Masters))
  BY DEF MW!StackConsumes, MW!Consume, MW!Top
<1>2. Moves(w, "start")
  BY <1>1, WakesOnlyWaiting DEF MWInv, MW!Threads, MWLabels
<1>3. top \in MW!Slots /\ x \in MW!Items /\ P \in Nat
  BY <1>0 DEF MWInv, MW!TypeOK
<1>4. \A i \in MW!Items : consumed[i] + Cardinality(Places(i)) = IF i < P THEN 1 ELSE 0
  BY DEF MWInv, StackInv
<1>5. \A i \in MW!Items : consumed[i] \in Nat /\ i \in Nat
  BY DEF MWInv, MW!TypeOK
<1>6. /\ Places(x)' = Places(x) \ {top} /\ top \in Places(x)
      /\ \A i : i # x => Places(i)' = Places(i)
  <2>1. curr_buf_size \in Nat /\ MW!Slots \subseteq Int
    BY DEF MWInv, MW!TypeOK, MW!Slots
  <2>2. \A s \in MW!Slots : s < top <=> s < curr_buf_size /\ s # top
    BY <2>1
  <2>3. top < curr_buf_size /\ buffer[top] = x
    BY <2>1
  <2>4. curr_buf_size' = top /\ buffer' = buffer
    BY <1>1
  <2> HIDE DEF top
  <2>5. QED
    BY <1>3, <2>2, <2>3, <2>4 DEF Places
<1>7. Cardinality(Places(x)) \in Nat \ {0}
  BY <1>6, PlacesFinite, NoneCounted
<1>8. x < P /\ consumed[x] = 0 /\ Cardinality(Places(x)) = 1
  BY <1>3, <1>4, <1>5, <1>7
<1>9. /\ consumed' \in [MW!Items -> 0..total_items]
      /\ consumed'[x] = 1
      /\ \A i \in MW!Items : i # x => consumed'[i] = consumed[i]
  <2>1. 1 \in 0..total_items
    BY <1>3, <1>5, <1>8 DEF MWInv, StackInv
  <2>2. QED
    BY <2>1, <1>1, <1>3, <1>8 DEF MWInv, MW!TypeOK
<1>10. MW!TypeOK'
  <2>1. curr_buf_size' \in 0..max_buf_size
    BY <1>1, <1>3 DEF MW!Slots
  <2>2. QED
    BY <2>1, <1>1, <1>2, <1>9 DEF MWInv, MW!TypeOK, Moves, MWLabels
<1>11. \A u \in MW!Threads : mwpc'[u] \notin {"loop", "test"}
  BY <1>2 DEF MWInv, StackInv, Moves
<1>12. ASSUME NEW i \in MW!Items
       PROVE  consumed'[i] + Cardinality(Places(i)') = IF i < P THEN 1 ELSE 0
  <2>1. CASE i = x
    <3>1. Cardinality(Places(x)') = Cardinality(Places(x)) - 1
      BY <1>6, PlacesFinite, OneLess
    <3>2. QED
      BY <2>1, <3>1, <1>8, <1>9
  <2>2. CASE i # x
    BY <2>2, <1>4, <1>6, <1>9
  <2>3. QED
    BY <2>1, <2>2
<1>13. StackInv'
  BY <1>1, <1>11, <1>12 DEF MWInv, StackInv
<1>14. QED
  BY <1>10, <1>13 DEF MWInv, MasterWorkers

\* Every step of the solution's program keeps the invariant.
LEMMA StackStep ==
    ASSUME MWInv, lab = "stack", lab' = lab, MW!Next
    PROVE  MWInv'
<1>1. \A t \in MW!Threads : mwpc[t] \notin {"loop", "test"}
  BY DEF MWInv, StackInv
<1>2. Masters \in SUBSET MW!Threads /\ Workers \in SUBSET MW!Threads
  BY DEF MW!Threads
<1>3. ASSUME NEW t \in MW!Threads, MW!StackWaits(t)
      PROVE  MWInv'
  <2>1. Moves(t, "waiting")
    BY <1>3, WakesOnlyWaiting DEF MW!StackWaits, MWInv, MWLabels
  <2>2. UNCHANGED MWData
    BY <1>3 DEF MW!StackWaits, MWData
  <2>3. QED
    BY <2>1, <2>2, StackMoves
<1>4. ASSUME NEW m \in Masters, MW!StackMasterDone(m)
      PROVE  MWInv'
  <2>1. Moves(m, "done")
    BY <1>2, <1>4, WakesOnlyWaiting DEF MW!StackMasterDone, MWInv, MWLabels
  <2>2. UNCHANGED MWData
    BY <1>4 DEF MW!StackMasterDone, MWData
  <2>3. QED
    BY <1>2, <2>1, <2>2, StackMoves
<1>5. ASSUME NEW w \in Workers, MW!StackWorkerDone(w)
      PROVE  MWInv'
  <2>1. Moves(w, "done")
    BY <1>2, <1>5, WakesOnlyWaiting DEF MW!StackWorkerDone, MWInv, MWLabels
  <2>2. UNCHANGED MWData
    BY <1>5 DEF MW!StackWorkerDone, MWData
  <2>3. QED
    BY <1>2, <2>1, <2>2, StackMoves
<1>6. ASSUME NEW t \in MW!Threads, MW!Spurious(t)
      PROVE  MWInv'
  <2>1. Moves(t, "woken")
    BY <1>6, WakesOnlyWaiting DEF MW!Spurious, MWInv, MWLabels
  <2>2. UNCHANGED MWData
    BY <1>6 DEF MW!Spurious, MWData
  <2>3. QED
    BY <2>1, <2>2, StackMoves
<1>7. CASE \E m \in Masters : MW!Master(m)
  <2>1. PICK m \in Masters : MW!Master(m)
    BY <1>7
  <2>2. \/ MW!StackProduces(m) \/ MW!StackMasterDone(m) \/ MW!StackWaits(m)
    BY <2>1, <1>1, <1>2 DEF MW!Master, MW!RingMasterDone, MW!RingGoesOn, MW!RingWaits,
       MW!RingWoken, MW!RingProduces, MW!AtLoop
  <2>3. QED
    BY <2>2, <1>2, <1>3, <1>4, StackProducesKeeps
<1>8. CASE \E w \in Workers : MW!Worker(w)
  <2>1. PICK w \in Workers : MW!Worker(w)
    BY <1>8
  <2>2. \/ MW!StackConsumes(w) \/ MW!StackWorkerDone(w) \/ MW!StackWaits(w)
    BY <2>1, <1>1, <1>2 DEF MW!Worker, MW!RingWorkerDone, MW!RingGoesOn, MW!RingWaits,
       MW!RingWoken, MW!RingConsumes, MW!AtLoop
  <2>3. QED
    BY <2>2, <1>2, <1>3, <1>5, StackConsumesKeeps
<1>9. QED
  BY <1>6, <1>7, <1>8 DEF MW!Next

-----------------------------------------------------------------------------
(* The lab's ring *)

\* What the tests for a full and an empty ring tell of the items that wait.
LEMMA RingTests ==
    ASSUME MW!TypeOK, curr_buf_size \in MW!Slots
    PROVE  /\ Pending \in 0..max_buf_size - 1
           /\ MW!Empty <=> Pending = 0
           /\ MW!Full <=> Pending = max_buf_size - 1
           /\ \A s \in MW!Slots : Distance(s) \in 0..max_buf_size - 1
           /\ \A s \in MW!Slots : Distance(s) = Pending => s = curr_buf_size
           /\ \A s \in MW!Slots : Distance(s) = 0 => s = curr_cons_size
<1> USE ItemsRange
<1> DEFINE N == max_buf_size
<1>1. curr_buf_size \in 0..N - 1 /\ curr_cons_size \in 0..N - 1
  BY DEF MW!TypeOK, MW!Slots
<1>2. \A s \in MW!Slots : Distance(s) \in 0..N - 1
  BY <1>1 DEF Distance, MW!Slots
<1>3. (curr_buf_size + 1) % N = IF curr_buf_size = N - 1 THEN 0 ELSE curr_buf_size + 1
  BY <1>1, NextSlot
<1>4. MW!Full <=> Pending = N - 1
  BY <1>1, <1>3 DEF MW!Full, Pending, Distance
<1>5. MW!Empty <=> Pending = 0
  BY <1>1 DEF MW!Empty, Pending, Distance
<1>6. \A s \in MW!Slots : Distance(s) = Pending => s = curr_buf_size
  BY <1>1 DEF Distance, Pending, MW!Slots
<1>7. \A s \in MW!Slots : Distance(s) = 0 => s = curr_cons_size
  BY <1>1 DEF Distance, MW!Slots
<1>8. QED
  BY <1>2, <1>4, <1>5, <1>6, <1>7 DEF Pending

\* Storing an item after the last one; if the ring was full it looks empty now.
LEMMA RingStores ==
    ASSUME MW!TypeOK, RingItems,
           buffer' = [buffer EXCEPT ![curr_buf_size] = item_to_produce],
           item_to_produce' = item_to_produce + 1,
           curr_buf_size' = (curr_buf_size + 1) % max_buf_size,
           UNCHANGED <<curr_cons_size, consumed>>
    PROVE  /\ RingItems'
           /\ Pending' = IF Pending = max_buf_size - 1 THEN 0 ELSE Pending + 1
<1> USE ItemsRange
<1> DEFINE N == max_buf_size
           P == item_to_produce
           L == Pending
<1>1. /\ curr_buf_size \in 0..N - 1 /\ curr_cons_size \in 0..N - 1
      /\ curr_buf_size' = IF curr_buf_size = N - 1 THEN 0 ELSE curr_buf_size + 1
      /\ P \in Nat
  <2>1. curr_buf_size \in 0..N - 1 /\ curr_cons_size \in 0..N - 1 /\ P \in Nat
    BY DEF MW!TypeOK, MW!Slots, RingItems
  <2>2. (curr_buf_size + 1) % N = IF curr_buf_size = N - 1 THEN 0 ELSE curr_buf_size + 1
    BY <2>1, NextSlot
  <2>3. QED
    BY <2>1, <2>2
<1>2. \A s \in MW!Slots : Distance(s)' = Distance(s)
  BY DEF Distance
<1>3. Pending' = IF L = N - 1 THEN 0 ELSE L + 1
  BY <1>1 DEF Pending, Distance
<1>4. /\ L \in 0..N - 1
      /\ \A s \in MW!Slots : Distance(s) \in 0..N - 1
      /\ \A s \in MW!Slots : Distance(s) = L => s = curr_buf_size
  BY RingTests DEF RingItems
<1>5. /\ L <= P
      /\ \A s \in MW!Slots : Distance(s) < L => buffer[s] = P - L + Distance(s)
      /\ \A i \in MW!Items : consumed[i] <= 1 /\ (i >= P - L => consumed[i] = 0)
  BY DEF RingItems
<1>6. curr_buf_size' \in MW!Slots
  BY <1>1 DEF MW!Slots
<1>7. Distance(curr_buf_size) = L
  BY DEF Pending
<1>8. \A s \in MW!Slots : buffer'[s] = IF s = curr_buf_size THEN P ELSE buffer[s]
  BY DEF MW!TypeOK
<1> HIDE DEF L
<1>9. \A i \in MW!Items : i >= P + 1 - Pending' => i >= P - L
  BY <1>1, <1>3, <1>4
<1>10. ASSUME NEW s \in MW!Slots, Distance(s) < Pending'
       PROVE  buffer'[s] = P + 1 - Pending' + Distance(s)
  <2>1. L # N - 1 /\ Pending' = L + 1
    BY <1>3, <1>4, <1>10
  <2>2. CASE s = curr_buf_size
    BY <2>1, <2>2, <1>1, <1>4, <1>7, <1>8
  <2>3. CASE s # curr_buf_size
    <3>1. Distance(s) < L
      BY <2>1, <2>3, <1>4, <1>10
    <3>2. buffer'[s] = P - L + Distance(s)
      BY <3>1, <2>3, <1>5, <1>8
    <3>3. QED
      BY <3>2, <2>1, <1>1, <1>4
  <2>4. QED
    BY <2>2, <2>3
<1>11. Pending' <= P + 1
  BY <1>1, <1>3, <1>4, <1>5
<1>12. \A i \in MW!Items : consumed'[i] <= 1 /\ (i >= P + 1 - Pending' => consumed'[i] = 0)
  BY <1>5, <1>9
<1>13. \A s \in MW!Slots : Distance(s)' < Pending' => buffer'[s] = P + 1 - Pending' + Distance(s)'
  BY <1>2, <1>10
<1>14. item_to_produce' = P + 1 /\ P \in Int /\ Pending' \in Int
  BY <1>1, <1>3, <1>4
<1> HIDE DEF P
<1>15. (curr_buf_size \in MW!Slots)' /\ (Pending <= item_to_produce)'
  BY <1>6, <1>11, <1>14
<1>16. ASSUME NEW s \in MW!Slots, (Distance(s) < Pending)'
       PROVE  (buffer[s] = item_to_produce - Pending + Distance(s))'
  <2>1. buffer'[s] = P + 1 - Pending' + Distance(s)'
    BY <1>13, <1>16
  <2>2. Distance(s)' \in Int
    BY <1>2, <1>4
  <2>3. QED
    BY <2>1, <2>2, <1>14
<1>17. ASSUME NEW i \in MW!Items
       PROVE  consumed'[i] <= 1 /\ (i >= item_to_produce' - Pending' => consumed'[i] = 0)
  <2>1. i \in Int /\ item_to_produce' - Pending' = P + 1 - Pending'
    BY <1>14
  <2>2. QED
    BY <2>1, <1>12
<1>18. QED
  BY <1>3, <1>15, <1>16, <1>17 DEF RingItems, L

\* Taking the oldest item, which was not consumed before.
LEMMA RingTakes ==
    ASSUME MW!TypeOK, RingItems, ~MW!Empty, item_to_read < total_items,
           consumed' = [consumed EXCEPT ![buffer[curr_cons_size]] = @ + 1],
           curr_cons_size' = (curr_cons_size + 1) % max_buf_size,
           UNCHANGED <<item_to_produce, buffer, curr_buf_size>>
    PROVE  /\ RingItems'
           /\ consumed' \in [MW!Items -> 0..total_items]
           /\ Pending' = Pending - 1
           /\ \A i \in MW!Items :
                 consumed'[i] = IF i = item_to_produce - Pending THEN 1 ELSE consumed[i]
<1> USE ItemsRange
<1> DEFINE N == max_buf_size
           P == item_to_produce
           L == Pending
<1>1. /\ curr_buf_size \in 0..N - 1 /\ curr_cons_size \in 0..N - 1
      /\ curr_cons_size' = IF curr_cons_size = N - 1 THEN 0 ELSE curr_cons_size + 1
      /\ P \in Nat
  <2>1. curr_buf_size \in 0..N - 1 /\ curr_cons_size \in 0..N - 1 /\ P \in Nat
    BY DEF MW!TypeOK, MW!Slots, RingItems
  <2>2. (curr_cons_size + 1) % N = IF curr_cons_size = N - 1 THEN 0 ELSE curr_cons_size + 1
    BY <2>1, NextSlot
  <2>3. QED
    BY <2>1, <2>2
<1>2. /\ L \in 1..N - 1
      /\ \A s \in MW!Slots : Distance(s) \in 0..N - 1
  BY RingTests DEF RingItems
<1>3. /\ L <= P
      /\ \A s \in MW!Slots : Distance(s) < L => buffer[s] = P - L + Distance(s)
      /\ \A i \in MW!Items : consumed[i] <= 1 /\ (i >= P - L => consumed[i] = 0)
  BY DEF RingItems
<1>4. \A s \in MW!Slots : Distance(s)' = IF s = curr_cons_size THEN N - 1 ELSE Distance(s) - 1
  BY <1>1 DEF Distance, MW!Slots
<1>5. Pending' = L - 1
  <2>1. curr_buf_size # curr_cons_size /\ curr_buf_size \in MW!Slots
    BY DEF MW!Empty, RingItems
  <2>2. Pending' = Distance(curr_buf_size)'
    BY DEF Pending
  <2>3. QED
    BY <1>1, <2>1 DEF Pending, Distance
<1>6. buffer[curr_cons_size] = P - L /\ P - L \in MW!Items
  <2>1. curr_cons_size \in MW!Slots /\ Distance(curr_cons_size) = 0
    BY <1>1 DEF Distance, MW!Slots
  <2>2. buffer[curr_cons_size] = P - L
    BY <2>1, <1>1, <1>2, <1>3
  <2>3. buffer[curr_cons_size] \in MW!Items
    BY <2>1 DEF MW!TypeOK
  <2>4. QED
    BY <2>2, <2>3
<1> HIDE DEF L
<1>7. consumed[P - L] = 0
  BY <1>1, <1>2, <1>3, <1>6
<1>8. /\ consumed' \in [MW!Items -> 0..total_items]
      /\ \A i \in MW!Items : consumed'[i] = IF i = P - L THEN 1 ELSE consumed[i]
  <2>1. 1 \in 0..total_items
    BY DEF MW!TypeOK
  <2>2. QED
    BY <2>1, <1>6, <1>7 DEF MW!TypeOK
<1>9. ASSUME NEW i \in MW!Items
      PROVE  consumed'[i] <= 1 /\ (i >= P - Pending' => consumed'[i] = 0)
  <2>1. i >= P - (L - 1) => i # P - L /\ i >= P - L
    BY <1>1, <1>2
  <2>2. QED
    BY <2>1, <1>3, <1>5, <1>8
<1>10. ASSUME NEW s \in MW!Slots, Distance(s)' < Pending'
       PROVE  buffer[s] = P - Pending' + Distance(s)'
  <2>1. s # curr_cons_size
    BY <1>2, <1>4, <1>5, <1>10
  <2>2. Distance(s)' = Distance(s) - 1 /\ Distance(s) < L
    BY <2>1, <1>2, <1>4, <1>5, <1>10
  <2>3. buffer[s] = P - L + Distance(s)
    BY <2>2, <1>3
  <2>4. QED
    BY <2>2, <2>3, <1>1, <1>2, <1>5
<1>11. Pending' <= P
  BY <1>1, <1>2, <1>3, <1>5
<1>12. RingItems'
  BY <1>8, <1>9, <1>10, <1>11 DEF RingItems
<1>13. QED
  BY <1>5, <1>8, <1>12 DEF L

\* The masters that stopped stay so, unless the one that moves goes on.
LEMMA StoppedGrows ==
    ASSUME NEW t \in MW!Threads, NEW label \in MWLabels, Moves(t, label),
           \/ t \notin Masters
           \/ mwpc[t] \notin {"loop", "done"}
           \/ label \in {"loop", "done"}
    PROVE  /\ Stopped \subseteq Stopped'
           /\ Cardinality(Stopped) \in Nat /\ Cardinality(Stopped') \in Nat
           /\ Cardinality(Stopped) <= Cardinality(Stopped')
           /\ Cardinality(Stopped') <= Cardinality(Masters)
           /\ IsFiniteSet(Stopped)
<1>1. Masters \subseteq MW!Threads
  BY DEF MW!Threads
<1>2. Stopped \subseteq Stopped'
  BY <1>1 DEF Stopped, Moves
<1>3. Stopped' \in SUBSET Masters /\ Stopped \in SUBSET Stopped'
  BY <1>2 DEF Stopped
<1>4. IsFiniteSet(Stopped') /\ Cardinality(Stopped') \in 0..Cardinality(Masters)
  BY <1>3, LabAssumption, SubsetSize DEF LabAssumption
<1>5. IsFiniteSet(Stopped) /\ Cardinality(Stopped) \in 0..Cardinality(Stopped')
  BY <1>3, <1>4, SubsetSize
<1>6. Cardinality(Masters) \in Nat
  BY ItemsRange
<1>7. QED
  BY <1>2, <1>4, <1>5, <1>6

\* The ring's items depend on neither the places nor the mutex.
LEMMA RingItemsUnchanged ==
    ASSUME RingItems,
           UNCHANGED <<item_to_produce, buffer, curr_buf_size, curr_cons_size, consumed>>
    PROVE  RingItems'
BY DEF RingItems, Pending, Distance

\* A step of the thread that has the mutex, or takes it while it is free, and
\* that produces nothing.
LEMMA RingFrame ==
    ASSUME MWInv, lab = "ring", NEW t \in MW!Threads, NEW label \in MWLabels, Moves(t, label),
           item_to_produce' = item_to_produce, ready' \in BOOLEAN, ready' => ready,
           holder \in {t, NoOne},
           holder' = IF label \in {"loop", "test"} THEN t ELSE NoOne,
           (t \in Masters /\ label = "test") => ready' /\ item_to_produce < total_items,
           mwpc[t] # "done",
           (t \in Masters /\ mwpc[t] = "loop") =>
               (label = "done" /\ ~ready') \/ item_to_produce < total_items,
           total_items = 0 => label = "done"
    PROVE  RingTurns'
<1> USE ItemsRange
<1>1. RingTurns /\ item_to_produce \in Nat /\ NoOne \notin MW!Threads
  BY LabAssumption DEF LabAssumption, MWInv, MW!TypeOK, MW!Threads
<1>2. Masters \subseteq MW!Threads
  BY DEF MW!Threads
<1>3. \A u \in MW!Threads : u # t => mwpc[u] \notin {"loop", "test"}
  BY <1>1 DEF RingTurns
<1>4. \A u \in MW!Threads : u # t => mwpc'[u] \notin {"loop", "test"}
  BY <1>3 DEF Moves
<1>5. \A u \in MW!Threads : mwpc'[u] \in {"loop", "test"} <=> holder' = u
  BY <1>1, <1>4 DEF Moves
<1>6. \A m \in Masters : mwpc'[m] = "test" => ready' /\ item_to_produce < total_items
  BY <1>2, <1>4 DEF Moves
<1>7. item_to_produce <= total_items + Cardinality(Stopped')
  <2>1. CASE item_to_produce < total_items
    <3>1. Stopped' \in SUBSET Masters
      BY DEF Stopped
    <3>2. Cardinality(Stopped') \in Nat
      BY <3>1, LabAssumption, SubsetSize DEF LabAssumption
    <3>3. QED
      BY <2>1, <3>2, <1>1
  <2>2. CASE ~(item_to_produce < total_items)
    <3>1. Cardinality(Stopped) <= Cardinality(Stopped')
          /\ Cardinality(Stopped) \in Nat /\ Cardinality(Stopped') \in Nat
      BY <2>2, StoppedGrows
    <3>2. item_to_produce <= total_items + Cardinality(Stopped)
      BY <1>1 DEF RingTurns
    <3>3. QED
      BY <3>1, <3>2, <1>1
  <2>3. QED
    BY <2>1, <2>2
<1>8. ready' => item_to_produce <= total_items
  BY <1>1 DEF RingTurns
<1>9. (ready' /\ item_to_produce >= total_items) => total_items = 0
  <2>1. SUFFICES ASSUME ready', item_to_produce >= total_items, total_items # 0
                 PROVE  FALSE
    OBVIOUS
  <2>2. PICK m \in Masters : mwpc[m] = "loop"
    BY <2>1, <1>1 DEF RingTurns
  <2>3. m = t
    BY <2>2, <1>2, <1>3
  <2>4. QED
    BY <2>1, <2>2, <2>3, <1>1
<1>10. total_items = 0 => \A u \in MW!Threads : mwpc'[u] \in {"start", "done"}
  BY <1>1 DEF RingTurns, Moves
<1>11. QED
  BY <1>5, <1>6, <1>7, <1>8, <1>9, <1>10 DEF RingTurns

\* The steps of the ring that move no item: the end of a thread, the mutex taken
\* and given up, and a wakeup.
LEMMA RingQuietKeeps ==
    ASSUME MWInv, lab = "ring", lab' = lab, NEW t \in MW!Threads,
           \/ t \in Masters /\ MW!RingMasterDone(t)
           \/ t \in Workers /\ MW!RingWorkerDone(t)
           \/ MW!RingGoesOn(t)
           \/ MW!RingWaits(t)
           \/ MW!RingWoken(t)
    PROVE  MWInv'
<1> USE ItemsRange, LabAssumption DEF LabAssumption
<1>1. RingTurns /\ RingItems /\ item_to_produce \in Nat /\ item_to_read \in Nat
      /\ ready \in BOOLEAN /\ MW!TypeOK /\ NoOne \notin MW!Threads
  BY DEF MWInv, MW!TypeOK, MW!Threads
<1>2. mwpc[t] \in {"loop", "test"} <=> holder = t
  BY <1>1 DEF RingTurns
<1>3. total_items = 0 => mwpc[t] \in {"start", "done"}
  BY <1>1 DEF RingTurns
<1>4. ASSUME NEW label \in MWLabels, Moves(t, label), RingTurns', ready' \in BOOLEAN,
             holder' \in {t, NoOne},
             UNCHANGED <<item_to_produce, item_to_read, buffer, curr_buf_size,
                         curr_cons_size, consumed>>
      PROVE  MWInv'
  <2>1. MW!TypeOK'
    BY <1>1, <1>4 DEF MW!TypeOK, Moves, MWLabels, MW!Threads
  <2>2. RingItems'
    BY <1>1, <1>4, RingItemsUnchanged
  <2>3. QED
    BY <2>1, <2>2, <1>4 DEF MWInv, MasterWorkers
<1>5. ASSUME NEW S \in SUBSET MW!Threads, MW!Finish(t, S), holder \in {t, NoOne}, mwpc[t] # "done"
      PROVE  MWInv'
  <2>1. /\ ready' = FALSE /\ holder' = NoOne
        /\ UNCHANGED <<item_to_produce, item_to_read, buffer, curr_buf_size,
                       curr_cons_size, consumed>>
        /\ MW!WakeAndGoto(t, "done", MW!Waiting(S))
    BY <1>5 DEF MW!Finish
  <2>2. Moves(t, "done") /\ "done" \in MWLabels
    BY <2>1, <1>1, WakesOnlyWaiting DEF MWLabels
  <2>3. RingTurns'
    BY <2>1, <2>2, <1>5, RingFrame
  <2>4. QED
    BY <2>1, <2>2, <2>3, <1>4
<1>6. CASE t \in Masters /\ MW!RingMasterDone(t)
  BY <1>5, <1>6 DEF MW!RingMasterDone, MW!AtLoop, MW!Threads
<1>7. CASE t \in Workers /\ MW!RingWorkerDone(t)
  BY <1>2, <1>5, <1>7 DEF MW!RingWorkerDone, MW!AtLoop, MW!Threads
<1>8. CASE MW!RingGoesOn(t)
  <2>1. /\ \/ mwpc[t] = "start" /\ holder = NoOne
           \/ mwpc[t] = "loop" /\ holder = t
        /\ \/ t \in Masters /\ ready /\ item_to_produce < total_items
           \/ t \in Workers /\ item_to_read < total_items
        /\ holder' = t
        /\ UNCHANGED <<item_to_produce, item_to_read, buffer, curr_buf_size,
                       curr_cons_size, ready, consumed>>
        /\ MW!Goto(t, "test")
    BY <1>8 DEF MW!RingGoesOn, MW!AtLoop
  <2>2. Moves(t, "test") /\ "test" \in MWLabels
    BY <2>1, <1>1, WakesOnlyWaiting DEF MWLabels
  <2>3. total_items # 0 /\ (t \in Masters => ready /\ item_to_produce < total_items)
    BY <2>1, <1>1
  <2>4. RingTurns'
    BY <2>1, <2>2, <2>3, <1>1, RingFrame
  <2>5. QED
    BY <2>1, <2>2, <2>4, <1>1, <1>4
<1>9. CASE MW!RingWaits(t)
  <2>1. /\ mwpc[t] = "test" /\ holder' = NoOne
        /\ UNCHANGED <<item_to_produce, item_to_read, buffer, curr_buf_size,
                       curr_cons_size, ready, consumed>>
        /\ MW!Goto(t, "waiting")
    BY <1>9 DEF MW!RingWaits
  <2>2. Moves(t, "waiting") /\ "waiting" \in MWLabels
    BY <2>1, <1>1, WakesOnlyWaiting DEF MWLabels
  <2>3. total_items # 0 /\ holder = t
    BY <2>1, <1>2, <1>3
  <2>4. RingTurns'
    BY <2>1, <2>2, <2>3, <1>1, RingFrame
  <2>5. QED
    BY <2>1, <2>2, <2>4, <1>1, <1>4
<1>10. CASE MW!RingWoken(t)
  <2>1. /\ mwpc[t] = "woken" /\ holder = NoOne /\ holder' = t
        /\ t \in Masters => ready
        /\ UNCHANGED <<item_to_produce, item_to_read, buffer, curr_buf_size,
                       curr_cons_size, ready, consumed>>
        /\ MW!Goto(t, "test")
    BY <1>10 DEF MW!RingWoken
  <2>2. Moves(t, "test") /\ "test" \in MWLabels
    BY <2>1, <1>1, WakesOnlyWaiting DEF MWLabels
  <2>3. total_items # 0
    BY <2>1, <1>3
  <2>4. ready => item_to_produce < total_items
    <3>1. \A m \in Masters : mwpc[m] # "loop"
      BY <2>1, <1>1 DEF RingTurns, MW!Threads
    <3>2. QED
      BY <3>1, <2>3, <1>1 DEF RingTurns
  <2>5. RingTurns'
    BY <2>1, <2>2, <2>3, <2>4, <1>1, RingFrame
  <2>6. QED
    BY <2>1, <2>2, <2>5, <1>1, <1>4
<1>11. QED
  BY <1>6, <1>7, <1>8, <1>9, <1>10

\* A spurious wakeup in the ring.
LEMMA RingSpuriousKeeps ==
    ASSUME MWInv, lab = "ring", lab' = lab, NEW t \in MW!Threads, MW!Spurious(t)
    PROVE  MWInv'
<1> USE ItemsRange
<1>1. RingTurns /\ RingItems /\ MW!TypeOK
  BY DEF MWInv
<1>2. mwpc[t] = "waiting" /\ MW!Goto(t, "woken") /\ UNCHANGED MWData
  BY DEF MW!Spurious, MWData
<1>3. Moves(t, "woken") /\ "woken" \in MWLabels
  BY <1>1, <1>2, WakesOnlyWaiting DEF MWLabels
<1>4. \A u \in MW!Threads : u # t => mwpc'[u] = mwpc[u]
  BY <1>1, <1>2 DEF MW!Goto, MW!TypeOK
<1>5. Stopped' = Stopped
  <2>1. \A m \in Masters : mwpc'[m] \in {"loop", "done"} <=> mwpc[m] \in {"loop", "done"}
    BY <1>2, <1>3, <1>4 DEF Moves, MW!Threads
  <2>2. QED
    BY <2>1 DEF Stopped
<1>6. RingTurns'
  <2>1. \A u \in MW!Threads : mwpc'[u] \in {"loop", "test"} <=> holder' = u
    BY <1>1, <1>2, <1>3, <1>4 DEF RingTurns, Moves, MWData
  <2>2. \A m \in Masters : mwpc'[m] = "test" => ready' /\ item_to_produce' < total_items
    BY <1>1, <1>2, <1>3, <1>4 DEF RingTurns, Moves, MWData, MW!Threads
  <2>3. /\ item_to_produce' <= total_items + Cardinality(Stopped')
        /\ ready' => item_to_produce' <= total_items
    BY <1>1, <1>2, <1>5 DEF RingTurns, MWData
  <2>4. (ready' /\ item_to_produce' >= total_items) =>
          total_items = 0 \/ \E m \in Masters : mwpc'[m] = "loop"
    BY <1>1, <1>2, <1>3, <1>4 DEF RingTurns, Moves, MWData, MW!Threads
  <2>5. total_items # 0
    BY <1>1, <1>2 DEF RingTurns
  <2>6. QED
    BY <2>1, <2>2, <2>3, <2>4, <2>5 DEF RingTurns
<1>7. RingItems'
  BY <1>1, <1>2, RingItemsUnchanged DEF MWData
<1>8. MW!TypeOK'
  BY <1>1, <1>2, <1>3 DEF MW!TypeOK, Moves, MWLabels, MWData
<1>9. QED
  BY <1>6, <1>7, <1>8 DEF MWInv, MasterWorkers

\* A master stores an item: as long as there is room, or because it was told to
\* stop while it waited, and then it is the last one it stores.
LEMMA RingProducesKeeps ==
    ASSUME MWInv, lab = "ring", lab' = lab, NEW m \in Masters, MW!RingProduces(m)
    PROVE  MWInv'
<1> USE ItemsRange, LabAssumption DEF LabAssumption
<1>1. RingTurns /\ RingItems /\ item_to_produce \in Nat
      /\ ready \in BOOLEAN /\ MW!TypeOK /\ NoOne \notin MW!Threads /\ m \in MW!Threads
  BY DEF MWInv, MW!TypeOK, MW!Threads
<1>2. /\ \/ mwpc[m] = "test"
         \/ mwpc[m] = "woken" /\ holder = NoOne /\ ~ready
      /\ buffer' = [buffer EXCEPT ![curr_buf_size] = item_to_produce]
      /\ item_to_produce' = item_to_produce + 1
      /\ curr_buf_size' = (curr_buf_size + 1) % max_buf_size
      /\ holder' = m
      /\ MW!SignalAndGoto(m, "loop", Workers)
      /\ UNCHANGED <<item_to_read, curr_cons_size, ready, consumed>>
  BY DEF MW!RingProduces, MW!Produce
<1>3. Moves(m, "loop") /\ "loop" \in MWLabels
  <2>1. Workers \in SUBSET MW!Threads
    BY DEF MW!Threads
  <2>2. QED
    BY <2>1, <1>1, <1>2, WakesOnlyWaiting DEF MWLabels
<1>4. holder \in {m, NoOne} /\ (ready => item_to_produce < total_items)
  BY <1>1, <1>2 DEF RingTurns
<1>5. total_items # 0
  BY <1>1, <1>2 DEF RingTurns
<1>6. \A u \in MW!Threads : u # m => mwpc'[u] \notin {"loop", "test"}
  <2>1. \A u \in MW!Threads : u # m => mwpc[u] \notin {"loop", "test"}
    BY <1>1, <1>4 DEF RingTurns
  <2>2. QED
    BY <2>1, <1>3 DEF Moves
<1>7. /\ Stopped \subseteq Stopped'
      /\ Cardinality(Stopped) \in Nat /\ Cardinality(Stopped') \in Nat
      /\ Cardinality(Stopped) <= Cardinality(Stopped')
      /\ Cardinality(Stopped') <= Cardinality(Masters)
      /\ IsFiniteSet(Stopped)
  BY <1>1, <1>3, StoppedGrows
<1>8. item_to_produce + 1 <= total_items + Cardinality(Stopped')
  <2>1. CASE ready
    BY <2>1, <1>1, <1>4, <1>7
  <2>2. CASE ~ready
    <3>1. mwpc[m] = "woken"
      BY <2>2, <1>1, <1>2 DEF RingTurns
    <3>2. m \notin Stopped /\ m \in Stopped'
      BY <3>1, <1>3 DEF Stopped, Moves
    <3>3. Stopped' = (Stopped' \ {m}) \cup {m} /\ Stopped \subseteq Stopped' \ {m}
      BY <3>2, <1>7
    <3>4. IsFiniteSet(Stopped')
      <4>1. Stopped' \in SUBSET Masters
        BY DEF Stopped
      <4>2. QED
        BY <4>1, SubsetSize
    <3>5. IsFiniteSet(Stopped' \ {m}) /\ Cardinality(Stopped' \ {m}) = Cardinality(Stopped') - 1
      BY <3>2, <3>4, OneLess, FS_RemoveElement
    <3>6. Cardinality(Stopped) \in 0..Cardinality(Stopped' \ {m})
      BY <3>3, <3>5, SubsetSize
    <3>7. item_to_produce <= total_items + Cardinality(Stopped)
      BY <1>1 DEF RingTurns
    <3>8. QED
      BY <3>5, <3>6, <3>7, <1>1, <1>7
  <2>3. QED
    BY <2>1, <2>2
<1>9. RingTurns'
  <2>1. \A u \in MW!Threads : mwpc'[u] \in {"loop", "test"} <=> holder' = u
    BY <1>2, <1>3, <1>6 DEF Moves
  <2>2. \A u \in Masters : mwpc'[u] # "test"
    BY <1>3, <1>6 DEF Moves, MW!Threads
  <2>3. mwpc'[m] = "loop"
    BY <1>3 DEF Moves
  <2>4. ready' => item_to_produce' <= total_items
    BY <1>1, <1>2, <1>4
  <2>5. item_to_produce' <= total_items + Cardinality(Stopped')
    BY <1>2, <1>8
  <2>6. QED
    BY <2>1, <2>2, <2>3, <2>4, <2>5, <1>5 DEF RingTurns
<1>10. RingItems'
  BY <1>1, <1>2, RingStores
<1>11. MW!TypeOK'
  <2>1. item_to_produce \in MW!Items /\ item_to_produce' \in MW!Items
    BY <1>1, <1>2, <1>7, <1>8
  <2>2. buffer' \in [MW!Slots -> MW!Items]
    BY <2>1, <1>1, <1>2 DEF MW!TypeOK
  <2>3. curr_buf_size' \in 0..max_buf_size
    BY <1>10 DEF RingItems, MW!Slots
  <2>4. QED
    BY <2>1, <2>2, <2>3, <1>1, <1>2, <1>3 DEF MW!TypeOK, Moves, MWLabels
<1>12. QED
  BY <1>9, <1>10, <1>11 DEF MWInv, MasterWorkers

\* A worker consumes the oldest item that waits.
LEMMA RingConsumesKeeps ==
    ASSUME MWInv, lab = "ring", lab' = lab, NEW w \in Workers, MW!RingConsumes(w)
    PROVE  MWInv'
<1> USE ItemsRange, LabAssumption DEF LabAssumption
<1>1. RingTurns /\ RingItems /\ item_to_produce \in Nat /\ item_to_read \in Nat
      /\ ready \in BOOLEAN /\ MW!TypeOK /\ NoOne \notin MW!Threads
      /\ w \in MW!Threads /\ w \notin Masters
  BY DEF MWInv, MW!TypeOK, MW!Threads
<1>2. /\ mwpc[w] = "test" /\ ~MW!Empty /\ item_to_read < total_items
      /\ consumed' = [consumed EXCEPT ![buffer[curr_cons_size]] = @ + 1]
      /\ curr_cons_size' = (curr_cons_size + 1) % max_buf_size
      /\ item_to_read' = item_to_read + 1
      /\ MW!SignalAndGoto(w, "loop", Masters)
      /\ UNCHANGED <<holder, item_to_produce, buffer, curr_buf_size, ready>>
  BY DEF MW!RingConsumes, MW!Consume
<1>3. Moves(w, "loop") /\ "loop" \in MWLabels
  <2>1. Masters \in SUBSET MW!Threads
    BY DEF MW!Threads
  <2>2. QED
    BY <2>1, <1>1, <1>2, WakesOnlyWaiting DEF MWLabels
<1>4. holder = w /\ total_items # 0
  BY <1>1, <1>2 DEF RingTurns
<1>5. RingTurns'
  BY <1>1, <1>2, <1>3, <1>4, RingFrame
<1>6. RingItems' /\ consumed' \in [MW!Items -> 0..total_items]
  BY <1>1, <1>2, RingTakes
<1>7. curr_cons_size' \in MW!Slots
  <2>1. curr_cons_size \in 0..max_buf_size - 1
    BY <1>1 DEF MW!TypeOK, MW!Slots
  <2>2. (curr_cons_size + 1) % max_buf_size =
           IF curr_cons_size = max_buf_size - 1 THEN 0 ELSE curr_cons_size + 1
    BY <2>1, NextSlot
  <2>3. QED
    BY <2>1, <2>2, <1>2 DEF MW!Slots
<1>8. MW!TypeOK'
  <2>1. item_to_read' \in 0..total_items
    BY <1>1, <1>2
  <2>2. QED
    BY <2>1, <1>1, <1>2, <1>3, <1>6, <1>7 DEF MW!TypeOK, Moves, MWLabels
<1>9. QED
  BY <1>5, <1>6, <1>8 DEF MWInv, MasterWorkers

\* Every step of the lab's program keeps the invariant.
LEMMA RingStep ==
    ASSUME MWInv, lab = "ring", lab' = lab, MW!Next
    PROVE  MWInv'
<1>1. Masters \in SUBSET MW!Threads /\ Workers \in SUBSET MW!Threads
  BY DEF MW!Threads
<1>2. CASE \E m \in Masters : MW!Master(m)
  <2>1. PICK m \in Masters : MW!Master(m)
    BY <1>2
  <2>2. \/ MW!RingMasterDone(m) \/ MW!RingGoesOn(m) \/ MW!RingWaits(m)
        \/ MW!RingWoken(m) \/ MW!RingProduces(m)
    BY <2>1 DEF MW!Master, MW!StackProduces, MW!StackMasterDone, MW!StackWaits, MW!AtTop
  <2>3. QED
    BY <2>2, <1>1, RingQuietKeeps, RingProducesKeeps
<1>3. CASE \E w \in Workers : MW!Worker(w)
  <2>1. PICK w \in Workers : MW!Worker(w)
    BY <1>3
  <2>2. \/ MW!RingWorkerDone(w) \/ MW!RingGoesOn(w) \/ MW!RingWaits(w)
        \/ MW!RingWoken(w) \/ MW!RingConsumes(w)
    BY <2>1 DEF MW!Worker, MW!StackConsumes, MW!StackWorkerDone, MW!StackWaits, MW!AtTop
  <2>3. QED
    BY <2>2, <1>1, RingQuietKeeps, RingConsumesKeeps
<1>4. CASE \E t \in MW!Threads : MW!Spurious(t)
  BY <1>4, RingSpuriousKeeps
<1>5. QED
  BY <1>2, <1>3, <1>4 DEF MW!Next

\* Until the ring is overrun what was read was consumed, and the rest waits.
LEMMA RingKeptStep ==
    ASSUME MWInv, RingKept, lab = "ring", lab' = lab, MW!Next
    PROVE  RingKept'
<1> USE ItemsRange
<1>1. /\ RingItems /\ RingTurns /\ MW!TypeOK /\ ready \in BOOLEAN
      /\ item_to_produce \in Nat /\ item_to_read \in Nat
  BY DEF MWInv, MW!TypeOK
<1>2. Pending \in Nat
  BY <1>1, RingTests DEF RingItems
<1>3. ASSUME ~ready' => item_to_produce >= total_items,
             UNCHANGED <<item_to_produce, item_to_read, curr_buf_size, curr_cons_size, consumed>>
      PROVE  RingKept'
  <2>1. Pending' = Pending
    BY <1>3 DEF Pending, Distance
  <2>2. QED
    BY <1>3, <2>1 DEF RingKept
<1>4. CASE \E m \in Masters : MW!Master(m)
  <2>1. PICK m \in Masters : MW!Master(m)
    BY <1>4
  <2>2. \/ MW!RingMasterDone(m) \/ MW!RingGoesOn(m) \/ MW!RingWaits(m)
        \/ MW!RingWoken(m) \/ MW!RingProduces(m)
    BY <2>1 DEF MW!Master, MW!StackProduces, MW!StackMasterDone, MW!StackWaits, MW!AtTop
  <2>3. CASE MW!RingMasterDone(m)
    <3>1. item_to_produce >= total_items
      BY <2>3 DEF MW!RingMasterDone, RingKept
    <3>2. QED
      BY <2>3, <3>1, <1>3 DEF MW!RingMasterDone, MW!Finish
  <2>4. CASE MW!RingGoesOn(m) \/ MW!RingWaits(m) \/ MW!RingWoken(m)
    BY <2>4, <1>3 DEF MW!RingGoesOn, MW!RingWaits, MW!RingWoken, RingKept
  <2>5. CASE MW!RingProduces(m)
    <3>1. /\ buffer' = [buffer EXCEPT ![curr_buf_size] = item_to_produce]
          /\ item_to_produce' = item_to_produce + 1
          /\ curr_buf_size' = (curr_buf_size + 1) % max_buf_size
          /\ UNCHANGED <<item_to_read, curr_cons_size, ready, consumed>>
      BY <2>5 DEF MW!RingProduces, MW!Produce
    <3>2. ~ready' => item_to_produce' >= total_items
      BY <3>1, <1>1 DEF RingKept
    <3>3. CASE item_to_produce' > total_items
      BY <3>1, <3>2, <3>3, <1>1 DEF RingKept
    <3>4. CASE item_to_produce < total_items
      <4>1. ready
        BY <3>4, <1>1 DEF RingKept
      <4>2. ~MW!Full
        BY <4>1, <2>5 DEF MW!RingProduces
      <4>3. Pending' = Pending + 1
        BY <3>1, <4>2, <1>1, RingStores, RingTests DEF RingItems
      <4>4. item_to_read = item_to_produce - Pending
        BY <3>4, <1>1 DEF RingKept
      <4>5. item_to_read' = item_to_produce' - Pending'
        BY <3>1, <4>3, <4>4, <1>1, <1>2
      <4>6. \A i \in MW!Items : i < item_to_read' => consumed'[i] = 1
        BY <3>1, <3>4, <1>1 DEF RingKept
      <4>7. QED
        BY <3>2, <4>5, <4>6 DEF RingKept
    <3>5. QED
      BY <3>1, <3>3, <3>4, <1>1
  <2>6. QED
    BY <2>2, <2>3, <2>4, <2>5
<1>5. CASE \E w \in Workers : MW!Worker(w)
  <2>1. PICK w \in Workers : MW!Worker(w)
    BY <1>5
  <2>2. \/ MW!RingWorkerDone(w) \/ MW!RingGoesOn(w) \/ MW!RingWaits(w)
        \/ MW!RingWoken(w) \/ MW!RingConsumes(w)
    BY <2>1 DEF MW!Worker, MW!StackConsumes, MW!StackWorkerDone, MW!StackWaits, MW!AtTop
  <2>3. CASE MW!RingWorkerDone(w)
    <3>1. item_to_read >= total_items
      BY <2>3 DEF MW!RingWorkerDone
    <3>2. item_to_produce >= total_items
      BY <3>1, <1>1, <1>2 DEF RingKept
    <3>3. QED
      BY <2>3, <3>2, <1>3 DEF MW!RingWorkerDone, MW!Finish
  <2>4. CASE MW!RingGoesOn(w) \/ MW!RingWaits(w) \/ MW!RingWoken(w)
    BY <2>4, <1>3 DEF MW!RingGoesOn, MW!RingWaits, MW!RingWoken, RingKept
  <2>5. CASE MW!RingConsumes(w)
    <3>1. /\ ~MW!Empty /\ item_to_read < total_items
          /\ consumed' = [consumed EXCEPT ![buffer[curr_cons_size]] = @ + 1]
          /\ curr_cons_size' = (curr_cons_size + 1) % max_buf_size
          /\ item_to_read' = item_to_read + 1
          /\ UNCHANGED <<item_to_produce, buffer, curr_buf_size, ready>>
      BY <2>5 DEF MW!RingConsumes, MW!Consume
    <3>2. /\ Pending' = Pending - 1
          /\ \A i \in MW!Items :
                consumed'[i] = IF i = item_to_produce - Pending THEN 1 ELSE consumed[i]
      BY <3>1, <1>1, RingTakes
    <3>3. ASSUME item_to_produce' <= total_items
          PROVE  /\ item_to_read' = item_to_produce' - Pending'
                 /\ \A i \in MW!Items : i < item_to_read' => consumed'[i] = 1
      <4>1. /\ item_to_read = item_to_produce - Pending
            /\ \A i \in MW!Items : i < item_to_read => consumed[i] = 1
        BY <3>1, <3>3 DEF RingKept
      <4>2. ASSUME NEW i \in MW!Items, i < item_to_read'
            PROVE  i = item_to_read \/ i < item_to_read
        BY <3>1, <4>2, <1>1
      <4>3. QED
        BY <3>1, <3>2, <4>1, <4>2, <1>1, <1>2
    <3>4. QED
      BY <3>1, <3>3 DEF RingKept
  <2>6. QED
    BY <2>2, <2>3, <2>4, <2>5
<1>6. CASE \E t \in MW!Threads : MW!Spurious(t)
  BY <1>6, <1>3 DEF MW!Spurious, RingKept
<1>7. QED
  BY <1>4, <1>5, <1>6 DEF MW!Next

\* In a ring that was not overrun an item was consumed or waits in one slot.
LEMMA RingCopies ==
    ASSUME MWInv, RingKept, lab = "ring", ~MW!Overrun,
           NEW i \in MW!Items, i < item_to_produce
    PROVE  consumed[i] + MW!Copies(i) = 1
<1> USE ItemsRange
<1> DEFINE N == max_buf_size
           P == item_to_produce
           L == Pending
           H == {s \in MW!InUse : buffer[s] = i}
<1>1. /\ RingItems /\ MW!TypeOK /\ P \in Nat /\ P <= total_items /\ i \in Nat
      /\ item_to_read = P - L
  BY DEF MWInv, MW!TypeOK, MW!Overrun, RingKept
<1>2. /\ curr_buf_size \in 0..N - 1 /\ curr_cons_size \in 0..N - 1
      /\ L \in 0..N - 1 /\ L <= P
  BY <1>1, RingTests DEF MW!TypeOK, MW!Slots, RingItems
<1>3. MW!InUse = {s \in MW!Slots : Distance(s) < L}
  BY <1>2 DEF MW!InUse, MW!Slots, Distance, Pending
<1>4. \A s \in MW!InUse : s \in MW!Slots /\ buffer[s] = P - L + Distance(s)
  BY <1>1, <1>3 DEF RingItems
<1>5. \A s \in MW!Slots : Distance(s) \in 0..N - 1
  BY <1>1, RingTests DEF RingItems
<1>6. \A s, u \in MW!Slots : Distance(s) = Distance(u) => s = u
  BY <1>2 DEF Distance, MW!Slots
<1>7. MW!Copies(i) = Cardinality(H)
  BY MWSize DEF MW!Copies
<1>8. CASE i < P - L
  <2>1. consumed[i] = 1
    BY <1>1, <1>8 DEF RingKept
  <2>2. ASSUME NEW s \in MW!InUse
        PROVE  buffer[s] # i
    <3>1. buffer[s] = P - L + Distance(s) /\ Distance(s) \in 0..N - 1
      BY <1>4, <1>5
    <3>2. QED
      BY <3>1, <1>1, <1>2, <1>8
  <2>3. H = {}
    BY <2>2
  <2>4. QED
    BY <2>1, <2>3, <1>7, FS_EmptySet
<1>9. CASE i >= P - L
  <2>1. consumed[i] = 0
    BY <1>1, <1>9 DEF RingItems
  <2> DEFINE d == i - (P - L)
             slot == IF curr_cons_size + d < N THEN curr_cons_size + d ELSE curr_cons_size + d - N
  <2>2. d \in 0..L - 1
    BY <1>1, <1>2, <1>9
  <2>3. slot \in MW!Slots /\ Distance(slot) = d
    BY <1>2, <2>2 DEF Distance, MW!Slots
  <2>4. i = P - L + d /\ d < L
    BY <1>1, <1>2, <2>2
  <2> HIDE DEF slot, d
  <2>5. slot \in MW!InUse
    BY <1>3, <2>3, <2>4
  <2>6. slot \in H
    BY <1>4, <2>3, <2>4, <2>5
  <2>7. ASSUME NEW s \in H
        PROVE  s = slot
    <3>1. s \in MW!Slots /\ buffer[s] = P - L + Distance(s) /\ buffer[s] = i
      BY <1>4
    <3>2. Distance(s) = d
      BY <3>1, <2>2, <2>4, <1>1, <1>2, <1>5
    <3>3. QED
      BY <3>1, <3>2, <2>3, <1>6
  <2>8. H = {slot}
    BY <2>6, <2>7
  <2>9. Cardinality(H) = 1
    BY <2>8, FS_Singleton, Zenon
  <2>10. QED
    BY <2>1, <2>9, <1>7
<1>10. QED
  BY <1>1, <1>2, <1>8, <1>9

\* Nothing is consumed twice, and nothing disappears: from the solution's stack
\* never, from the lab's ring as long as it is not overrun.
LEMMA MWSafe ==
    ASSUME MWInv, lab = "ring" => RingKept
    PROVE  MW!TypeOK /\ MW!ItemsKept
<1> USE ItemsRange
<1>1. MW!TypeOK /\ item_to_produce \in Nat /\ item_to_produce \in MW!Items
  BY DEF MWInv, MW!TypeOK
<1>2. \A i \in MW!Items : consumed[i] \in Nat /\ i \in Nat
  BY <1>1 DEF MW!TypeOK
<1>3. \A i \in 0..item_to_produce - 1 : i \in MW!Items /\ i < item_to_produce
  BY <1>1
<1>4. CASE lab = "stack"
  <2>1. \A i \in MW!Items :
          consumed[i] + Cardinality(Places(i)) = IF i < item_to_produce THEN 1 ELSE 0
    BY <1>4 DEF MWInv, StackInv
  <2>2. \A i \in MW!Items : consumed[i] <= IF i < item_to_produce THEN 1 ELSE 0
    BY <2>1, <1>2, PlacesFinite
  <2>3. \A i : MW!Copies(i) = Cardinality(Places(i))
    <3>1. MW!InUse = {s \in MW!Slots : s < curr_buf_size}
      BY <1>4 DEF MW!InUse
    <3>2. \A i : {s \in MW!InUse : buffer[s] = i} = Places(i)
      BY <3>1 DEF Places
    <3>3. QED
      BY <3>2, MWSize DEF MW!Copies
  <2>4. \A i \in 0..item_to_produce - 1 : consumed[i] + MW!Copies(i) = 1
    BY <2>1, <2>3, <1>3
  <2>5. QED
    BY <2>2, <2>4, <1>1 DEF MW!ItemsKept
<1>5. CASE lab = "ring"
  <2>1. RingItems
    BY <1>5 DEF MWInv
  <2>2. Pending \in Nat
    BY <2>1, <1>1, RingTests DEF RingItems
  <2>3. \A i \in MW!Items : consumed[i] <= IF i < item_to_produce THEN 1 ELSE 0
    BY <2>1, <2>2, <1>1, <1>2 DEF RingItems
  <2>4. ~MW!Overrun => \A i \in 0..item_to_produce - 1 : consumed[i] + MW!Copies(i) = 1
    BY <1>3, <1>5, RingCopies
  <2>5. QED
    BY <2>3, <2>4, <1>1 DEF MW!ItemsKept
<1>6. CASE lab \notin {"stack", "ring"}
  <2>1. item_to_produce = 0 /\ \A i \in MW!Items : consumed[i] = 0
    BY <1>6 DEF MWInv, MasterWorkers
  <2>2. QED
    BY <2>1, <1>1, <1>6 DEF MW!ItemsKept
<1>7. QED
  BY <1>4, <1>5, <1>6

-----------------------------------------------------------------------------
(* The lab *)

LabInv == lab \in Programs /\ RWInv /\ MWInv /\ (lab = "ring" => RingKept) /\ SemInv

\* The locks' invariant depends on their variables only.
LEMMA RWUnchanged ==
    ASSUME RWInv, lab' = lab, UNCHANGED rwVars
    PROVE  RWInv'
<1>1. /\ numreader' = numreader /\ numwriter' = numwriter /\ read_avail' = read_avail
      /\ commonlock' = commonlock /\ lock' = lock /\ rwpc' = rwpc
  BY DEF rwVars
<1>2. Counted' = Counted /\ CountedWriters' = CountedWriters
  BY <1>1 DEF Counted, CountedWriters, RW!WriterFirst
<1>3. RWTyped' /\ RWCounts'
  BY <1>1, <1>2 DEF RWInv, RWTyped, RWCounts
<1>4. FirstAlone'
  BY <1>1 DEF RWInv, FirstAlone, RW!WriterFirst
<1>5. OneHolder'
  BY <1>1, <1>2 DEF RWInv, OneHolder, BatchHolds, Owns
<1>6. QED
  BY <1>3, <1>4, <1>5 DEF RWInv

\* So does the master-worker programs' invariant.
LEMMA MWUnchanged ==
    ASSUME MWInv, lab = "ring" => RingKept, lab' = lab, UNCHANGED mwVars
    PROVE  MWInv' /\ (lab' = "ring" => RingKept')
<1>1. UNCHANGED MWData /\ mwpc' = mwpc
  BY DEF mwVars, MWData
<1>2. MW!TypeOK'
  BY <1>1 DEF MWInv, MW!TypeOK, MWData
<1>3. \A i : Places(i)' = Places(i)
  BY <1>1 DEF Places, MWData
<1>4. StackInv => StackInv'
  BY <1>1, <1>3 DEF StackInv, MWData
<1>5. RingItems => RingItems'
  BY <1>1, RingItemsUnchanged DEF MWData
<1>6. RingTurns => RingTurns'
  BY <1>1 DEF RingTurns, Stopped, MWData
<1>7. RingKept => RingKept'
  BY <1>1 DEF RingKept, Pending, Distance, MWData
<1>8. QED
  BY <1>1, <1>2, <1>4, <1>5, <1>6, <1>7 DEF MWInv, MWData

\* So does the semaphores' invariant.
LEMMA SemUnchanged ==
    ASSUME SemInv, UNCHANGED semVars
    PROVE  SemInv'
<1>1. UNCHANGED Sem!toggle /\ UNCHANGED Sem!batch
  BY DEF semVars, Sem!toggle, Sem!batch
<1>2. QED
  BY <1>1, ToggleUnchanged, BatchUnchanged DEF SemInv

\* Whichever program runs, its invariant holds at the start.
LEMMA LabInitial == Init => LabInv
<1>1. MW!Init => RingKept
  BY ItemsRange DEF MW!Init, RingKept, Pending, Distance
<1>2. QED
  BY <1>1, RWInit, MWInit, SemInitial DEF Init, LabInv

\* And every step of it keeps it.
LEMMA LabStep == LabInv /\ [Next]_vars => LabInv'
<1> SUFFICES ASSUME LabInv, [Next]_vars
             PROVE  LabInv'
  OBVIOUS
<1>1. CASE lab \in RWLocks /\ RW!Next /\ UNCHANGED <<lab, mwVars, semVars>>
  BY <1>1, RWStep, MWUnchanged, SemUnchanged DEF LabInv
<1>2. CASE lab \in MasterWorkers /\ MW!Next /\ UNCHANGED <<lab, rwVars, semVars>>
  BY <1>2, StackStep, RingStep, RingKeptStep, RWUnchanged, SemUnchanged DEF LabInv, MasterWorkers
<1>3. CASE lab \in Tasks /\ Sem!Next /\ UNCHANGED <<lab, rwVars, mwVars>>
  BY <1>3, SemStep, RWUnchanged, MWUnchanged DEF LabInv
<1>4. CASE UNCHANGED vars
  BY <1>4, RWUnchanged, MWUnchanged, SemUnchanged DEF LabInv, vars
<1>5. QED
  BY <1>1, <1>2, <1>3, <1>4 DEF Next

\* The invariant of the program that runs holds throughout.
LEMMA LabInvariant == FairSpec => []LabInv
BY LabInitial, LabStep, PTL DEF FairSpec

\* For every number of threads, items, slots, turns and requests, and wherever
\* pthread_cond_wait() returns for no reason: with each of the four read-write
\* locks a writer writes alone, but for the readers that such a return lets past
\* the `if` of rwlock-reader-pref.cpp while their batch waits for the lock; the
\* master-worker programs consume nothing twice, the solution's loses nothing and
\* the lab's nothing until it is overrun; test-toggle's threads print in turn, up
\* to the turns that such a return lets a thread take at the `if` of zem_down();
\* no request is served before its batch is complete; and no counter or index
\* leaves its range.
THEOREM LabSafeHolds == FairSpec => []LabSafe
<1>1. LabInv => LabSafe
  BY RWSafe, MWSafe, SemSafe DEF LabInv, LabSafe
<1>2. QED
  BY <1>1, LabInvariant, PTL

\* With the two writer-preference locks no reader starts to read while a writer
\* that was counted waits for lock.
THEOREM WriterPreferenceHolds == FairSpec => WriterPreference
<1>1. LabInv /\ [Next]_vars => [RW!WriterGoesFirst]_vars
  <2> SUFFICES ASSUME LabInv, Next, lab \in RWLocks => RW!Next /\ lab' = lab
               PROVE  RW!WriterGoesFirst
    BY DEF Next, RWLocks, MasterWorkers, Tasks
  <2>1. CASE lab \in RWLocks
    BY <2>1, RWOrder DEF LabInv
  <2>2. CASE lab \notin RWLocks
    BY <2>2 DEF RW!WriterGoesFirst, RW!WriterFirst, RWLocks
  <2>3. QED
    BY <2>1, <2>2
<1>2. QED
  BY <1>1, LabInvariant, PTL DEF FairSpec, WriterPreference
=============================================================================
