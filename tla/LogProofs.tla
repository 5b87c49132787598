------------------------------ MODULE LogProofs -----------------------------
(***************************************************************************)
(* The redo log, for any number of threads and blocks and any crashes:     *)
(* crash atomicity, no update left behind, no lost wakeup, and how much a  *)
(* system call may write for log.c never to panic.                         *)
(***************************************************************************)
EXTENDS Log, FiniteSetTheorems, FunctionTheorems, TLAPS

-----------------------------------------------------------------------------
(* The inductive invariant *)

\* The calls that log.outstanding counts.
Open == {t \in Threads : pc[t] \in CallPCs \cup {"panic"}}

\* log.outstanding and log.committing say who is inside: calls, or one commit.
CountShape ==
    /\ outstanding = Cardinality(Open)
    /\ committing <=> \E t \in Threads : pc[t] \in CommitPCs
    /\ \A t, u \in Threads : pc[t] \in CommitPCs /\ pc[u] \in CommitPCs => t = u
    /\ committing => Open = {}

\* A machine that recovers runs no system call.
DownShape == mode # "up" =>
    /\ Open = {} /\ ~committing /\ dirty = {}
    /\ \A t \in Threads : pc[t] = "idle"

\* A buffer is locked by one call, between bread() and brelse().
BufShape ==
    /\ \A t \in Threads : IF pc[t] \in {"modified", "logging", "panic"} THEN buf[t] \in wrote[t]
                          ELSE buf[t] = NoBlock
    /\ \A t, u \in Threads : buf[t] = buf[u] /\ t # u => buf[t] = NoBlock

\* A call that runs has recorded what it wrote, but for the buffer it has now.
WroteShape == \A t \in Threads :
    /\ IsFiniteSet(wrote[t]) /\ Cardinality(wrote[t]) <= MaxOpWrites
    /\ t \in Open => wrote[t] \ {buf[t]} \subseteq Recorded(lh)

\* A block has one place in the log.
Distinct(s) == \A i, j \in 1..Len(s) : s[i] = s[j] => i = j

\* Where the thread that commits is.
Committing(label) == \E t \in Threads : pc[t] = label

\* The header on disk: the transaction that is being installed, else none.
HeadShape ==
    /\ Distinct(lh) /\ Distinct(hd)
    /\ mode = "read_head" => lh = <<>>
    /\ mode = "install" => hd = lh
    /\ mode = "up" => hd = IF Committing("install") THEN lh ELSE <<>>
    /\ mode = "up" /\ lh # <<>> => Open # {} \/ Committing("write_log") \/ Committing("install")

\* The blocks of a header from its k-th on.
From(s, k) == {s[i] : i \in {j \in 1..Len(s) : j >= k}}

\* Blocks of the log that are still to be installed.
Pending == From(lh, tail)

\* B_DIRTY keeps in the cache what only the log or the cache has.
DirtyShape ==
    /\ mode = "up" => dirty = IF Committing("install") THEN Pending ELSE Recorded(lh)
    /\ \A b \in dirty : cache[b] # NotCached
    /\ \A b \in Blocks : cache[b] # NotCached /\ b \notin dirty \cup Locked => cache[b] = home[b]
    /\ \A b \in Locked : cache[b] # NotCached

\* The copies that write_log() has made, and those install_trans() has written.
CopyShape ==
    /\ mode = "up" /\ Committing("write_log") =>
           \A i \in 1..Len(lh) : i < tail => logData[i] = cache[lh[i]]
    /\ mode = "up" /\ Committing("install") =>
           \A i \in 1..Len(lh) : IF i < tail THEN home[lh[i]] = logData[i]
                                 ELSE logData[i] = cache[lh[i]]
    /\ mode = "install" => \A i \in 1..Len(lh) : i < tail => home[lh[i]] = logData[i]
    /\ tail <= Len(lh) + 1 \/ (mode = "up" /\ ~Committing("write_log") /\ ~Committing("install"))

\* The blocks in R that the calls in S wrote, each counted for each call.
Pairs(S, W, R) == {p \in S \X Blocks : p[2] \in W[p[1]] \cap R}

\* What the calls that run have recorded so far.
Spent == Pairs(Open, wrote, Recorded(lh))

\* begin_op()'s reservation: what is recorded, and what the running calls may
\* still record, fits.
Budget == Len(lh) + outstanding * MAXOPBLOCKS <= LOGSIZE + Cardinality(Spent)

Reserved == mode = "up" /\ ~committing => Budget

IInv == /\ TypeOK /\ CountShape /\ DownShape /\ BufShape /\ WroteShape /\ HeadShape
        /\ DirtyShape /\ CopyShape /\ Reserved

Labels == {"idle", "begin", "asleep", "panic"} \cup CallPCs \cup CommitPCs

-----------------------------------------------------------------------------
(* Lemmas on the operators *)

\* What log.lh.block[] holds; write_log() and install_trans() go through it.
LEMMA RecordedFacts ==
  ASSUME NEW s \in Seq(Blocks)
  PROVE  /\ Recorded(s) \subseteq Blocks
         /\ \A i \in 1..Len(s) : s[i] \in Recorded(s) /\ s[i] \in Blocks
         /\ \A b \in Recorded(s) : \E i \in 1..Len(s) : s[i] = b
         /\ s = <<>> => Recorded(s) = {} /\ Len(s) = 0
         /\ Len(s) \in Nat /\ (Len(s) = 0 => s = <<>>)
BY DEF Recorded

\* log_write() records a new block at the end, and keeps the entries distinct.
LEMMA AppendFacts ==
  ASSUME NEW s \in Seq(Blocks), NEW b \in Blocks, b \notin Recorded(s), Distinct(s)
  PROVE  /\ Append(s, b) \in Seq(Blocks) /\ Len(Append(s, b)) = Len(s) + 1
         /\ Recorded(Append(s, b)) = Recorded(s) \cup {b}
         /\ Distinct(Append(s, b))
         /\ Append(s, b) # <<>>
<1> DEFINE q == Append(s, b)
<1>1. /\ q \in Seq(Blocks) /\ Len(q) = Len(s) + 1 /\ Len(s) \in Nat
      /\ \A i \in 1..Len(s) : q[i] = s[i]
      /\ q[Len(s) + 1] = b
  OBVIOUS
<1> HIDE DEF q
<1>2. Recorded(q) = Recorded(s) \cup {b}
  <2>1. ASSUME NEW x \in Recorded(q) PROVE x \in Recorded(s) \cup {b}
    <3>1. PICK i \in 1..Len(q) : q[i] = x
      BY <2>1 DEF Recorded
    <3>2. CASE i = Len(s) + 1
      BY <1>1, <3>1, <3>2
    <3>3. CASE i \in 1..Len(s)
      BY <1>1, <3>1, <3>3 DEF Recorded
    <3> QED BY <1>1, <3>2, <3>3
  <2>2. ASSUME NEW x \in Recorded(s) PROVE x \in Recorded(q)
    <3>1. PICK i \in 1..Len(s) : s[i] = x
      BY <2>2 DEF Recorded
    <3>2. i \in 1..Len(q) /\ q[i] = x
      BY <1>1, <3>1
    <3> QED BY <3>2 DEF Recorded
  <2>3. b \in Recorded(q)
    <3>1. Len(s) + 1 \in 1..Len(q)
      BY <1>1
    <3> QED BY <1>1, <3>1 DEF Recorded
  <2> QED BY <2>1, <2>2, <2>3
<1>3. Distinct(q)
  <2>1. \A i \in 1..Len(s) : s[i] # b
    BY DEF Recorded
  <2>2. \A i \in 1..Len(q) : i \in 1..Len(s) \/ i = Len(s) + 1
    BY <1>1
  <2> QED BY <1>1, <2>1, <2>2 DEF Distinct
<1>4. q # <<>>
  BY <1>1
<1> QED BY <1>1, <1>2, <1>3, <1>4 DEF q

\* A turn of install_trans() leaves one block less to install.
LEMMA FromFacts ==
  ASSUME NEW s \in Seq(Blocks), NEW k \in Nat \ {0}, Distinct(s)
  PROVE  /\ From(s, 1) = Recorded(s)
         /\ k > Len(s) => From(s, k) = {}
         /\ k \in 1..Len(s) => From(s, k + 1) = From(s, k) \ {s[k]} /\ s[k] \in From(s, k)
         /\ From(s, k) \subseteq Recorded(s)
         /\ \A i \in 1..Len(s) : s[i] \in From(s, k) <=> i >= k
<1>1. From(s, 1) = Recorded(s)
  BY DEF From, Recorded
<1>2. k > Len(s) => From(s, k) = {}
  BY DEF From
<1>3. ASSUME NEW j \in Nat PROVE \A i \in 1..Len(s) : s[i] \in From(s, j) <=> i >= j
  BY DEF From, Distinct
<1>4. \A j \in Nat : From(s, j) \subseteq Recorded(s)
  BY DEF From, Recorded
<1>5. ASSUME k \in 1..Len(s) PROVE From(s, k + 1) = From(s, k) \ {s[k]}
  <2>1. \A b \in Recorded(s) : \E i \in 1..Len(s) : s[i] = b
    BY DEF Recorded
  <2>2. \A i \in 1..Len(s) : s[i] \in From(s, k + 1) <=> s[i] \in From(s, k) \ {s[k]}
    <3>1. \A i \in 1..Len(s) : s[i] \in From(s, k + 1) <=> i >= k + 1
      BY <1>3
    <3>2. \A i \in 1..Len(s) : s[i] \in From(s, k) <=> i >= k
      BY <1>3
    <3>3. \A i \in 1..Len(s) : s[i] = s[k] <=> i = k
      BY <1>5 DEF Distinct
    <3> QED BY <3>1, <3>2, <3>3
  <2>3. From(s, k) \subseteq Recorded(s) /\ From(s, k + 1) \subseteq Recorded(s)
    BY <1>4
  <2> QED BY <2>1, <2>2, <2>3
<1>6. k \in 1..Len(s) => s[k] \in From(s, k)
  BY <1>3
<1> QED BY <1>1, <1>2, <1>3, <1>4, <1>5, <1>6

\* What recovery makes of the i-th block of a header on disk.
LEMMA RecoveredFacts ==
  ASSUME NEW b \in Blocks, hd \in Seq(Blocks), Distinct(hd)
  PROVE  /\ b \notin Recorded(hd) => Recovered(b) = home[b]
         /\ \A i \in 1..Len(hd) : hd[i] = b => Recovered(b) = logData[i]
<1>1. b \notin Recorded(hd) => Recovered(b) = home[b]
  BY DEF Recovered
<1>2. ASSUME NEW i \in 1..Len(hd), hd[i] = b PROVE Recovered(b) = logData[i]
  <2> DEFINE j == CHOOSE k \in 1..Len(hd) : hd[k] = b
  <2>1. j \in 1..Len(hd) /\ hd[j] = b
    BY <1>2
  <2>2. j = i
    BY <1>2, <2>1 DEF Distinct
  <2>3. b \in Recorded(hd)
    BY <1>2 DEF Recorded
  <2>4. Recovered(b) = logData[j]
    BY <2>3 DEF Recovered
  <2> QED BY <2>2, <2>4
<1> QED BY <1>1, <1>2

\* log.outstanding counts threads, of which there are finitely many.
LEMMA CountThreads ==
  ASSUME NEW S \in SUBSET Threads, NEW t \in Threads
  PROVE  /\ IsFiniteSet(S) /\ Cardinality(S) \in 0..Cardinality(Threads)
         /\ Cardinality(Threads) \in Nat
         /\ t \notin S => Cardinality(S \cup {t}) = Cardinality(S) + 1
         /\ t \in S => Cardinality(S \ {t}) = Cardinality(S) - 1 /\ Cardinality(S) >= 1
         /\ t \in S /\ Cardinality(S) = 1 => S = {t}
         /\ Cardinality(S) = 0 <=> S = {}
<1>1. IsFiniteSet(Threads)
  BY LogAssumption
<1>2. Cardinality(Threads) \in Nat
  BY <1>1, FS_CardinalityType
<1>3. IsFiniteSet(S) /\ Cardinality(S) <= Cardinality(Threads)
  BY <1>1, FS_Subset
<1>4. Cardinality(S) \in Nat
  BY <1>3, FS_CardinalityType
<1>5. Cardinality(S) = 0 <=> S = {}
  BY <1>3, FS_EmptySet
<1>6. t \notin S => Cardinality(S \cup {t}) = Cardinality(S) + 1
  BY <1>3, FS_AddElement
<1>7. t \in S => Cardinality(S \ {t}) = Cardinality(S) - 1
  BY <1>3, FS_RemoveElement
<1>8. Cardinality(S) = 1 => \E x : S = {x}
  BY <1>3, FS_Singleton
<1> QED BY <1>2, <1>3, <1>4, <1>5, <1>6, <1>7, <1>8

\* At most n blocks a call, so at most |S| * n in all.
LEMMA CountPairs ==
  ASSUME NEW S \in SUBSET Threads, NEW n \in Nat, NEW W \in [Threads -> SUBSET Blocks], NEW R,
         \A t \in S : IsFiniteSet(W[t]) /\ Cardinality(W[t]) <= n
  PROVE  IsFiniteSet(Pairs(S, W, R)) /\ Cardinality(Pairs(S, W, R)) <= Cardinality(S) * n
<1> DEFINE P == Pairs(S, W, R)
<1>1. ASSUME NEW t \in S PROVE \E f \in [W[t] -> 1..n] : \A a, b \in W[t] : f[a] = f[b] => a = b
  <2>1. IsFiniteSet(W[t]) /\ Cardinality(W[t]) <= n
    OBVIOUS
  <2>2. Cardinality(W[t]) \in Nat /\ ExistsBijection(1..Cardinality(W[t]), W[t])
    BY <2>1, FS_CardinalityType
  <2>3. ExistsBijection(W[t], 1..Cardinality(W[t]))
    BY <2>2, Fun_ExistsBijSymmetric
  <2>4. PICK f : f \in Bijection(W[t], 1..Cardinality(W[t]))
    BY <2>3, Fun_ExistsBij
  <2>5. f \in [W[t] -> 1..Cardinality(W[t])] /\ \A a, b \in W[t] : f[a] = f[b] => a = b
    BY <2>4 DEF Bijection, Injection, IsInjective
  <2>6. 1..Cardinality(W[t]) \subseteq 1..n
    BY <2>1, <2>2
  <2>7. f \in [W[t] -> 1..n]
    BY <2>5, <2>6
  <2> QED BY <2>5, <2>7
<1> DEFINE rank == [t \in S |-> CHOOSE f \in [W[t] -> 1..n] :
                                   \A a, b \in W[t] : f[a] = f[b] => a = b]
<1>2. \A t \in S : /\ rank[t] \in [W[t] -> 1..n]
                   /\ \A a, b \in W[t] : rank[t][a] = rank[t][b] => a = b
  BY <1>1
<1> HIDE DEF rank
<1> DEFINE F == [p \in P |-> <<p[1], rank[p[1]][p[2]]>>]
<1>3. F \in [P -> S \X (1..n)]
  BY <1>2 DEF Pairs
<1>4. ASSUME NEW p \in P, NEW q \in P, F[p] = F[q] PROVE p = q
  <2>1. p[1] = q[1] /\ rank[p[1]][p[2]] = rank[q[1]][q[2]]
    BY <1>4
  <2>2. p[2] = q[2]
    BY <1>2, <2>1 DEF Pairs
  <2> QED BY <2>1, <2>2 DEF Pairs
<1>5. F \in Injection(P, S \X (1..n))
  BY <1>3, <1>4, Fun_IsInj
<1>6. IsFiniteSet(S)
  BY LogAssumption, FS_Subset
<1>7. IsFiniteSet(1..n) /\ Cardinality(1..n) = n
  BY FS_Interval
<1>8. IsFiniteSet(S \X (1..n)) /\ Cardinality(S \X (1..n)) = Cardinality(S) * n
  BY <1>6, <1>7, FS_Product
<1> HIDE DEF P, F
<1>9. IsFiniteSet(P) /\ Cardinality(P) <= Cardinality(S) * n
  BY <1>5, <1>8, FS_Injection
<1> QED BY <1>9 DEF P

\* A call that records a block it wrote spends one of its blocks.
LEMMA PairsAdd ==
  ASSUME NEW S \in SUBSET Threads, NEW n \in Nat, NEW W \in [Threads -> SUBSET Blocks], NEW R,
         \A t \in S : IsFiniteSet(W[t]) /\ Cardinality(W[t]) <= n,
         NEW t \in S, NEW b \in W[t], b \notin R
  PROVE  /\ Cardinality(Pairs(S, W, R \cup {b})) >= Cardinality(Pairs(S, W, R)) + 1
         /\ Cardinality(Pairs(S, W, R)) + 1 <= Cardinality(S) * n
<1> DEFINE P == Pairs(S, W, R)
<1> DEFINE Q == Pairs(S, W, R \cup {b})
<1>1. IsFiniteSet(P) /\ IsFiniteSet(Q) /\ Cardinality(Q) <= Cardinality(S) * n
  BY CountPairs
<1>2. P \cup {<<t, b>>} \in SUBSET Q /\ <<t, b>> \notin P
  BY DEF Pairs
<1> HIDE DEF P, Q
<1>3. Cardinality(P \cup {<<t, b>>}) = Cardinality(P) + 1
  BY <1>1, <1>2, FS_AddElement
<1>4. Cardinality(P \cup {<<t, b>>}) <= Cardinality(Q)
  BY <1>1, <1>2, FS_Subset
<1>5. Cardinality(P) \in Nat /\ Cardinality(Q) \in Nat
  BY <1>1, FS_CardinalityType
<1>6. Cardinality(S) \in Nat
  BY LogAssumption, FS_Subset, FS_CardinalityType
<1>7. Cardinality(S) * n \in Nat
  BY <1>6
<1>8. Cardinality(Q) >= Cardinality(P) + 1 /\ Cardinality(P) + 1 <= Cardinality(S) * n
  BY <1>1, <1>3, <1>4, <1>5, <1>7
<1> QED BY <1>8 DEF P, Q

\* What is recorded of more blocks written by more calls is no less.
LEMMA PairsGrow ==
  ASSUME NEW S \in SUBSET Threads, NEW T \in SUBSET Threads, S \subseteq T, NEW n \in Nat,
         NEW W \in [Threads -> SUBSET Blocks], NEW X \in [Threads -> SUBSET Blocks], NEW R,
         \A t \in T : IsFiniteSet(X[t]) /\ Cardinality(X[t]) <= n,
         \A t \in S : W[t] \subseteq X[t]
  PROVE  Cardinality(Pairs(S, W, R)) <= Cardinality(Pairs(T, X, R))
<1>1. IsFiniteSet(Pairs(T, X, R))
  BY CountPairs
<1>2. Pairs(S, W, R) \in SUBSET Pairs(T, X, R)
  BY DEF Pairs
<1> QED BY <1>1, <1>2, FS_Subset

\* A call that ends gives back no more than its reservation.
LEMMA PairsDrop ==
  ASSUME NEW S \in SUBSET Threads, NEW n \in Nat, NEW W \in [Threads -> SUBSET Blocks], NEW R,
         \A t \in S : IsFiniteSet(W[t]) /\ Cardinality(W[t]) <= n,
         NEW t \in S
  PROVE  Cardinality(Pairs(S, W, R)) <= Cardinality(Pairs(S \ {t}, W, R)) + n
<1> DEFINE P == Pairs(S, W, R)
<1> DEFINE Q == Pairs(S \ {t}, W, R)
<1> DEFINE D == Pairs({t}, W, R)
<1>1. IsFiniteSet(P) /\ IsFiniteSet(Q)
  BY CountPairs
<1>2. IsFiniteSet(D) /\ Cardinality(D) <= Cardinality({t}) * n
  <2>1. {t} \in SUBSET Threads /\ \A u \in {t} : IsFiniteSet(W[u]) /\ Cardinality(W[u]) <= n
    OBVIOUS
  <2> QED BY <2>1, CountPairs
<1>3. Cardinality({t}) = 1
  BY FS_Singleton
<1>4. P = Q \cup D
  BY DEF Pairs
<1> HIDE DEF P, Q, D
<1>5. Cardinality(Q \cup D) = Cardinality(Q) + Cardinality(D) - Cardinality(Q \cap D)
  BY <1>1, <1>2, FS_Union
<1>6. IsFiniteSet(Q \cap D)
  BY <1>1, FS_Intersection
<1>7. Cardinality(Q) \in Nat /\ Cardinality(D) \in Nat /\ Cardinality(Q \cap D) \in Nat
  BY <1>1, <1>2, <1>6, FS_CardinalityType
<1>8. Cardinality(P) <= Cardinality(Q) + n
  BY <1>2, <1>3, <1>4, <1>5, <1>7
<1> QED BY <1>8 DEF P, Q

-----------------------------------------------------------------------------
(* What the invariant says of a thread's place in log.c *)

\* While a system call runs nothing is being committed: the header on disk is
\* empty, and what log.lh records is pinned in the cache.
LEMMA CallFacts ==
  ASSUME IInv, NEW t \in Threads, t \in Open
  PROVE  /\ mode = "up" /\ ~committing /\ outstanding >= 1 /\ Budget
         /\ hd = <<>> /\ dirty = Recorded(lh)
         /\ \A u \in Threads : pc[u] \notin CommitPCs
         /\ ~Committing("write_log") /\ ~Committing("install") /\ ~Committing("finish")
<1>1. mode = "up" /\ ~committing
  BY DEF IInv, DownShape, CountShape
<1>2. \A u \in Threads : pc[u] \notin CommitPCs
  BY <1>1 DEF IInv, CountShape
<1>3. ~Committing("write_log") /\ ~Committing("install") /\ ~Committing("finish")
  BY <1>2 DEF Committing, CommitPCs
<1>4. hd = <<>> /\ dirty = Recorded(lh)
  BY <1>1, <1>3 DEF IInv, HeadShape, DirtyShape
<1>5. Open \in SUBSET Threads
  BY DEF Open
<1>6. outstanding >= 1
  BY <1>5, CountThreads DEF IInv, CountShape
<1> QED BY <1>1, <1>2, <1>3, <1>4, <1>6 DEF IInv, Reserved

\* The thread in commit() is alone: no call runs and no buffer is locked.
LEMMA CommitFacts ==
  ASSUME IInv, NEW t \in Threads, pc[t] \in CommitPCs
  PROVE  /\ mode = "up" /\ committing /\ outstanding = 0 /\ Open = {}
         /\ \A u \in Threads : buf[u] = NoBlock
         /\ Locked = {}
         /\ \A u \in Threads : u # t => pc[u] \in {"idle", "begin", "asleep"}
         /\ Committing("write_log") <=> pc[t] = "write_log"
         /\ Committing("install") <=> pc[t] = "install"
         /\ Committing("finish") <=> pc[t] = "finish"
<1>1. mode = "up" /\ committing /\ Open = {}
  BY DEF IInv, DownShape, CountShape
<1>2. outstanding = 0
  BY <1>1, FS_EmptySet DEF IInv, CountShape
<1>3. \A u \in Threads : pc[u] \notin CallPCs /\ pc[u] # "panic"
  BY <1>1 DEF Open
<1>4. \A u \in Threads : buf[u] = NoBlock
  BY <1>3 DEF IInv, BufShape, CallPCs
<1>5. Locked = {}
  BY <1>4 DEF Locked
<1>6. \A u \in Threads : u # t => pc[u] \notin CommitPCs
  BY DEF IInv, CountShape
<1>7. \A u \in Threads : u # t => pc[u] \in {"idle", "begin", "asleep"}
  BY <1>3, <1>6 DEF IInv, TypeOK
<1>8. \A l \in CommitPCs : Committing(l) <=> pc[t] = l
  BY <1>6 DEF Committing
<1> QED BY <1>1, <1>2, <1>4, <1>5, <1>7, <1>8 DEF CommitPCs

\* Between the last end_op() and the next begin_op() the log is empty.
LEMMA RestFacts ==
  ASSUME IInv, mode = "up", ~committing, Open = {}
  PROVE  lh = <<>> /\ hd = <<>> /\ dirty = {} /\ Locked = {}
<1>1. \A u \in Threads : pc[u] \notin CommitPCs
  BY DEF IInv, CountShape
<1>2. ~Committing("write_log") /\ ~Committing("install")
  BY <1>1 DEF Committing, CommitPCs
<1>3. lh = <<>> /\ hd = <<>>
  BY <1>2 DEF IInv, HeadShape
<1>4. dirty = {}
  BY <1>2, <1>3, RecordedFacts DEF IInv, DirtyShape, TypeOK
<1>5. \A u \in Threads : pc[u] \notin CallPCs /\ pc[u] # "panic"
  BY DEF Open
<1>6. \A u \in Threads : buf[u] = NoBlock
  BY <1>5 DEF IInv, BufShape, CallPCs
<1> QED BY <1>3, <1>4, <1>6 DEF Locked

\* A machine that recovers has no buffer in use.
LEMMA DownFacts ==
  ASSUME IInv, mode # "up"
  PROVE  /\ Open = {} /\ outstanding = 0 /\ ~committing /\ dirty = {} /\ Locked = {}
         /\ \A u \in Threads : pc[u] = "idle" /\ buf[u] = NoBlock
<1>1. Open = {} /\ ~committing /\ dirty = {} /\ \A u \in Threads : pc[u] = "idle"
  BY DEF IInv, DownShape
<1>2. outstanding = 0
  BY <1>1, FS_EmptySet DEF IInv, CountShape
<1>3. \A u \in Threads : buf[u] = NoBlock
  BY <1>1 DEF IInv, BufShape
<1> QED BY <1>1, <1>2, <1>3 DEF Locked

\* A thread that goes on leaves the others where they are.
LEMMA GotoFacts ==
  ASSUME TypeOK, NEW t \in Threads, NEW l \in Labels, Goto(t, l)
  PROVE  pc' \in [Threads -> Labels] /\ pc'[t] = l /\ \A u \in Threads : u # t => pc'[u] = pc[u]
BY DEF TypeOK, Goto, Labels

\* wakeup(&log) moves the sleepers, and nobody else, back to begin_op()'s loop.
LEMMA WakeFacts ==
  ASSUME TypeOK, NEW t \in Threads, NEW l \in Labels, WakeAndGoto(t, l)
  PROVE  /\ pc' \in [Threads -> Labels] /\ pc'[t] = l
         /\ \A u \in Threads : u # t => pc'[u] = IF pc[u] = "asleep" THEN "begin" ELSE pc[u]
BY DEF TypeOK, WakeAndGoto, Labels

\* A step of a thread that leaves disk, cache and log alone, and does not start
\* or end a commit, keeps what the invariant says of them.
LEMMA CallStep ==
  ASSUME IInv, mode = "up",
         UNCHANGED <<home, logData, hd, cache, dirty, lh, committing, buf, tail, mode, crashes>>,
         \A u \in Threads : pc[u] \in CommitPCs \/ pc'[u] \in CommitPCs => pc'[u] = pc[u],
         lh # <<>> => Open' # {} \/ Committing("write_log") \/ Committing("install")
  PROVE  DownShape' /\ HeadShape' /\ DirtyShape' /\ CopyShape'
<1>1. \A l \in CommitPCs : Committing(l)' <=> Committing(l)
  BY DEF Committing
<1>2. /\ Committing("write_log")' <=> Committing("write_log")
      /\ Committing("install")' <=> Committing("install")
  BY <1>1 DEF CommitPCs
<1>3. DownShape'
  BY DEF DownShape
<1>4. HeadShape'
  BY <1>2 DEF IInv, HeadShape, Distinct
<1>5. DirtyShape'
  BY <1>2 DEF IInv, DirtyShape, Pending, From, Recorded, Locked
<1>6. CopyShape'
  BY <1>2 DEF IInv, CopyShape
<1> QED BY <1>3, <1>4, <1>5, <1>6

-----------------------------------------------------------------------------
(* begin_op(), log_write() and end_op() keep the invariant *)

\* The sizes of the log and of a system call's reservation.
LEMMA SizeFacts ==
  /\ LOGSIZE \in Nat /\ MAXOPBLOCKS \in Nat /\ MAXOPBLOCKS >= 1 /\ MAXOPBLOCKS <= LOGSIZE
  /\ NLOG \in Int /\ MaxOpWrites \in Nat /\ MaxOpWrites <= MAXOPBLOCKS
BY LogAssumption

\* begin_op() goes on: one call more, within the reservation it has tested.
LEMMA BeginOpInv ==
  ASSUME IInv, NEW t \in Threads, BeginOp(t)
  PROVE  IInv'
<1>1. /\ mode = "up" /\ ~committing /\ pc[t] \in {"idle", "begin"}
      /\ Len(lh) + (outstanding + 1) * MAXOPBLOCKS <= LOGSIZE
      /\ outstanding' = outstanding + 1 /\ wrote' = [wrote EXCEPT ![t] = {}]
      /\ UNCHANGED <<home, logData, hd, cache, dirty, lh, committing, buf, tail, mode, crashes>>
  BY DEF BeginOp, Beginning, At, MayBegin, disk
<1>2. pc' \in [Threads -> Labels] /\ pc'[t] = "op" /\ \A u \in Threads : u # t => pc'[u] = pc[u]
  BY GotoFacts DEF IInv, BeginOp, Labels, CallPCs
<1>3. Open' = Open \cup {t} /\ t \notin Open /\ Open \in SUBSET Threads
  BY <1>1, <1>2 DEF Open, CallPCs
<1>4. outstanding' = Cardinality(Open') /\ outstanding' \in 0..Cardinality(Threads)
  <2>1. Cardinality(Open \cup {t}) = Cardinality(Open) + 1
    BY <1>3, CountThreads
  <2>2. Cardinality(Open \cup {t}) \in 0..Cardinality(Threads)
    BY <1>3, CountThreads
  <2> QED BY <1>1, <1>3, <2>1, <2>2 DEF IInv, CountShape
<1>5. TypeOK'
  <2>1. wrote' \in [Threads -> SUBSET Blocks]
    BY <1>1 DEF IInv, TypeOK
  <2> QED BY <1>1, <1>2, <1>4, <2>1 DEF IInv, TypeOK, Labels
<1>6. CountShape'
  BY <1>1, <1>2, <1>4 DEF IInv, CountShape, CommitPCs
<1>7. DownShape' /\ HeadShape' /\ DirtyShape' /\ CopyShape'
  <2>1. \A u \in Threads : pc[u] \in CommitPCs \/ pc'[u] \in CommitPCs => pc'[u] = pc[u]
    BY <1>1, <1>2 DEF CommitPCs
  <2>2. Open' # {}
    BY <1>3
  <2> QED BY <1>1, <2>1, <2>2, CallStep
<1>8. BufShape'
  <2>1. buf[t] = NoBlock
    BY <1>1 DEF IInv, BufShape
  <2>2. \A u \in Threads : u # t => wrote'[u] = wrote[u]
    BY <1>1 DEF IInv, TypeOK
  <2> QED BY <1>1, <1>2, <2>1, <2>2 DEF IInv, BufShape
<1>9. WroteShape'
  <2>1. wrote'[t] = {} /\ \A u \in Threads : u # t => wrote'[u] = wrote[u]
    BY <1>1 DEF IInv, TypeOK
  <2>2. IsFiniteSet(wrote'[t]) /\ Cardinality(wrote'[t]) <= MaxOpWrites
    BY <2>1, FS_EmptySet, SizeFacts
  <2>3. ASSUME NEW u \in Threads, u # t
        PROVE  /\ IsFiniteSet(wrote'[u]) /\ Cardinality(wrote'[u]) <= MaxOpWrites
               /\ u \in Open' => wrote'[u] \ {buf'[u]} \subseteq Recorded(lh)'
    BY <1>1, <1>3, <2>1, <2>3 DEF IInv, WroteShape, Recorded
  <2> QED BY <2>1, <2>2, <2>3 DEF WroteShape
<1>10. Reserved'
  <2>1. IsFiniteSet(Pairs(Open', wrote', Recorded(lh'))) 
    BY <1>3, <1>5, <1>9, SizeFacts, CountPairs DEF WroteShape, TypeOK
  <2>2. Cardinality(Pairs(Open', wrote', Recorded(lh'))) \in Nat
    BY <2>1, FS_CardinalityType
  <2>3. Spent' = Pairs(Open', wrote', Recorded(lh'))
    BY DEF Spent, Pairs, Recorded
  <2>4. Cardinality(Spent') \in Nat
    BY <2>2, <2>3
  <2>5. Len(lh) + outstanding' * MAXOPBLOCKS <= LOGSIZE
    BY <1>1
  <2>6. Len(lh) + outstanding' * MAXOPBLOCKS \in Nat
    BY <1>4, <1>5, <1>1, SizeFacts DEF TypeOK
  <2> QED BY <1>1, <2>4, <2>5, <2>6, SizeFacts DEF Reserved, Budget
<1> QED BY <1>5, <1>6, <1>7, <1>8, <1>9, <1>10 DEF IInv

\* begin_op() has to wait: it only moves.
LEMMA BeginSleepInv ==
  ASSUME IInv, NEW t \in Threads, BeginSleep(t)
  PROVE  IInv'
<1>1. /\ mode = "up" /\ pc[t] \in {"idle", "begin"}
      /\ UNCHANGED <<home, logData, hd, cache, dirty, lh, committing, buf, tail, mode, crashes>>
      /\ UNCHANGED <<outstanding, wrote>>
  BY DEF BeginSleep, Beginning, At, disk, memory
<1>2. pc' \in [Threads -> Labels] /\ pc'[t] = "asleep" /\ \A u \in Threads : u # t => pc'[u] = pc[u]
  BY GotoFacts DEF IInv, BeginSleep, Labels
<1>3. Open' = Open
  BY <1>1, <1>2 DEF Open, CallPCs
<1>4. TypeOK'
  BY <1>1, <1>2 DEF IInv, TypeOK, Labels
<1>5. CountShape'
  BY <1>1, <1>2, <1>3 DEF IInv, CountShape, CommitPCs
<1>6. DownShape' /\ HeadShape' /\ DirtyShape' /\ CopyShape'
  <2>1. \A u \in Threads : pc[u] \in CommitPCs \/ pc'[u] \in CommitPCs => pc'[u] = pc[u]
    BY <1>1, <1>2 DEF CommitPCs
  <2>2. lh # <<>> => Open' # {} \/ Committing("write_log") \/ Committing("install")
    BY <1>1, <1>3 DEF IInv, HeadShape
  <2> QED BY <1>1, <2>1, <2>2, CallStep
<1>7. BufShape'
  BY <1>1, <1>2 DEF IInv, BufShape
<1>8. WroteShape'
  BY <1>1, <1>3 DEF IInv, WroteShape, Recorded
<1>9. Reserved'
  BY <1>1, <1>3 DEF IInv, Reserved, Budget, Spent, Pairs, Recorded
<1> QED BY <1>4, <1>5, <1>6, <1>7, <1>8, <1>9 DEF IInv

\* log_write() panics or goes on; a call that panics stays counted.
LEMMA LogCheckInv ==
  ASSUME IInv, NEW t \in Threads, LogCheck(t)
  PROVE  IInv'
<1>1. /\ mode = "up" /\ pc[t] = "modified"
      /\ UNCHANGED <<home, logData, hd, cache, dirty, lh, committing, buf, tail, mode, crashes>>
      /\ UNCHANGED <<outstanding, wrote>>
  BY DEF LogCheck, At, disk, memory
<1>2. PICK l \in {"panic", "logging"} : Goto(t, l)
  BY DEF LogCheck
<1>3. pc' \in [Threads -> Labels] /\ pc'[t] = l /\ \A u \in Threads : u # t => pc'[u] = pc[u]
  BY <1>2, GotoFacts DEF IInv, Labels, CallPCs
<1>4. Open' = Open
  BY <1>1, <1>3 DEF Open, CallPCs
<1>5. TypeOK'
  BY <1>1, <1>3 DEF IInv, TypeOK, Labels
<1>6. CountShape'
  BY <1>1, <1>3, <1>4 DEF IInv, CountShape, CommitPCs
<1>7. DownShape' /\ HeadShape' /\ DirtyShape' /\ CopyShape'
  <2>1. \A u \in Threads : pc[u] \in CommitPCs \/ pc'[u] \in CommitPCs => pc'[u] = pc[u]
    BY <1>1, <1>3 DEF CommitPCs
  <2>2. lh # <<>> => Open' # {} \/ Committing("write_log") \/ Committing("install")
    BY <1>1, <1>4 DEF IInv, HeadShape
  <2> QED BY <1>1, <2>1, <2>2, CallStep
<1>8. BufShape'
  BY <1>1, <1>3 DEF IInv, BufShape
<1>9. WroteShape'
  BY <1>1, <1>4 DEF IInv, WroteShape, Recorded
<1>10. Reserved'
  BY <1>1, <1>4 DEF IInv, Reserved, Budget, Spent, Pairs, Recorded
<1> QED BY <1>5, <1>6, <1>7, <1>8, <1>9, <1>10 DEF IInv

\* end_op() of a call that is not the last: its reservation is given back.
LEMMA EndOpInv ==
  ASSUME IInv, NEW t \in Threads, EndOp(t)
  PROVE  IInv'
<1>1. /\ mode = "up" /\ pc[t] = "op" /\ outstanding' = outstanding - 1
      /\ UNCHANGED <<home, logData, hd, cache, dirty, lh, committing, buf, tail, mode, crashes>>
      /\ UNCHANGED wrote
  BY DEF EndOp, At, disk
<1>2. t \in Open /\ Open \in SUBSET Threads
  BY <1>1 DEF Open, CallPCs
<1>3. ~committing /\ Budget /\ outstanding > 1
  BY <1>2, CallFacts DEF EndOp
<1>4. /\ pc' \in [Threads -> Labels] /\ pc'[t] = "idle"
      /\ \A u \in Threads : u # t => pc'[u] = IF pc[u] = "asleep" THEN "begin" ELSE pc[u]
  BY <1>3, WakeFacts DEF IInv, EndOp, Labels
<1>5. Open' = Open \ {t}
  BY <1>1, <1>4 DEF Open, CallPCs
<1>6. outstanding' = Cardinality(Open') /\ outstanding' \in 0..Cardinality(Threads) /\ Open' # {}
  <2>1. Cardinality(Open \ {t}) = Cardinality(Open) - 1
    BY <1>2, CountThreads
  <2>2. Cardinality(Open \ {t}) \in 0..Cardinality(Threads)
    BY <1>2, CountThreads
  <2>3. outstanding = Cardinality(Open)
    BY DEF IInv, CountShape
  <2>4. Cardinality(Open) > 1 /\ Cardinality(Open \ {t}) # 0
    BY <1>3, <2>1, <2>2, <2>3
  <2>5. Open \ {t} # {}
    BY <2>4, FS_EmptySet
  <2> QED BY <1>1, <1>5, <2>1, <2>2, <2>3, <2>5
<1>7. TypeOK'
  BY <1>1, <1>4, <1>6 DEF IInv, TypeOK, Labels
<1>8. CountShape'
  BY <1>1, <1>3, <1>4, <1>6 DEF IInv, CountShape, CommitPCs
<1>9. DownShape' /\ HeadShape' /\ DirtyShape' /\ CopyShape'
  <2>1. \A u \in Threads : pc[u] \in CommitPCs \/ pc'[u] \in CommitPCs => pc'[u] = pc[u]
    BY <1>1, <1>4 DEF CommitPCs
  <2> QED BY <1>1, <1>6, <2>1, CallStep
<1>10. BufShape'
  BY <1>1, <1>4 DEF IInv, BufShape
<1>11. WroteShape'
  BY <1>1, <1>5 DEF IInv, WroteShape, Recorded
<1>12. Reserved'
  <2>1. \A u \in Open : IsFiniteSet(wrote[u]) /\ Cardinality(wrote[u]) <= MaxOpWrites
    BY <1>2 DEF IInv, WroteShape
  <2>2. wrote \in [Threads -> SUBSET Blocks]
    BY DEF IInv, TypeOK
  <2> DEFINE R == Recorded(lh)
  <2> HIDE DEF R
  <2>3. Cardinality(Pairs(Open, wrote, R)) <= Cardinality(Pairs(Open \ {t}, wrote, R)) + MaxOpWrites
    BY <1>2, <2>1, <2>2, SizeFacts, PairsDrop
  <2>4. IsFiniteSet(Pairs(Open, wrote, R))
    BY <1>2, <2>1, <2>2, SizeFacts, CountPairs
  <2>5. IsFiniteSet(Pairs(Open \ {t}, wrote, R))
    <3>1. Pairs(Open \ {t}, wrote, R) \in SUBSET Pairs(Open, wrote, R)
      BY DEF Pairs
    <3> QED BY <2>4, <3>1, FS_Subset
  <2>6. Cardinality(Pairs(Open, wrote, R)) \in Nat /\ Cardinality(Pairs(Open \ {t}, wrote, R)) \in Nat
    BY <2>4, <2>5, FS_CardinalityType
  <2>7. Spent = Pairs(Open, wrote, R) /\ Spent' = Pairs(Open \ {t}, wrote, R)
    BY <1>1, <1>5 DEF Spent, R, Pairs, Recorded
  <2>8. Cardinality(Spent) <= Cardinality(Spent') + MAXOPBLOCKS
        /\ Cardinality(Spent) \in Nat /\ Cardinality(Spent') \in Nat
    BY <2>3, <2>6, <2>7, SizeFacts
  <2>9. Len(lh) \in Nat /\ outstanding \in Nat
    BY <1>1, <1>3 DEF IInv, TypeOK
  <2>10. outstanding' * MAXOPBLOCKS = outstanding * MAXOPBLOCKS - MAXOPBLOCKS
    BY <1>1, <2>9, SizeFacts
  <2>11. outstanding * MAXOPBLOCKS \in Int
    BY <2>9, SizeFacts
  <2>12. Len(lh') + outstanding' * MAXOPBLOCKS <= LOGSIZE + Cardinality(Spent')
    BY <1>1, <1>3, <2>8, <2>9, <2>10, <2>11, SizeFacts DEF Budget
  <2> QED BY <2>12 DEF Reserved, Budget
<1> QED BY <1>7, <1>8, <1>9, <1>10, <1>11, <1>12 DEF IInv

\* A call changes a buffer it has locked.
LEMMA ModifyInv ==
  ASSUME IInv, NEW t \in Threads, NEW b \in Blocks, NEW v \in Values, Modify(t, b, v)
  PROVE  IInv'
<1>1. /\ mode = "up" /\ pc[t] = "op" /\ b \notin Locked
      /\ Cardinality(wrote[t] \cup {b}) <= MaxOpWrites
      /\ cache' = [cache EXCEPT ![b] = v] /\ buf' = [buf EXCEPT ![t] = b]
      /\ wrote' = [wrote EXCEPT ![t] = wrote[t] \cup {b}]
      /\ UNCHANGED <<home, logData, hd, dirty, lh, outstanding, committing, tail, mode, crashes>>
  BY DEF Modify, At, disk
<1>2. pc' \in [Threads -> Labels] /\ pc'[t] = "modified" /\ \A u \in Threads : u # t => pc'[u] = pc[u]
  BY GotoFacts DEF IInv, Modify, Labels, CallPCs
<1>3. Open' = Open /\ t \in Open /\ Open \in SUBSET Threads
  BY <1>1, <1>2 DEF Open, CallPCs
<1>4. /\ ~committing /\ hd = <<>> /\ dirty = Recorded(lh) /\ Budget
      /\ \A u \in Threads : pc[u] \notin CommitPCs
  BY <1>3, CallFacts
<1>5. \A u \in Threads : pc'[u] \notin CommitPCs
  BY <1>2, <1>4 DEF CommitPCs
<1>6. ~Committing("write_log")' /\ ~Committing("install")'
  BY <1>5 DEF Committing, CommitPCs
<1>7. /\ buf[t] = NoBlock /\ buf'[t] = b /\ wrote'[t] = wrote[t] \cup {b}
      /\ \A u \in Threads : u # t => buf'[u] = buf[u] /\ wrote'[u] = wrote[u]
      /\ cache'[b] = v /\ \A c \in Blocks : c # b => cache'[c] = cache[c]
  BY <1>1 DEF IInv, TypeOK, BufShape
<1>8. \A u \in Threads : buf[u] # b
  BY <1>1, LogAssumption DEF Locked
<1>9. TypeOK'
  <2>1. cache' \in [Blocks -> Values \cup {NotCached}] /\ buf' \in [Threads -> Blocks \cup {NoBlock}]
    BY <1>1 DEF IInv, TypeOK
  <2>2. wrote' \in [Threads -> SUBSET Blocks]
    BY <1>1 DEF IInv, TypeOK
  <2> QED BY <1>1, <1>2, <2>1, <2>2 DEF IInv, TypeOK, Labels
<1>10. CountShape'
  BY <1>1, <1>3, <1>4, <1>5 DEF IInv, CountShape
<1>11. DownShape'
  BY <1>1 DEF DownShape
<1>12. BufShape'
  BY <1>2, <1>7, <1>8 DEF IInv, BufShape
<1>13. HeadShape'
  BY <1>1, <1>3, <1>4, <1>6 DEF IInv, HeadShape, Distinct
<1>14. DirtyShape'
  <2>1. \A c \in Blocks : c \in Locked' <=> c \in Locked \/ c = b
    BY <1>7, LogAssumption DEF Locked
  <2>2. v # NotCached
    BY LogAssumption
  <2>3. Locked' \subseteq Blocks
    BY <1>9 DEF TypeOK, Locked
  <2>4. dirty' = Recorded(lh')
    BY <1>1, <1>4
  <2>5. \A c \in Blocks : c \in dirty' \/ c \in Locked' => cache'[c] # NotCached
    BY <1>1, <1>7, <2>1, <2>2 DEF IInv, DirtyShape
  <2>6. \A c \in Blocks : cache'[c] # NotCached /\ c \notin dirty' \cup Locked' => cache'[c] = home'[c]
    BY <1>1, <1>7, <2>1 DEF IInv, DirtyShape
  <2>7. dirty' \subseteq Blocks
    BY <1>9 DEF TypeOK
  <2> QED BY <1>6, <2>3, <2>4, <2>5, <2>6, <2>7 DEF DirtyShape
<1>15. CopyShape'
  BY <1>1, <1>6 DEF CopyShape
<1>16. WroteShape'
  <2>1. IsFiniteSet(wrote[t] \cup {b})
    BY FS_AddElement DEF IInv, WroteShape
  <2>2. wrote[t] \subseteq Recorded(lh)
    <3>1. wrote[t] \subseteq Blocks /\ wrote[t] \ {buf[t]} \subseteq Recorded(lh)
      BY <1>3 DEF IInv, TypeOK, WroteShape
    <3> QED BY <1>7, <3>1, LogAssumption
  <2>3. ASSUME NEW u \in Threads, u # t
        PROVE  /\ IsFiniteSet(wrote'[u]) /\ Cardinality(wrote'[u]) <= MaxOpWrites
               /\ u \in Open' => wrote'[u] \ {buf'[u]} \subseteq Recorded(lh')
    BY <1>1, <1>3, <1>7, <2>3 DEF IInv, WroteShape
  <2>4. /\ IsFiniteSet(wrote'[t]) /\ Cardinality(wrote'[t]) <= MaxOpWrites
        /\ wrote'[t] \ {buf'[t]} \subseteq Recorded(lh')
    BY <1>1, <1>7, <2>1, <2>2
  <2> QED BY <2>3, <2>4 DEF WroteShape, Recorded
<1>17. Reserved'
  <2> DEFINE R == Recorded(lh)
  <2> HIDE DEF R
  <2>1. \A u \in Open : IsFiniteSet(wrote'[u]) /\ Cardinality(wrote'[u]) <= MaxOpWrites
    BY <1>3, <1>16 DEF WroteShape
  <2>2. wrote \in [Threads -> SUBSET Blocks] /\ wrote' \in [Threads -> SUBSET Blocks]
    BY <1>9 DEF IInv, TypeOK
  <2>3. \A u \in Open : wrote[u] \subseteq wrote'[u]
    BY <1>3, <1>7
  <2>4. Cardinality(Pairs(Open, wrote, R)) <= Cardinality(Pairs(Open, wrote', R))
    BY <1>3, <2>1, <2>2, <2>3, SizeFacts, PairsGrow
  <2>5. \A u \in Open : IsFiniteSet(wrote[u]) /\ Cardinality(wrote[u]) <= MaxOpWrites
    BY <1>3 DEF IInv, WroteShape
  <2>6. IsFiniteSet(Pairs(Open, wrote, R)) /\ IsFiniteSet(Pairs(Open, wrote', R))
    BY <1>3, <2>1, <2>2, <2>5, SizeFacts, CountPairs
  <2>7. Cardinality(Pairs(Open, wrote, R)) \in Nat /\ Cardinality(Pairs(Open, wrote', R)) \in Nat
    BY <2>6, FS_CardinalityType
  <2>8. Spent = Pairs(Open, wrote, R) /\ Spent' = Pairs(Open, wrote', R)
    BY <1>1, <1>3 DEF Spent, R, Pairs, Recorded
  <2>9. Cardinality(Spent) <= Cardinality(Spent') /\ Cardinality(Spent) \in Nat /\ Cardinality(Spent') \in Nat
    BY <2>4, <2>7, <2>8
  <2>10. Len(lh) \in Nat /\ outstanding * MAXOPBLOCKS \in Int
    BY SizeFacts DEF IInv, TypeOK
  <2>11. Len(lh') + outstanding' * MAXOPBLOCKS <= LOGSIZE + Cardinality(Spent')
    BY <1>1, <1>4, <2>9, <2>10, SizeFacts DEF Budget
  <2> QED BY <2>11 DEF Reserved, Budget
<1> QED BY <1>9, <1>10, <1>11, <1>12, <1>13, <1>14, <1>15, <1>16, <1>17 DEF IInv

\* log_write() records and pins the block, within the call's reservation.
LEMMA LogAppendInv ==
  ASSUME IInv, NEW t \in Threads, LogAppend(t)
  PROVE  IInv'
<1> DEFINE b == buf[t]
<1>1. /\ mode = "up" /\ pc[t] = "logging"
      /\ lh' = (IF b \in Recorded(lh) THEN lh ELSE Append(lh, b))
      /\ dirty' = dirty \cup {b} /\ buf' = [buf EXCEPT ![t] = NoBlock]
      /\ UNCHANGED <<home, logData, hd, cache, outstanding, committing, wrote, tail, mode, crashes>>
  BY DEF LogAppend, At, disk, Record, Pin
<1>2. pc' \in [Threads -> Labels] /\ pc'[t] = "op" /\ \A u \in Threads : u # t => pc'[u] = pc[u]
  BY GotoFacts DEF IInv, LogAppend, Labels, CallPCs
<1>3. Open' = Open /\ t \in Open /\ Open \in SUBSET Threads
  BY <1>1, <1>2 DEF Open, CallPCs
<1>4. /\ ~committing /\ hd = <<>> /\ dirty = Recorded(lh) /\ Budget
      /\ \A u \in Threads : pc[u] \notin CommitPCs
  BY <1>3, CallFacts
<1>5. \A u \in Threads : pc'[u] \notin CommitPCs
  BY <1>2, <1>4 DEF CommitPCs
<1>6. ~Committing("write_log")' /\ ~Committing("install")'
  BY <1>5 DEF Committing, CommitPCs
<1>7. /\ b \in wrote[t] /\ b \in Blocks /\ b # NoBlock
      /\ buf'[t] = NoBlock /\ \A u \in Threads : u # t => buf'[u] = buf[u] /\ buf[u] # b
  BY <1>1, LogAssumption DEF IInv, TypeOK, BufShape
<1> HIDE DEF b
<1>8. lh \in Seq(Blocks) /\ Distinct(lh) /\ Len(lh) \in Nat /\ Len(lh) <= LOGSIZE
  BY DEF IInv, TypeOK, HeadShape
<1>9. /\ lh' \in Seq(Blocks) /\ Distinct(lh') /\ Recorded(lh') = Recorded(lh) \cup {b}
      /\ Len(lh') = IF b \in Recorded(lh) THEN Len(lh) ELSE Len(lh) + 1
  BY <1>1, <1>7, <1>8, AppendFacts
<1>10. /\ Cardinality(Open) = outstanding /\ outstanding \in Nat
       /\ wrote \in [Threads -> SUBSET Blocks]
       /\ \A u \in Open : IsFiniteSet(wrote[u]) /\ Cardinality(wrote[u]) <= MaxOpWrites
  BY <1>3 DEF IInv, CountShape, TypeOK, WroteShape
<1>11. Len(lh') <= LOGSIZE /\ Budget'
  <2> DEFINE R == Recorded(lh)
  <2>1. Spent = Pairs(Open, wrote, R) /\ Spent' = Pairs(Open, wrote, R \cup {b})
    <3>1. Recorded(lh)' = Recorded(lh')
      BY DEF Recorded
    <3> QED BY <1>1, <1>3, <1>9, <3>1 DEF Spent, Pairs
  <2> HIDE DEF R
  <2>2. IsFiniteSet(Spent) /\ IsFiniteSet(Spent')
    BY <1>3, <1>10, <2>1, SizeFacts, CountPairs
  <2>3. Cardinality(Spent) \in Nat /\ Cardinality(Spent') \in Nat
    BY <2>2, FS_CardinalityType
  <2>4. CASE b \in R
    <3>1. R \cup {b} = R /\ Len(lh') = Len(lh)
      BY <1>9, <2>4 DEF R
    <3>2. Spent' = Spent
      BY <2>1, <3>1
    <3> QED BY <1>1, <1>4, <1>8, <3>1, <3>2 DEF Budget
  <2>5. CASE b \notin R
    <3>1. Len(lh') = Len(lh) + 1
      BY <1>9, <2>5 DEF R
    <3>2. Cardinality(Spent') >= Cardinality(Spent) + 1 /\ Cardinality(Spent) + 1 <= Cardinality(Open) * MaxOpWrites
      BY <1>3, <1>7, <1>10, <2>1, <2>5, SizeFacts, PairsAdd
    <3>3. outstanding * MaxOpWrites <= outstanding * MAXOPBLOCKS
      BY <1>10, SizeFacts
    <3>4. outstanding * MaxOpWrites \in Nat /\ outstanding * MAXOPBLOCKS \in Nat
      BY <1>10, SizeFacts
    <3>5. Len(lh) + outstanding * MAXOPBLOCKS <= LOGSIZE + Cardinality(Spent)
      BY <1>4 DEF Budget
    <3>6. Len(lh') <= LOGSIZE
      BY <1>8, <1>10, <2>3, <3>1, <3>2, <3>3, <3>4, <3>5, SizeFacts
    <3>7. Len(lh') + outstanding' * MAXOPBLOCKS <= LOGSIZE + Cardinality(Spent')
      BY <1>1, <1>8, <2>3, <3>1, <3>2, <3>4, <3>5, SizeFacts
    <3> QED BY <3>6, <3>7 DEF Budget
  <2> QED BY <2>4, <2>5
<1>12. TypeOK'
  <2>1. buf' \in [Threads -> Blocks \cup {NoBlock}] /\ dirty' \subseteq Blocks
    BY <1>1, <1>7 DEF IInv, TypeOK
  <2> QED BY <1>1, <1>2, <1>9, <1>11, <2>1 DEF IInv, TypeOK, Labels
<1>13. CountShape' /\ DownShape'
  BY <1>1, <1>3, <1>4, <1>5 DEF IInv, CountShape, DownShape
<1>14. BufShape'
  BY <1>1, <1>2, <1>7 DEF IInv, BufShape
<1>15. WroteShape'
  BY <1>1, <1>3, <1>7, <1>9, <1>10 DEF IInv, WroteShape, b
<1>16. HeadShape'
  <2>1. Distinct(lh)' /\ Distinct(hd)'
    BY <1>1, <1>9 DEF IInv, HeadShape, Distinct
  <2> QED BY <1>1, <1>3, <1>4, <1>6, <2>1 DEF HeadShape
<1>17. DirtyShape'
  <2>1. \A c \in Blocks : c \in Locked <=> c \in Locked' \/ c = b
    BY <1>7, LogAssumption DEF Locked, b
  <2>2. Locked' \subseteq Blocks /\ dirty' \subseteq Blocks
    BY <1>12 DEF TypeOK, Locked
  <2>3. dirty' = Recorded(lh')
    BY <1>1, <1>4, <1>9
  <2>4. \A c \in Blocks : c \in dirty' \/ c \in Locked' => cache'[c] # NotCached
    BY <1>1, <1>7, <2>1 DEF IInv, DirtyShape
  <2>5. \A c \in Blocks : cache'[c] # NotCached /\ c \notin dirty' \cup Locked' => cache'[c] = home'[c]
    BY <1>1, <2>1 DEF IInv, DirtyShape
  <2> QED BY <1>6, <2>2, <2>3, <2>4, <2>5 DEF DirtyShape
<1>18. CopyShape'
  BY <1>1, <1>6 DEF CopyShape
<1>19. Reserved'
  BY <1>11 DEF Reserved
<1> QED BY <1>12, <1>13, <1>14, <1>15, <1>16, <1>17, <1>18, <1>19 DEF IInv

\* The last end_op() starts the commit: every call has ended.
LEMMA EndLastInv ==
  ASSUME IInv, NEW t \in Threads, EndLast(t)
  PROVE  IInv'
<1>1. /\ mode = "up" /\ pc[t] = "op" /\ outstanding = 1 /\ ~committing
      /\ outstanding' = 0 /\ committing' = TRUE /\ tail' = 1
      /\ UNCHANGED <<home, logData, hd, cache, dirty, lh, buf, wrote, mode, crashes>>
  BY DEF EndLast, At, disk, TailFirst
<1>2. /\ pc' \in [Threads -> Labels] /\ \A u \in Threads : u # t => pc'[u] = pc[u]
      /\ pc'[t] = IF lh = <<>> THEN "finish" ELSE "write_log"
  BY GotoFacts DEF IInv, EndLast, Labels, CommitPCs
<1>3. t \in Open /\ Open \in SUBSET Threads
  BY <1>1 DEF Open, CallPCs
<1>4. Open = {t}
  <2>1. Cardinality(Open) = 1
    BY <1>1 DEF IInv, CountShape
  <2> QED BY <1>3, <2>1, CountThreads
<1>5. Open' = {} /\ Cardinality(Open') = 0
  <2>1. Open' = {}
    BY <1>2, <1>4 DEF Open, CallPCs
  <2> QED BY <2>1, FS_EmptySet
<1>6. /\ hd = <<>> /\ dirty = Recorded(lh)
      /\ \A u \in Threads : pc[u] \notin CommitPCs
  BY <1>3, CallFacts
<1>7. /\ ~Committing("install")'
      /\ Committing("write_log")' <=> lh # <<>>
  BY <1>2, <1>6 DEF Committing, CommitPCs
<1>8. TypeOK'
  <2>1. Cardinality(Threads) \in Nat
    BY LogAssumption, FS_CardinalityType
  <2>2. outstanding' \in 0..Cardinality(Threads) /\ tail' \in 1..LOGSIZE + 1
    BY <1>1, <2>1, SizeFacts
  <2> QED BY <1>1, <1>2, <2>2 DEF IInv, TypeOK, Labels
<1>9. CountShape'
  BY <1>1, <1>2, <1>5, <1>6 DEF CountShape, CommitPCs
<1>10. BufShape'
  BY <1>1, <1>2 DEF IInv, BufShape
<1>11. WroteShape'
  BY <1>1, <1>5 DEF IInv, WroteShape
<1>12. HeadShape'
  BY <1>1, <1>6, <1>7 DEF IInv, HeadShape, Distinct
<1>13. DirtyShape'
  BY <1>1, <1>6, <1>7 DEF IInv, DirtyShape, Recorded, Locked
<1>14. CopyShape'
  <2>1. Len(lh) \in Nat
    BY DEF IInv, TypeOK
  <2> QED BY <1>1, <1>7, <2>1 DEF CopyShape
<1>15. DownShape' /\ Reserved'
  BY <1>1 DEF DownShape, Reserved
<1> QED BY <1>8, <1>9, <1>10, <1>11, <1>12, <1>13, <1>14, <1>15 DEF IInv

-----------------------------------------------------------------------------
(* commit() keeps the invariant *)

\* A step of the thread in commit() that stays in commit() or ends it keeps what
\* the invariant says of threads.
LEMMA CommitStepInv ==
  ASSUME IInv, NEW t \in Threads, pc[t] \in CommitPCs, NEW l \in CommitPCs, TypeOK',
         pc'[t] = l, \A u \in Threads : u # t => pc'[u] = pc[u],
         UNCHANGED <<outstanding, committing, buf, wrote, mode>>
  PROVE  /\ CountShape' /\ DownShape' /\ BufShape' /\ WroteShape' /\ Reserved'
         /\ Open' = {} /\ Locked' = {}
         /\ Committing("write_log")' <=> l = "write_log"
         /\ Committing("install")' <=> l = "install"
<1>1. /\ mode = "up" /\ committing /\ Open = {} /\ outstanding = 0
      /\ \A u \in Threads : buf[u] = NoBlock
      /\ \A u \in Threads : u # t => pc[u] \in {"idle", "begin", "asleep"}
  BY CommitFacts
<1>2. Open' = {} /\ Cardinality(Open') = 0
  <2>1. Open' = {}
    BY <1>1 DEF Open, CallPCs, CommitPCs
  <2> QED BY <2>1, FS_EmptySet
<1>3. CountShape'
  BY <1>1, <1>2 DEF CountShape, CommitPCs
<1>4. BufShape'
  BY <1>1 DEF BufShape, CommitPCs
<1>5. WroteShape'
  BY <1>2 DEF IInv, WroteShape
<1>6. \A k \in CommitPCs : Committing(k)' <=> l = k
  BY <1>1 DEF Committing, CommitPCs
<1> QED BY <1>1, <1>2, <1>3, <1>4, <1>5, <1>6
        DEF DownShape, Reserved, Locked, CommitPCs

\* A turn of write_log() copies a dirty block to the log.
LEMMA WriteLogInv ==
  ASSUME IInv, NEW t \in Threads, WriteLog(t)
  PROVE  IInv'
<1>1. /\ mode = "up" /\ pc[t] = "write_log" /\ tail <= Len(lh)
      /\ logData' = [logData EXCEPT ![tail] = Bread(lh[tail])]
      /\ cache' = [cache EXCEPT ![lh[tail]] = Bread(lh[tail])]
      /\ tail' = tail + 1
      /\ UNCHANGED <<home, hd, dirty, lh, outstanding, committing, pc, buf, wrote, mode, crashes>>
  BY DEF WriteLog, At, thread
<1>2. pc[t] \in CommitPCs
  BY <1>1 DEF CommitPCs
<1>3. /\ Open = {} /\ Locked = {} /\ Committing("write_log") /\ ~Committing("install")
  BY <1>1, <1>2, CommitFacts
<1>4. /\ lh \in Seq(Blocks) /\ Len(lh) \in Nat /\ Len(lh) <= LOGSIZE /\ tail \in 1..Len(lh)
      /\ tail \in 1..LOGSIZE /\ lh[tail] \in Blocks /\ Distinct(lh)
  BY <1>1, SizeFacts DEF IInv, TypeOK, HeadShape
<1>5. dirty = Recorded(lh) /\ lh[tail] \in dirty /\ cache[lh[tail]] # NotCached
  BY <1>1, <1>3, <1>4, RecordedFacts DEF IInv, DirtyShape
<1>6. cache' = cache /\ logData' = [logData EXCEPT ![tail] = cache[lh[tail]]]
      /\ cache[lh[tail]] \in Values
  BY <1>1, <1>4, <1>5 DEF IInv, TypeOK, Bread
<1>7. TypeOK'
  <2>1. logData' \in [1..LOGSIZE -> Values] /\ tail' \in 1..LOGSIZE + 1
    BY <1>1, <1>4, <1>6, SizeFacts DEF IInv, TypeOK
  <2> QED BY <1>1, <1>6, <2>1 DEF IInv, TypeOK
<1>8. /\ CountShape' /\ DownShape' /\ BufShape' /\ WroteShape' /\ Reserved'
      /\ Open' = {} /\ Locked' = {}
      /\ Committing("write_log")' /\ ~Committing("install")'
  <2>1. pc'[t] = "write_log" /\ "write_log" \in CommitPCs
    BY <1>1 DEF CommitPCs
  <2> QED BY <1>1, <1>2, <1>7, <2>1, CommitStepInv
<1>9. HeadShape'
  BY <1>1, <1>3, <1>8 DEF IInv, HeadShape, Distinct
<1>10. DirtyShape'
  BY <1>1, <1>3, <1>6, <1>8 DEF IInv, DirtyShape, Recorded
<1>11. CopyShape'
  <2>1. \A i \in 1..Len(lh) : i < tail => logData'[i] = cache[lh[i]]
    BY <1>1, <1>3, <1>4, <1>6 DEF IInv, TypeOK, CopyShape
  <2>2. logData'[tail] = cache[lh[tail]]
    BY <1>4, <1>6 DEF IInv, TypeOK
  <2>3. \A i \in 1..Len(lh) : i < tail' => logData'[i] = cache'[lh'[i]]
    BY <1>1, <1>4, <1>6, <2>1, <2>2
  <2>4. tail' <= Len(lh') + 1
    BY <1>1, <1>4
  <2> QED BY <1>1, <1>8, <2>3, <2>4 DEF CopyShape
<1> QED BY <1>7, <1>8, <1>9, <1>10, <1>11 DEF IInv

\* write_head(): all blocks are in the log, none is installed.
LEMMA WriteHeadInv ==
  ASSUME IInv, NEW t \in Threads, WriteHead(t)
  PROVE  IInv'
<1>1. /\ mode = "up" /\ pc[t] = "write_log" /\ tail > Len(lh) /\ hd' = lh /\ tail' = 1
      /\ UNCHANGED <<home, logData, cache, dirty, lh, outstanding, committing,
                     buf, wrote, mode, crashes>>
  BY DEF WriteHead, At, TailFirst, memory
<1>2. pc[t] \in CommitPCs
  BY <1>1 DEF CommitPCs
<1>3. pc' \in [Threads -> Labels] /\ pc'[t] = "install" /\ \A u \in Threads : u # t => pc'[u] = pc[u]
  BY GotoFacts DEF IInv, WriteHead, Labels, CommitPCs
<1>4. /\ Open = {} /\ Locked = {} /\ Committing("write_log") /\ ~Committing("install")
  BY <1>1, <1>2, CommitFacts
<1>5. TypeOK'
  BY <1>1, <1>3, SizeFacts DEF IInv, TypeOK, Labels
<1>6. /\ CountShape' /\ DownShape' /\ BufShape' /\ WroteShape' /\ Reserved'
      /\ Open' = {} /\ Locked' = {}
      /\ ~Committing("write_log")' /\ Committing("install")'
  <2>1. "install" \in CommitPCs
    BY DEF CommitPCs
  <2> QED BY <1>1, <1>2, <1>3, <1>5, <2>1, CommitStepInv
<1>7. lh \in Seq(Blocks) /\ Distinct(lh) /\ Len(lh) \in Nat /\ tail \in Nat
  BY DEF IInv, TypeOK, HeadShape
<1>8. HeadShape'
  BY <1>1, <1>6, <1>7 DEF HeadShape, Distinct
<1>9. Pending' = Recorded(lh)
  <2>1. From(lh, 1) = Recorded(lh)
    BY <1>7, FromFacts
  <2> QED BY <1>1, <2>1 DEF Pending, From
<1>10. DirtyShape'
  BY <1>1, <1>4, <1>6, <1>9 DEF IInv, DirtyShape
<1>11. CopyShape'
  <2>1. \A i \in 1..Len(lh) : logData[i] = cache[lh[i]]
    BY <1>1, <1>4, <1>7 DEF IInv, CopyShape
  <2> QED BY <1>1, <1>6, <1>7, <2>1 DEF CopyShape
<1> QED BY <1>5, <1>6, <1>8, <1>10, <1>11 DEF IInv

\* A turn of install_trans(), in commit() or in recovery: one block of the log
\* is at its place, and its buffer is no longer dirty.
LEMMA InstallFacts ==
  ASSUME IInv, InstallBlock
  PROVE  /\ lh \in Seq(Blocks) /\ Distinct(lh) /\ Len(lh) \in Nat /\ Len(lh) <= LOGSIZE
         /\ tail \in 1..Len(lh) /\ lh[tail] \in Blocks
         /\ tail' = tail + 1 /\ tail' \in 1..LOGSIZE + 1 /\ tail' <= Len(lh) + 1
         /\ home' \in [Blocks -> Values] /\ cache' \in [Blocks -> Values \cup {NotCached}]
         /\ home'[lh[tail]] = logData[tail] /\ cache'[lh[tail]] = logData[tail]
         /\ \A c \in Blocks : c # lh[tail] => home'[c] = home[c] /\ cache'[c] = cache[c]
         /\ logData[tail] \in Values
         /\ dirty' = dirty \ {lh[tail]}
<1>1. /\ lh \in Seq(Blocks) /\ Distinct(lh) /\ Len(lh) \in Nat /\ Len(lh) <= LOGSIZE
      /\ tail \in 1..Len(lh) /\ lh[tail] \in Blocks /\ tail \in 1..LOGSIZE
  BY SizeFacts DEF IInv, TypeOK, HeadShape, InstallBlock
<1>2. /\ tail' = tail + 1 /\ dirty' = dirty \ {lh[tail]}
      /\ home' = [home EXCEPT ![lh[tail]] = logData[tail]]
      /\ cache' = [cache EXCEPT ![lh[tail]] = logData[tail]]
  BY DEF InstallBlock
<1>3. tail' \in 1..LOGSIZE + 1 /\ tail' <= Len(lh) + 1
  BY <1>1, <1>2, SizeFacts
<1>4. /\ home \in [Blocks -> Values] /\ cache \in [Blocks -> Values \cup {NotCached}]
      /\ logData[tail] \in Values
  BY <1>1 DEF IInv, TypeOK
<1> QED BY <1>1, <1>2, <1>3, <1>4

\* install_trans() in commit().
LEMMA InstallInv ==
  ASSUME IInv, NEW t \in Threads, Install(t)
  PROVE  IInv'
<1>1. /\ mode = "up" /\ pc[t] = "install" /\ InstallBlock
      /\ UNCHANGED <<logData, hd, lh, outstanding, committing, pc, buf, wrote, mode, crashes>>
  BY DEF Install, At, thread
<1>2. pc[t] \in CommitPCs
  BY <1>1 DEF CommitPCs
<1>3. /\ Open = {} /\ Locked = {} /\ ~Committing("write_log") /\ Committing("install")
  BY <1>1, <1>2, CommitFacts
<1>4. /\ lh \in Seq(Blocks) /\ Distinct(lh) /\ Len(lh) \in Nat
      /\ tail \in 1..Len(lh) /\ lh[tail] \in Blocks
      /\ tail' = tail + 1 /\ tail' \in 1..LOGSIZE + 1 /\ tail' <= Len(lh) + 1
      /\ home' \in [Blocks -> Values] /\ cache' \in [Blocks -> Values \cup {NotCached}]
      /\ home'[lh[tail]] = logData[tail] /\ cache'[lh[tail]] = logData[tail]
      /\ \A c \in Blocks : c # lh[tail] => home'[c] = home[c] /\ cache'[c] = cache[c]
      /\ logData[tail] \in Values
      /\ dirty' = dirty \ {lh[tail]}
  BY <1>1, InstallFacts
<1>5. TypeOK'
  BY <1>1, <1>4 DEF IInv, TypeOK
<1>6. /\ CountShape' /\ DownShape' /\ BufShape' /\ WroteShape' /\ Reserved'
      /\ Open' = {} /\ Locked' = {}
      /\ ~Committing("write_log")' /\ Committing("install")'
  <2>1. pc'[t] = "install" /\ "install" \in CommitPCs
    BY <1>1 DEF CommitPCs
  <2> QED BY <1>1, <1>2, <1>5, <2>1, CommitStepInv
<1>7. HeadShape'
  BY <1>1, <1>3, <1>6 DEF IInv, HeadShape, Distinct
<1>8. dirty = From(lh, tail) /\ dirty' = From(lh, tail') /\ Pending' = From(lh, tail')
  <2>1. dirty = From(lh, tail)
    BY <1>1, <1>3 DEF IInv, DirtyShape, Pending
  <2>2. From(lh, tail + 1) = From(lh, tail) \ {lh[tail]}
    BY <1>4, FromFacts
  <2>3. Pending' = From(lh, tail')
    BY <1>1 DEF Pending, From
  <2> QED BY <1>4, <2>1, <2>2, <2>3
<1>9. DirtyShape'
  <2>1. \A c \in dirty' : cache'[c] # NotCached
    BY <1>4, <1>5 DEF IInv, DirtyShape, TypeOK
  <2>2. \A c \in Blocks : cache'[c] # NotCached /\ c \notin dirty' => cache'[c] = home'[c]
    BY <1>3, <1>4 DEF IInv, DirtyShape
  <2> QED BY <1>6, <1>8, <2>1, <2>2 DEF DirtyShape
<1>10. CopyShape'
  <2>1. \A i \in 1..Len(lh) : lh[i] \in Blocks /\ (lh[i] = lh[tail] => i = tail)
    BY <1>4 DEF Distinct
  <2>2. \A i \in 1..Len(lh) : IF i < tail THEN home[lh[i]] = logData[i] ELSE logData[i] = cache[lh[i]]
    BY <1>1, <1>3 DEF IInv, CopyShape
  <2>3. \A i \in 1..Len(lh) : IF i < tail' THEN home'[lh[i]] = logData[i] ELSE logData[i] = cache'[lh[i]]
    BY <1>4, <2>1, <2>2
  <2> QED BY <1>1, <1>4, <1>6, <2>3 DEF CopyShape
<1> QED BY <1>5, <1>6, <1>7, <1>9, <1>10 DEF IInv

\* The second write_head() of commit(): everything is installed.
LEMMA EraseLogInv ==
  ASSUME IInv, NEW t \in Threads, EraseLog(t)
  PROVE  IInv'
<1>1. /\ mode = "up" /\ pc[t] = "install" /\ tail > Len(lh) /\ lh' = <<>> /\ hd' = <<>>
      /\ UNCHANGED <<home, logData, cache, dirty, outstanding, committing,
                     buf, wrote, tail, mode, crashes>>
  BY DEF EraseLog, At, Erase
<1>2. pc[t] \in CommitPCs
  BY <1>1 DEF CommitPCs
<1>3. pc' \in [Threads -> Labels] /\ pc'[t] = "finish" /\ \A u \in Threads : u # t => pc'[u] = pc[u]
  BY GotoFacts DEF IInv, EraseLog, Labels, CommitPCs
<1>4. Locked = {} /\ Committing("install")
  BY <1>1, <1>2, CommitFacts
<1>5. TypeOK'
  BY <1>1, <1>3, SizeFacts DEF IInv, TypeOK, Labels
<1>6. /\ CountShape' /\ DownShape' /\ BufShape' /\ WroteShape' /\ Reserved'
      /\ Open' = {} /\ Locked' = {}
      /\ ~Committing("write_log")' /\ ~Committing("install")'
  <2>1. "finish" \in CommitPCs
    BY DEF CommitPCs
  <2> QED BY <1>1, <1>2, <1>3, <1>5, <2>1, CommitStepInv
<1>7. dirty = {}
  <2>1. lh \in Seq(Blocks) /\ Distinct(lh) /\ tail \in Nat \ {0}
    BY DEF IInv, TypeOK, HeadShape
  <2>2. dirty = From(lh, tail)
    BY <1>1, <1>4 DEF IInv, DirtyShape, Pending
  <2> QED BY <1>1, <2>1, <2>2, FromFacts
<1>8. HeadShape'
  BY <1>1, <1>6 DEF HeadShape, Distinct
<1>9. DirtyShape'
  BY <1>1, <1>4, <1>6, <1>7 DEF IInv, DirtyShape, Recorded
<1>10. CopyShape'
  BY <1>1, <1>6 DEF CopyShape
<1> QED BY <1>5, <1>6, <1>8, <1>9, <1>10 DEF IInv

\* The end of end_op() after a commit: the log is empty for the next calls.
LEMMA FinishInv ==
  ASSUME IInv, NEW t \in Threads, Finish(t)
  PROVE  IInv'
<1>1. /\ mode = "up" /\ pc[t] = "finish" /\ committing' = FALSE
      /\ UNCHANGED <<home, logData, hd, cache, dirty, lh, outstanding, buf, wrote, tail, mode, crashes>>
  BY DEF Finish, At, disk
<1>2. /\ pc' \in [Threads -> Labels] /\ pc'[t] = "idle"
      /\ \A u \in Threads : u # t => pc'[u] = IF pc[u] = "asleep" THEN "begin" ELSE pc[u]
  BY WakeFacts DEF IInv, Finish, FinishWakes, Labels
<1>3. pc[t] \in CommitPCs
  BY <1>1 DEF CommitPCs
<1>4. /\ Open = {} /\ outstanding = 0 /\ Locked = {}
      /\ ~Committing("write_log") /\ ~Committing("install")
      /\ \A u \in Threads : buf[u] = NoBlock
      /\ \A u \in Threads : u # t => pc[u] \in {"idle", "begin", "asleep"}
  BY <1>1, <1>3, CommitFacts
<1>5. \A u \in Threads : pc'[u] \in {"idle", "begin"}
  BY <1>2, <1>4
<1>6. Open' = {} /\ Cardinality(Open') = 0 /\ \A u \in Threads : pc'[u] \notin CommitPCs
  <2>1. Open' = {} /\ \A u \in Threads : pc'[u] \notin CommitPCs
    BY <1>5 DEF Open, CallPCs, CommitPCs
  <2> QED BY <2>1, FS_EmptySet
<1>7. ~Committing("write_log")' /\ ~Committing("install")'
  BY <1>6 DEF Committing, CommitPCs
<1>8. lh = <<>> /\ hd = <<>>
  BY <1>1, <1>4 DEF IInv, HeadShape
<1>9. TypeOK'
  BY <1>1, <1>2 DEF IInv, TypeOK, Labels
<1>10. CountShape' /\ DownShape'
  BY <1>1, <1>4, <1>6 DEF CountShape, DownShape
<1>11. BufShape'
  BY <1>1, <1>4, <1>5 DEF BufShape
<1>12. WroteShape'
  BY <1>1, <1>6 DEF IInv, WroteShape
<1>13. HeadShape'
  BY <1>1, <1>7, <1>8 DEF HeadShape, Distinct
<1>14. DirtyShape'
  BY <1>1, <1>4, <1>7 DEF IInv, DirtyShape, Locked
<1>15. CopyShape'
  BY <1>1, <1>7 DEF CopyShape
<1>16. Reserved'
  <2>1. Spent' = {}
    BY <1>6 DEF Spent, Pairs
  <2>2. Cardinality(Spent') = 0
    BY <2>1, FS_EmptySet
  <2>3. Len(lh') = 0 /\ outstanding' * MAXOPBLOCKS = 0
    BY <1>1, <1>4, <1>8, SizeFacts
  <2> QED BY <2>2, <2>3, SizeFacts DEF Reserved, Budget
<1> QED BY <1>9, <1>10, <1>11, <1>12, <1>13, <1>14, <1>15, <1>16 DEF IInv

-----------------------------------------------------------------------------
(* The buffer cache, recovery and crashes keep the invariant *)

\* A clean buffer that comes or goes: reads of other system calls and bget().
LEMMA CleanStep ==
  ASSUME IInv, mode = "up", NEW b \in Blocks, b \notin Locked, b \notin dirty,
         NEW x \in Values \cup {NotCached}, x = home[b] \/ x = NotCached,
         cache' = [cache EXCEPT ![b] = x],
         UNCHANGED <<home, logData, hd, dirty, lh, outstanding, committing,
                     pc, buf, wrote, tail, mode, crashes>>
  PROVE  IInv'
<1>1. cache' \in [Blocks -> Values \cup {NotCached}] /\ cache'[b] = x
      /\ \A c \in Blocks : c # b => cache'[c] = cache[c]
  BY DEF IInv, TypeOK
<1>2. TypeOK'
  BY <1>1 DEF IInv, TypeOK
<1>3. Open' = Open /\ Locked' = Locked
  BY DEF Open, Locked
<1>4. CountShape' /\ DownShape' /\ BufShape'
  BY <1>3 DEF IInv, CountShape, DownShape, BufShape
<1>5. WroteShape'
  BY <1>3 DEF IInv, WroteShape
<1>6. /\ Committing("write_log")' <=> Committing("write_log")
      /\ Committing("install")' <=> Committing("install")
  BY DEF Committing
<1>7. HeadShape'
  BY <1>3, <1>6 DEF IInv, HeadShape, Distinct
<1>8. DirtyShape'
  <2>1. \A c \in dirty \cup Locked : c # b /\ c \in Blocks
    BY DEF IInv, TypeOK, Locked
  <2>2. \A c \in dirty' \cup Locked' : cache'[c] # NotCached
    BY <1>1, <1>3, <2>1 DEF IInv, DirtyShape
  <2>3. \A c \in Blocks : cache'[c] # NotCached /\ c \notin dirty' \cup Locked' => cache'[c] = home'[c]
    BY <1>1, <1>3 DEF IInv, DirtyShape
  <2>4. dirty' = IF Committing("install")' THEN Pending' ELSE Recorded(lh)'
    BY <1>6 DEF IInv, DirtyShape, Pending, From, Recorded
  <2> QED BY <2>2, <2>3, <2>4 DEF DirtyShape
<1>9. CopyShape'
  <2>1. lh \in Seq(Blocks) /\ Distinct(lh) /\ tail \in Nat \ {0}
    BY DEF IInv, TypeOK, HeadShape
  <2>2. \A i \in 1..Len(lh) : lh[i] \in Blocks /\ lh[i] \in Recorded(lh)
    BY <2>1, RecordedFacts
  <2>3. Committing("write_log") /\ ~Committing("install") => \A i \in 1..Len(lh) : lh[i] # b
    BY <2>2 DEF IInv, DirtyShape
  <2>4. Committing("install") => \A i \in 1..Len(lh) : i >= tail => lh[i] # b
    BY <2>1, FromFacts DEF IInv, DirtyShape, Pending
  <2>5. ~(Committing("write_log") /\ Committing("install"))
    <3>1. \A u \in Threads : pc[u] = "write_log" \/ pc[u] = "install" => pc[u] \in CommitPCs
      BY DEF CommitPCs
    <3> QED BY <3>1 DEF IInv, CountShape, Committing
  <2>6. Committing("write_log") => \A i \in 1..Len(lh) : i < tail => logData[i] = cache'[lh[i]]
    BY <1>1, <2>2, <2>3, <2>5 DEF IInv, CopyShape
  <2>7. Committing("install") =>
           \A i \in 1..Len(lh) : IF i < tail THEN home[lh[i]] = logData[i] ELSE logData[i] = cache'[lh[i]]
    <3>1. \A i \in 1..Len(lh) : i < tail \/ i >= tail
      BY <2>1
    <3> QED BY <1>1, <2>2, <2>4, <3>1 DEF IInv, CopyShape
  <2> QED BY <1>6, <2>6, <2>7 DEF IInv, CopyShape
<1>10. Reserved'
  BY <1>3 DEF IInv, Reserved, Budget, Spent, Pairs, Recorded
<1> QED BY <1>2, <1>4, <1>5, <1>7, <1>8, <1>9, <1>10 DEF IInv

\* A block that is not cached is not dirty, so reading it changes nothing else.
LEMMA ReadInv ==
  ASSUME IInv, NEW b \in Blocks, Read(b)
  PROVE  IInv'
<1>1. b \notin dirty /\ home[b] \in Values
  BY DEF Read, IInv, DirtyShape, TypeOK
<1> QED BY <1>1, CleanStep DEF Read, disk, thread

\* bget() takes the buffer of a block that is neither in use nor dirty.
LEMMA RecycleInv ==
  ASSUME IInv, NEW b \in Blocks, Recycle(b)
  PROVE  IInv'
BY CleanStep DEF Recycle, disk, thread

\* While the machine is down there are no threads to speak of.
LEMMA DownInv ==
  ASSUME \A t \in Threads : pc'[t] = "idle", \A t \in Threads : buf'[t] = NoBlock,
         \A t \in Threads : IsFiniteSet(wrote'[t]) /\ Cardinality(wrote'[t]) <= MaxOpWrites,
         outstanding' = 0, ~committing', dirty' = {}
  PROVE  /\ CountShape' /\ DownShape' /\ BufShape' /\ WroteShape'
         /\ Open' = {} /\ Locked' = {} /\ Spent' = {}
         /\ ~Committing("write_log")' /\ ~Committing("install")'
<1>1. Open' = {} /\ Cardinality(Open') = 0
  <2>1. Open' = {}
    BY DEF Open, CallPCs
  <2> QED BY <2>1, FS_EmptySet
<1>2. CountShape'
  BY <1>1 DEF CountShape, CommitPCs
<1>3. DownShape' /\ BufShape' /\ WroteShape'
  BY <1>1 DEF DownShape, BufShape, WroteShape
<1> QED BY <1>1, <1>2, <1>3 DEF Locked, Spent, Pairs, Committing

\* A crash leaves the disk and nothing else.
LEMMA CrashInv ==
  ASSUME IInv, Crash
  PROVE  IInv'
<1>1. /\ crashes' \in 0..MaxCrashes
      /\ cache' = [b \in Blocks |-> NotCached]
      /\ dirty' = {} /\ lh' = <<>> /\ outstanding' = 0 /\ committing' = FALSE
      /\ pc' = [t \in Threads |-> "idle"] /\ buf' = [t \in Threads |-> NoBlock]
      /\ wrote' = [t \in Threads |-> {}]
      /\ tail' = 1 /\ mode' = "read_head"
      /\ UNCHANGED <<home, logData, hd>>
  BY LogAssumption DEF Crash, disk, IInv, TypeOK
<1>2. Len(<<>>) = 0 /\ <<>> \in Seq(Blocks)
  OBVIOUS
<1>3. TypeOK'
  <2>1. Cardinality(Threads) \in Nat
    BY LogAssumption, FS_CardinalityType
  <2>2. outstanding' \in 0..Cardinality(Threads) /\ tail' \in 1..LOGSIZE + 1 /\ Len(lh') <= LOGSIZE
    BY <1>1, <1>2, <2>1, SizeFacts
  <2> QED BY <1>1, <1>2, <2>2 DEF IInv, TypeOK
<1>4. \A t \in Threads : IsFiniteSet(wrote'[t]) /\ Cardinality(wrote'[t]) <= MaxOpWrites
  BY <1>1, FS_EmptySet, SizeFacts
<1>5. /\ CountShape' /\ DownShape' /\ BufShape' /\ WroteShape' /\ Locked' = {}
  BY <1>1, <1>4, DownInv
<1>6. HeadShape'
  BY <1>1, <1>2 DEF IInv, HeadShape, Distinct
<1>7. DirtyShape' /\ CopyShape' /\ Reserved'
  BY <1>1, <1>2, <1>5 DEF DirtyShape, CopyShape, Reserved
<1> QED BY <1>3, <1>5, <1>6, <1>7 DEF IInv

\* read_head(): the header on disk is the transaction to install.
LEMMA ReadHeadInv ==
  ASSUME IInv, ReadHead
  PROVE  IInv'
<1>1. /\ mode = "read_head" /\ lh' = hd /\ tail' = 1 /\ mode' = "install"
      /\ UNCHANGED <<home, logData, hd, cache, dirty, outstanding, committing, pc, buf, wrote, crashes>>
  BY DEF ReadHead, disk, thread
<1>2. /\ outstanding = 0 /\ ~committing /\ dirty = {} /\ Locked = {}
      /\ \A u \in Threads : pc[u] = "idle" /\ buf[u] = NoBlock
  BY <1>1, DownFacts
<1>3. TypeOK'
  BY <1>1, SizeFacts DEF IInv, TypeOK
<1>4. /\ CountShape' /\ DownShape' /\ BufShape' /\ WroteShape' /\ Locked' = {}
  <2>1. \A u \in Threads : IsFiniteSet(wrote'[u]) /\ Cardinality(wrote'[u]) <= MaxOpWrites
    BY <1>1 DEF IInv, WroteShape
  <2> QED BY <1>1, <1>2, <2>1, DownInv
<1>5. HeadShape'
  BY <1>1 DEF IInv, HeadShape, Distinct
<1>6. DirtyShape'
  BY <1>1, <1>2, <1>4 DEF IInv, DirtyShape
<1>7. CopyShape' /\ Reserved'
  <2>1. Len(hd) \in Nat
    BY DEF IInv, TypeOK
  <2> QED BY <1>1, <2>1 DEF CopyShape, Reserved
<1> QED BY <1>3, <1>4, <1>5, <1>6, <1>7 DEF IInv

\* install_trans() in recovery, over blocks that may be installed already.
LEMMA RecoverInstallInv ==
  ASSUME IInv, RecoverInstall
  PROVE  IInv'
<1>1. /\ mode = "install" /\ InstallBlock
      /\ UNCHANGED <<logData, hd, lh, outstanding, committing, pc, buf, wrote, mode, crashes>>
  BY DEF RecoverInstall, thread
<1>2. /\ outstanding = 0 /\ ~committing /\ dirty = {} /\ Locked = {}
      /\ \A u \in Threads : pc[u] = "idle" /\ buf[u] = NoBlock
  BY <1>1, DownFacts
<1>3. /\ lh \in Seq(Blocks) /\ Distinct(lh) /\ Len(lh) \in Nat
      /\ tail \in 1..Len(lh) /\ lh[tail] \in Blocks
      /\ tail' = tail + 1 /\ tail' \in 1..LOGSIZE + 1 /\ tail' <= Len(lh) + 1
      /\ home' \in [Blocks -> Values] /\ cache' \in [Blocks -> Values \cup {NotCached}]
      /\ home'[lh[tail]] = logData[tail] /\ cache'[lh[tail]] = logData[tail]
      /\ \A c \in Blocks : c # lh[tail] => home'[c] = home[c] /\ cache'[c] = cache[c]
      /\ dirty' = {}
  BY <1>1, <1>2, InstallFacts
<1>4. TypeOK'
  BY <1>1, <1>3 DEF IInv, TypeOK
<1>5. /\ CountShape' /\ DownShape' /\ BufShape' /\ WroteShape' /\ Locked' = {}
  <2>1. \A u \in Threads : IsFiniteSet(wrote'[u]) /\ Cardinality(wrote'[u]) <= MaxOpWrites
    BY <1>1 DEF IInv, WroteShape
  <2> QED BY <1>1, <1>2, <1>3, <2>1, DownInv
<1>6. HeadShape'
  BY <1>1 DEF IInv, HeadShape, Distinct
<1>7. DirtyShape'
  <2>1. \A c \in Blocks : cache[c] # NotCached => cache[c] = home[c]
    BY <1>2 DEF IInv, DirtyShape
  <2>2. \A c \in Blocks : cache'[c] # NotCached => cache'[c] = home'[c]
    BY <1>3, <2>1
  <2> QED BY <1>1, <1>3, <1>5, <2>2 DEF DirtyShape
<1>8. CopyShape'
  <2>1. \A i \in 1..Len(lh) : lh[i] \in Blocks /\ (lh[i] = lh[tail] => i = tail)
    BY <1>3 DEF Distinct
  <2>2. \A i \in 1..Len(lh) : i < tail => home[lh[i]] = logData[i]
    BY <1>1 DEF IInv, CopyShape
  <2>3. ASSUME NEW i \in 1..Len(lh), i < tail' PROVE home'[lh[i]] = logData[i]
    <3>1. i = tail \/ (i < tail /\ i # tail)
      BY <1>3, <2>3
    <3> QED BY <1>3, <2>1, <2>2, <3>1
  <2> QED BY <1>1, <1>3, <2>3 DEF CopyShape
<1>9. Reserved'
  BY <1>1 DEF Reserved
<1> QED BY <1>4, <1>5, <1>6, <1>7, <1>8, <1>9 DEF IInv

\* write_head() ends recovery; system calls may begin.
LEMMA RecoverEraseInv ==
  ASSUME IInv, RecoverErase
  PROVE  IInv'
<1>1. /\ mode = "install" /\ lh' = <<>> /\ hd' = <<>> /\ mode' = "up"
      /\ UNCHANGED <<home, logData, cache, dirty, outstanding, committing, pc, buf, wrote, tail, crashes>>
  BY DEF RecoverErase, Erase, thread
<1>2. /\ outstanding = 0 /\ ~committing /\ dirty = {} /\ Locked = {}
      /\ \A u \in Threads : pc[u] = "idle" /\ buf[u] = NoBlock
  BY <1>1, DownFacts
<1>3. Len(<<>>) = 0 /\ <<>> \in Seq(Blocks)
  OBVIOUS
<1>4. TypeOK'
  BY <1>1, <1>3, SizeFacts DEF IInv, TypeOK
<1>5. /\ CountShape' /\ DownShape' /\ BufShape' /\ WroteShape' /\ Locked' = {} /\ Spent' = {}
      /\ ~Committing("write_log")' /\ ~Committing("install")'
  <2>1. \A u \in Threads : IsFiniteSet(wrote'[u]) /\ Cardinality(wrote'[u]) <= MaxOpWrites
    BY <1>1 DEF IInv, WroteShape
  <2> QED BY <1>1, <1>2, <2>1, DownInv
<1>6. HeadShape'
  BY <1>1, <1>3, <1>5 DEF HeadShape, Distinct
<1>7. DirtyShape'
  BY <1>1, <1>2, <1>3, <1>5 DEF IInv, DirtyShape, Recorded
<1>8. CopyShape'
  BY <1>1, <1>5 DEF CopyShape
<1>9. Reserved'
  <2>1. Cardinality(Spent') = 0
    BY <1>5, FS_EmptySet
  <2>2. Len(lh') = 0 /\ outstanding' * MAXOPBLOCKS = 0
    BY <1>1, <1>2, <1>3, SizeFacts
  <2> QED BY <2>1, <2>2, SizeFacts DEF Reserved, Budget
<1> QED BY <1>4, <1>5, <1>6, <1>7, <1>8, <1>9 DEF IInv

-----------------------------------------------------------------------------
(* The invariant holds *)

\* mkfs leaves an empty log.
LEMMA InitInv == Init => IInv
<1> SUFFICES ASSUME Init PROVE IInv
  OBVIOUS
<1>1. Len(<<>>) = 0 /\ <<>> \in Seq(Blocks)
  OBVIOUS
<1>2. TypeOK
  <2>1. Cardinality(Threads) \in Nat
    BY LogAssumption, FS_CardinalityType
  <2>2. outstanding \in 0..Cardinality(Threads) /\ tail \in 1..LOGSIZE + 1 /\ crashes \in 0..MaxCrashes
    BY <2>1, LogAssumption DEF Init
  <2>3. lh \in Seq(Blocks) /\ hd \in Seq(Blocks) /\ Len(lh) <= LOGSIZE /\ Len(hd) <= LOGSIZE
    BY <1>1, SizeFacts DEF Init
  <2>4. home \in [Blocks -> Values] /\ logData \in [1..LOGSIZE -> Values]
    BY DEF Init
  <2> QED BY <2>2, <2>3, <2>4 DEF Init, TypeOK
<1>3. Open = {} /\ Cardinality(Open) = 0 /\ Locked = {}
  <2>1. Open = {} /\ Locked = {}
    BY DEF Init, Open, CallPCs, Locked
  <2> QED BY <2>1, FS_EmptySet
<1>4. CountShape
  BY <1>3 DEF Init, CountShape, CommitPCs
<1>5. DownShape /\ BufShape
  BY <1>3 DEF Init, DownShape, BufShape
<1>6. WroteShape
  BY <1>3, FS_EmptySet, SizeFacts DEF Init, WroteShape
<1>7. HeadShape
  BY <1>1 DEF Init, HeadShape, Distinct
<1>8. DirtyShape /\ CopyShape /\ Reserved
  BY <1>1, <1>3 DEF Init, DirtyShape, CopyShape, Reserved
<1> QED BY <1>2, <1>4, <1>5, <1>6, <1>7, <1>8 DEF IInv

\* Every step of log.c, of the cache and of a crash keeps the invariant.
LEMMA NextInv == IInv /\ [Next]_vars => IInv'
<1> SUFFICES ASSUME IInv, [Next]_vars PROVE IInv'
  OBVIOUS
<1>1. ASSUME NEW t \in Threads, Call(t) PROVE IInv'
  <2>1. ASSUME NEW b \in Blocks, NEW v \in Values, Modify(t, b, v) PROVE IInv'
    BY <2>1, ModifyInv
  <2> QED BY <1>1, <2>1, BeginOpInv, BeginSleepInv, LogCheckInv, LogAppendInv, EndOpInv, EndLastInv
          DEF Call
<1>2. ASSUME NEW t \in Threads, CommitStep(t) PROVE IInv'
  BY <1>2, WriteLogInv, WriteHeadInv, InstallInv, EraseLogInv, FinishInv DEF CommitStep
<1>3. ASSUME NEW b \in Blocks, Read(b) \/ Recycle(b) PROVE IInv'
  BY <1>3, ReadInv, RecycleInv
<1>4. CASE Recovery \/ Crash
  BY <1>4, ReadHeadInv, RecoverInstallInv, RecoverEraseInv, CrashInv DEF Recovery
<1>5. CASE UNCHANGED vars
  BY <1>5 DEF vars, IInv, TypeOK, CountShape, DownShape, BufShape, WroteShape, HeadShape, DirtyShape,
       CopyShape, Reserved, Budget, Spent, Pairs, Open, Locked, Recorded, Pending, From, Distinct, Committing
<1> QED BY <1>1, <1>2, <1>3, <1>4, <1>5 DEF Next

\* The inductive invariant holds in every reachable state, crashes included.
LEMMA Inductive == Spec => []IInv
BY InitInv, NextInv, PTL DEF Spec

-----------------------------------------------------------------------------
(* Theorems *)

\* log.lh.n and the header on disk stay within LOGSIZE, log.outstanding within
\* the number of processes, tail within the log.
THEOREM TypeCorrect == Spec => []TypeOK
<1>1. IInv => TypeOK
  BY DEF IInv
<1> QED BY <1>1, Inductive, PTL

\* begin_op()'s reservation is enough for log_write() never to panic when a
\* system call writes so many blocks fewer than MAXOPBLOCKS that the log with
\* its header block has room for the rest: with the sizes of param.h, 8 blocks.
THEOREM NoLogPanicHolds ==
  ASSUME MaxOpWrites < MAXOPBLOCKS, LOGSIZE - (MAXOPBLOCKS - MaxOpWrites) < NLOG - 1
  PROVE  Spec => []NoLogPanic
<1>1. Init => NoLogPanic
  BY DEF Init, NoLogPanic
<1>2. ASSUME IInv, NoLogPanic, [Next]_vars PROVE NoLogPanic'
  <2>1. ASSUME NEW t \in Threads, NEW l \in Labels \ {"panic"}, Goto(t, l) \/ WakeAndGoto(t, l)
        PROVE  NoLogPanic'
    BY <1>2, <2>1, GotoFacts, WakeFacts DEF NoLogPanic, IInv
  <2>2. CASE UNCHANGED pc
    BY <1>2, <2>2 DEF NoLogPanic
  <2>3. ASSUME NEW t \in Threads, LogCheck(t) PROVE NoLogPanic'
    <3>1. t \in Open /\ Open \in SUBSET Threads
      BY <2>3 DEF LogCheck, At, Open, CallPCs
    <3>2. outstanding >= 1 /\ Budget
      BY <1>2, <3>1, CallFacts
    <3>3. /\ outstanding = Cardinality(Open) /\ outstanding \in Nat /\ Len(lh) \in Nat
          /\ \A u \in Open : IsFiniteSet(wrote[u]) /\ Cardinality(wrote[u]) <= MaxOpWrites
          /\ wrote \in [Threads -> SUBSET Blocks]
      BY <1>2, <3>1 DEF IInv, CountShape, WroteShape, TypeOK
    <3>4. IsFiniteSet(Spent) /\ Cardinality(Spent) <= outstanding * MaxOpWrites
      BY <3>1, <3>3, SizeFacts, CountPairs DEF Spent
    <3>5. Cardinality(Spent) \in Nat
      BY <3>4, FS_CardinalityType
    <3>6. outstanding * MAXOPBLOCKS - outstanding * MaxOpWrites >= MAXOPBLOCKS - MaxOpWrites
      <4>1. (outstanding - 1) * (MAXOPBLOCKS - MaxOpWrites) >= 0
        BY <3>2, <3>3, SizeFacts
      <4> QED BY <3>3, <4>1, SizeFacts
    <3>7. outstanding * MAXOPBLOCKS \in Int /\ outstanding * MaxOpWrites \in Int
      BY <3>3, SizeFacts
    <3>8. Len(lh) + outstanding * MAXOPBLOCKS <= LOGSIZE + Cardinality(Spent)
      BY <3>2 DEF Budget
    <3>9. Len(lh) <= LOGSIZE - (MAXOPBLOCKS - MaxOpWrites)
      <4> DEFINE x == outstanding * MAXOPBLOCKS
      <4> DEFINE y == outstanding * MaxOpWrites
      <4>1. /\ x \in Int /\ y \in Int /\ x - y >= MAXOPBLOCKS - MaxOpWrites
            /\ Len(lh) + x <= LOGSIZE + Cardinality(Spent) /\ Cardinality(Spent) <= y
        BY <3>4, <3>6, <3>7, <3>8
      <4> HIDE DEF x, y
      <4> QED BY <3>3, <3>5, <4>1, SizeFacts
    <3>10. ~(Len(lh) >= LOGSIZE \/ Len(lh) >= NLOG - 1 \/ outstanding < 1)
      BY <3>2, <3>3, <3>9, SizeFacts
    <3>11. Goto(t, "logging") /\ "logging" \in Labels \ {"panic"}
      BY <2>3, <3>10 DEF LogCheck, Labels, CallPCs
    <3> QED BY <2>1, <3>11
  <2>4. ASSUME NEW t \in Threads, EndOp(t) PROVE NoLogPanic'
    <3>1. t \in Open
      BY <2>4 DEF EndOp, At, Open, CallPCs
    <3>2. WakeAndGoto(t, "idle")
      BY <1>2, <2>4, <3>1, CallFacts DEF EndOp
    <3> QED BY <2>1, <3>2 DEF Labels
  <2>5. ASSUME NEW t \in Threads, Call(t) PROVE NoLogPanic'
    <3>1. /\ BeginOp(t) => Goto(t, "op")
          /\ BeginSleep(t) => Goto(t, "asleep")
          /\ LogAppend(t) => Goto(t, "op")
          /\ (\E b \in Blocks, v \in Values : Modify(t, b, v)) => Goto(t, "modified")
          /\ EndLast(t) => Goto(t, "finish") \/ Goto(t, "write_log")
      BY DEF BeginOp, BeginSleep, LogAppend, Modify, EndLast
    <3>2. {"op", "asleep", "modified", "finish", "write_log"} \subseteq Labels \ {"panic"}
      BY DEF Labels, CallPCs, CommitPCs
    <3> QED BY <2>1, <2>3, <2>4, <2>5, <3>1, <3>2 DEF Call
  <2>6. ASSUME NEW t \in Threads, CommitStep(t) PROVE NoLogPanic'
    <3>1. /\ WriteLog(t) \/ Install(t) => UNCHANGED pc
          /\ WriteHead(t) => Goto(t, "install")
          /\ EraseLog(t) => Goto(t, "finish")
          /\ Finish(t) => WakeAndGoto(t, "idle")
      BY DEF WriteLog, Install, WriteHead, EraseLog, Finish, FinishWakes, thread
    <3>2. {"install", "finish", "idle"} \subseteq Labels \ {"panic"}
      BY DEF Labels, CommitPCs
    <3> QED BY <2>1, <2>2, <2>6, <3>1, <3>2 DEF CommitStep
  <2>7. ASSUME NEW b \in Blocks, Read(b) \/ Recycle(b) PROVE NoLogPanic'
    BY <2>2, <2>7 DEF Read, Recycle, thread
  <2>8. CASE Recovery \/ UNCHANGED vars
    BY <2>2, <2>8 DEF Recovery, ReadHead, RecoverInstall, RecoverErase, thread, vars
  <2>9. CASE Crash
    BY <2>9 DEF Crash, NoLogPanic
  <2> QED BY <1>2, <2>5, <2>6, <2>7, <2>8, <2>9 DEF Next
<1> QED BY <1>1, <1>2, Inductive, PTL DEF Spec

\* When no call runs and no commit is under way, nothing written waits in the
\* cache: end_op() left no update behind.
THEOREM QuiescentDurableHolds == Spec => []QuiescentDurable
<1>1. ASSUME IInv PROVE QuiescentDurable
  <2> SUFFICES ASSUME mode = "up", outstanding = 0, ~committing
               PROVE  view = durable /\ dirty = {}
    BY DEF QuiescentDurable
  <2>1. Cardinality(Open) = 0
    BY <1>1 DEF IInv, CountShape
  <2>2. Open = {}
    <3>1. IsFiniteSet(Open)
      BY LogAssumption, FS_Subset DEF Open
    <3> QED BY <2>1, <3>1, FS_EmptySet
  <2>3. hd = <<>> /\ dirty = {} /\ Locked = {}
    BY <1>1, <2>2, RestFacts
  <2>4. \A b \in Blocks : Bread(b) = home[b]
    BY <1>1, <2>3 DEF IInv, DirtyShape, Bread
  <2>5. \A b \in Blocks : Recovered(b) = home[b]
    BY <2>3 DEF Recovered, Recorded
  <2> QED BY <2>3, <2>4, <2>5 DEF view, durable
<1> QED BY <1>1, Inductive, PTL

\* A begin_op() asleep on &log has somebody left to wake it: it slept because a
\* call or a commit was in its way, and whoever ends last wakes every sleeper.
THEOREM SleeperHasWakerHolds == Spec => []SleeperHasWaker
<1>1. Init => SleeperHasWaker
  BY DEF Init, SleeperHasWaker
<1>2. ASSUME IInv, SleeperHasWaker, [Next]_vars PROVE SleeperHasWaker'
  <2> DEFINE Waker(l) == l \in CallPCs \cup CommitPCs \cup {"panic"}
  <2>1. CASE UNCHANGED pc
    BY <1>2, <2>1 DEF SleeperHasWaker
  <2>2. ASSUME NEW t \in Threads, NEW l \in Labels, Goto(t, l), Waker(l) PROVE SleeperHasWaker'
    BY <1>2, <2>2, GotoFacts DEF SleeperHasWaker, IInv
  <2>3. ASSUME NEW t \in Threads, WakeAndGoto(t, "idle") PROVE SleeperHasWaker'
    <3>1. \A u \in Threads : pc'[u] # "asleep"
      BY <1>2, <2>3, WakeFacts DEF IInv, Labels
    <3> QED BY <3>1 DEF SleeperHasWaker
  <2>4. ASSUME NEW t \in Threads, BeginSleep(t) PROVE SleeperHasWaker'
    <3>1. /\ mode = "up" /\ pc[t] \in {"idle", "begin"} /\ ~MayBegin
      BY <2>4 DEF BeginSleep, Beginning, At
    <3>2. \A u \in Threads : u # t => pc'[u] = pc[u]
      BY <1>2, <2>4, GotoFacts DEF IInv, BeginSleep, Labels
    <3>3. CASE \E u \in Threads : Waker(pc[u])
      BY <3>1, <3>2, <3>3 DEF SleeperHasWaker, CallPCs, CommitPCs
    <3>4. CASE \A u \in Threads : ~Waker(pc[u])
      <4>1. Open = {} /\ ~committing
        BY <1>2, <3>4 DEF Open, IInv, CountShape
      <4>2. lh = <<>>
        BY <1>2, <3>1, <4>1, RestFacts
      <4>3. outstanding = 0
        BY <1>2, <4>1, FS_EmptySet DEF IInv, CountShape
      <4>4. Len(lh) + (outstanding + 1) * MAXOPBLOCKS = MAXOPBLOCKS
        BY <4>2, <4>3, SizeFacts
      <4> QED BY <3>1, <4>1, <4>4, SizeFacts DEF MayBegin
    <3> QED BY <3>3, <3>4
  <2>5. ASSUME NEW t \in Threads, Call(t) PROVE SleeperHasWaker'
    <3>1. /\ BeginOp(t) => Goto(t, "op")
          /\ LogAppend(t) => Goto(t, "op")
          /\ (\E b \in Blocks, v \in Values : Modify(t, b, v)) => Goto(t, "modified")
          /\ LogCheck(t) => Goto(t, "panic") \/ Goto(t, "logging")
          /\ EndOp(t) => Goto(t, "panic") \/ WakeAndGoto(t, "idle")
          /\ EndLast(t) => Goto(t, "finish") \/ Goto(t, "write_log")
      BY DEF BeginOp, LogAppend, Modify, LogCheck, EndOp, EndLast
    <3>2. \A l \in {"op", "modified", "panic", "logging", "finish", "write_log"} : l \in Labels /\ Waker(l)
      BY DEF Labels, CallPCs, CommitPCs
    <3> HIDE DEF Waker
    <3> QED BY <2>2, <2>3, <2>4, <2>5, <3>1, <3>2 DEF Call
  <2>6. ASSUME NEW t \in Threads, CommitStep(t) PROVE SleeperHasWaker'
    <3>1. /\ WriteLog(t) \/ Install(t) => UNCHANGED pc
          /\ WriteHead(t) => Goto(t, "install")
          /\ EraseLog(t) => Goto(t, "finish")
          /\ Finish(t) => WakeAndGoto(t, "idle")
      BY DEF WriteLog, Install, WriteHead, EraseLog, Finish, FinishWakes, thread
    <3>2. \A l \in {"install", "finish"} : l \in Labels /\ Waker(l)
      BY DEF Labels, CommitPCs
    <3> HIDE DEF Waker
    <3> QED BY <2>1, <2>2, <2>3, <2>6, <3>1, <3>2 DEF CommitStep
  <2>7. ASSUME NEW b \in Blocks, Read(b) \/ Recycle(b) PROVE SleeperHasWaker'
    BY <2>1, <2>7 DEF Read, Recycle, thread
  <2>8. CASE Recovery \/ UNCHANGED vars
    BY <2>1, <2>8 DEF Recovery, ReadHead, RecoverInstall, RecoverErase, thread, vars
  <2>9. CASE Crash
    BY <2>9 DEF Crash, SleeperHasWaker
  <2> QED BY <1>2, <2>5, <2>6, <2>7, <2>8, <2>9 DEF Next
<1> QED BY <1>1, <1>2, Inductive, PTL DEF Spec

-----------------------------------------------------------------------------
(* Crash atomicity *)

\* While a commit installs, what the calls see is what a restart would show.
LEMMA InstallView ==
  IInv /\ mode = "up" /\ Committing("install") => view = durable
<1> SUFFICES ASSUME IInv, mode = "up", Committing("install") PROVE view = durable
  OBVIOUS
<1>1. PICK t \in Threads : pc[t] = "install"
  BY DEF Committing
<1>2. Locked = {}
  BY <1>1, CommitFacts DEF CommitPCs
<1>3. lh \in Seq(Blocks) /\ Distinct(lh) /\ hd = lh /\ tail \in Nat \ {0}
  BY DEF IInv, TypeOK, HeadShape
<1>4. dirty = From(lh, tail)
  BY DEF IInv, DirtyShape, Pending
<1>5. ASSUME NEW b \in Blocks PROVE Bread(b) = Recovered(b)
  <2>1. CASE b \notin Recorded(lh)
    <3>1. b \notin dirty
      BY <1>3, <1>4, <2>1, FromFacts
    <3>2. Bread(b) = home[b]
      BY <1>2, <3>1 DEF IInv, DirtyShape, Bread
    <3> QED BY <1>3, <2>1, <3>2, RecoveredFacts
  <2>2. ASSUME NEW i \in 1..Len(lh), lh[i] = b PROVE Bread(b) = logData[i]
    <3>1. CASE i < tail
      <4>1. b \notin dirty /\ home[b] = logData[i]
        BY <1>3, <1>4, <2>2, <3>1, FromFacts DEF IInv, CopyShape
      <4> QED BY <1>2, <4>1 DEF IInv, DirtyShape, Bread
    <3>2. CASE ~(i < tail)
      <4>1. b \in dirty /\ cache[b] = logData[i]
        BY <1>3, <1>4, <2>2, <3>2, FromFacts DEF IInv, CopyShape
      <4> QED BY <4>1 DEF IInv, DirtyShape, Bread
    <3> QED BY <3>1, <3>2
  <2>3. CASE b \in Recorded(lh)
    <3>1. PICK i \in 1..Len(lh) : lh[i] = b
      BY <1>3, <2>3, RecordedFacts
    <3> QED BY <1>3, <2>2, <3>1, RecoveredFacts
  <2> QED BY <2>1, <2>3
<1> QED BY <1>5 DEF view, durable

\* A block that is installed again, or installed where a header on disk lists
\* it, does not change what a restart would show.
LEMMA InstallDurable ==
  ASSUME IInv, InstallBlock, hd = lh, UNCHANGED <<logData, hd>>
  PROVE  durable' = durable
<1>1. /\ tail \in 1..Len(lh)
      /\ \A c \in Blocks : c # lh[tail] => home'[c] = home[c]
  BY InstallFacts
<1>2. lh[tail] \in Recorded(hd)
  BY <1>1 DEF Recorded
<1>3. ASSUME NEW b \in Blocks PROVE Recovered(b)' = Recovered(b)
  BY <1>1, <1>2 DEF Recovered, Recorded
<1> QED BY <1>3 DEF durable

\* A header whose blocks are all installed may be erased.
LEMMA EraseDurable ==
  ASSUME IInv, hd = lh, \A i \in 1..Len(lh) : home[lh[i]] = logData[i],
         hd' = <<>>, UNCHANGED home
  PROVE  durable' = durable /\ \A b \in Blocks : durable[b] = home[b]
<1>1. hd \in Seq(Blocks) /\ Distinct(hd)
  BY DEF IInv, TypeOK, HeadShape
<1>2. ASSUME NEW b \in Blocks PROVE Recovered(b) = home[b]
  <2>1. CASE b \in Recorded(hd)
    <3>1. PICK i \in 1..Len(hd) : hd[i] = b
      BY <1>1, <2>1, RecordedFacts
    <3> QED BY <1>1, <3>1, RecoveredFacts
  <2>2. CASE b \notin Recorded(hd)
    BY <1>1, <2>2, RecoveredFacts
  <2> QED BY <2>1, <2>2
<1>3. ASSUME NEW b \in Blocks PROVE Recovered(b)' = home[b]
  BY DEF Recovered, Recorded
<1> QED BY <1>2, <1>3 DEF durable

\* A step that leaves disk and cache alone changes neither what the calls see
\* nor what a restart would show.
LEMMA SameView ==
  ASSUME UNCHANGED <<home, logData, hd, cache, mode>>
  PROVE  view' = view /\ durable' = durable
BY DEF view, durable, Bread, Recovered, Recorded

\* A thread that moves between two places both inside or both outside of a call.
LEMMA SameActive ==
  ASSUME UNCHANGED mode, \A u \in Threads : pc'[u] \in CallPCs <=> pc[u] \in CallPCs
  PROVE  active' = active
BY DEF active

\* While a commit runs no call does.
LEMMA NoneActive ==
  ASSUME IInv, mode # "up" \/ committing
  PROVE  active = {}
BY DEF IInv, CountShape, active, Open

\* mkfs's disk is a disk with nothing pending.
LEMMA RefineInit == Init => Abstract!Init
<1> SUFFICES ASSUME Init PROVE Abstract!Init
  OBVIOUS
<1>1. hd = <<>> /\ mode = "read_head" /\ home \in [Blocks -> Values]
  BY DEF Init
<1>2. \A b \in Blocks : Recovered(b) = home[b]
  BY <1>1 DEF Recovered, Recorded
<1>3. durable \in [Blocks -> Values]
  BY <1>1, <1>2 DEF durable
<1>4. view = durable
  BY <1>1 DEF view, durable
<1>5. active = {}
  BY <1>1 DEF active
<1> QED BY <1>3, <1>4, <1>5 DEF Abstract!Init

\* begin_op(), the writes of a call and end_op() are the abstract disk's.
LEMMA RefineCall ==
  ASSUME IInv, NEW t \in Threads, Call(t)
  PROVE  Abstract!Next \/ UNCHANGED <<view, durable, active>>
<1>1. CASE BeginOp(t)
  <2>1. /\ UNCHANGED <<home, logData, hd, cache, mode>>
        /\ mode = "up" /\ pc[t] \in {"idle", "begin"} /\ Goto(t, "op")
    BY <1>1 DEF BeginOp, Beginning, At, disk
  <2>2. pc'[t] = "op" /\ \A u \in Threads : u # t => pc'[u] = pc[u]
    BY <2>1, GotoFacts DEF IInv, Labels, CallPCs
  <2>3. t \notin active /\ active' = active \cup {t}
    BY <2>1, <2>2 DEF active, CallPCs
  <2>4. view' = view /\ durable' = durable
    BY <2>1, SameView
  <2>5. Abstract!Begin(t)
    BY <2>3, <2>4 DEF Abstract!Begin
  <2> QED BY <2>5 DEF Abstract!Next
<1>2. CASE BeginSleep(t)
  <2>1. /\ UNCHANGED <<home, logData, hd, cache, mode>>
        /\ pc[t] \in {"idle", "begin"} /\ Goto(t, "asleep")
    BY <1>2 DEF BeginSleep, Beginning, At, disk, memory
  <2>2. \A u \in Threads : pc'[u] \in CallPCs <=> pc[u] \in CallPCs
    BY <2>1, GotoFacts DEF IInv, Labels, CallPCs
  <2> QED BY <2>1, <2>2, SameView, SameActive
<1>3. ASSUME NEW b \in Blocks, NEW v \in Values, Modify(t, b, v)
      PROVE  Abstract!Next \/ UNCHANGED <<view, durable, active>>
  <2>1. /\ mode = "up" /\ pc[t] = "op" /\ Goto(t, "modified")
        /\ cache' = [cache EXCEPT ![b] = v]
        /\ UNCHANGED <<home, logData, hd, mode>>
    BY <1>3 DEF Modify, At, disk
  <2>2. \A u \in Threads : pc'[u] \in CallPCs <=> pc[u] \in CallPCs
    BY <2>1, GotoFacts DEF IInv, Labels, CallPCs
  <2>3. active' = active /\ t \in active
    BY <2>1, <2>2, SameActive DEF active, CallPCs
  <2>4. durable' = durable
    BY <2>1 DEF durable, Recovered, Recorded
  <2>5. cache'[b] = v /\ \A c \in Blocks : c # b => cache'[c] = cache[c]
    BY <2>1 DEF IInv, TypeOK
  <2>6. \A c \in Blocks : Bread(c)' = IF c = b THEN v ELSE Bread(c)
    BY <2>1, <2>5, LogAssumption DEF Bread
  <2>7. view = [c \in Blocks |-> Bread(c)] /\ view' = [c \in Blocks |-> Bread(c)']
    BY <2>1 DEF view
  <2>8. view' = [view EXCEPT ![b] = v]
    BY <2>6, <2>7
  <2>9. Abstract!Write(t, b, v)
    BY <2>3, <2>4, <2>8 DEF Abstract!Write
  <2> QED BY <2>9 DEF Abstract!Next
<1>4. CASE LogCheck(t)
  <2>1. /\ UNCHANGED <<home, logData, hd, cache, mode>>
        /\ mode = "up" /\ pc[t] = "modified" /\ (Goto(t, "panic") \/ Goto(t, "logging"))
    BY <1>4 DEF LogCheck, At, disk, memory
  <2>2. view' = view /\ durable' = durable
    BY <2>1, SameView
  <2>3. CASE Goto(t, "logging")
    <3>1. \A u \in Threads : pc'[u] \in CallPCs <=> pc[u] \in CallPCs
      BY <2>1, <2>3, GotoFacts DEF IInv, Labels, CallPCs
    <3> QED BY <2>1, <2>2, <3>1, SameActive
  <2>4. CASE Goto(t, "panic")
    <3>1. pc'[t] = "panic" /\ \A u \in Threads : u # t => pc'[u] = pc[u]
      BY <2>4, GotoFacts DEF IInv, Labels
    <3>2. t \in active /\ active' = active \ {t}
      BY <2>1, <3>1 DEF active, CallPCs
    <3>3. Abstract!End(t)
      BY <2>2, <3>2 DEF Abstract!End
    <3> QED BY <3>3 DEF Abstract!Next
  <2> QED BY <2>1, <2>3, <2>4
<1>5. CASE LogAppend(t)
  <2>1. /\ UNCHANGED <<home, logData, hd, cache, mode>>
        /\ pc[t] = "logging" /\ Goto(t, "op")
    BY <1>5 DEF LogAppend, At, disk
  <2>2. \A u \in Threads : pc'[u] \in CallPCs <=> pc[u] \in CallPCs
    BY <2>1, GotoFacts DEF IInv, Labels, CallPCs
  <2> QED BY <2>1, <2>2, SameView, SameActive
<1>6. CASE EndOp(t) \/ EndLast(t)
  <2>1. /\ UNCHANGED <<home, logData, hd, cache, mode>>
        /\ mode = "up" /\ pc[t] = "op"
        /\ \E l \in {"idle", "panic", "finish", "write_log"} : Goto(t, l) \/ WakeAndGoto(t, l)
    BY <1>6 DEF EndOp, EndLast, At, disk
  <2>2. PICK l \in {"idle", "panic", "finish", "write_log"} : Goto(t, l) \/ WakeAndGoto(t, l)
    BY <2>1
  <2>3. pc'[t] \notin CallPCs /\ \A u \in Threads : u # t => (pc'[u] \in CallPCs <=> pc[u] \in CallPCs)
    BY <2>2, GotoFacts, WakeFacts DEF IInv, Labels, CallPCs, CommitPCs
  <2>4. t \in active /\ active' = active \ {t}
    BY <2>1, <2>3 DEF active, CallPCs
  <2>5. view' = view /\ durable' = durable
    BY <2>1, SameView
  <2>6. Abstract!End(t)
    BY <2>4, <2>5 DEF Abstract!End
  <2> QED BY <2>6 DEF Abstract!Next
<1> QED BY <1>1, <1>2, <1>3, <1>4, <1>5, <1>6 DEF Call

\* commit(): the first write_head() makes everything durable at once, and the
\* other steps change nothing that a call or a restart would see.
LEMMA RefineCommit ==
  ASSUME IInv, IInv', NEW t \in Threads, CommitStep(t),
         (IInv /\ mode = "up" /\ Committing("install") => view = durable)'
  PROVE  Abstract!Next \/ UNCHANGED <<view, durable, active>>
<1>1. mode = "up" /\ pc[t] \in CommitPCs /\ UNCHANGED mode
  BY DEF CommitStep, WriteLog, WriteHead, Install, EraseLog, Finish, At, CommitPCs
<1>2. /\ committing /\ Locked = {}
      /\ \A u \in Threads : u # t => pc[u] \in {"idle", "begin", "asleep"}
      /\ (pc[t] = "write_log" <=> Committing("write_log"))
      /\ (pc[t] = "install" <=> Committing("install"))
  BY <1>1, CommitFacts
<1>3. active = {}
  BY <1>2, NoneActive
<1>4. lh \in Seq(Blocks) /\ Len(lh) \in Nat /\ tail \in Nat
  BY DEF IInv, TypeOK
<1>5. ASSUME NEW l \in Labels \ CallPCs, Goto(t, l) \/ WakeAndGoto(t, l) PROVE active' = {}
  <2>1. pc'[t] = l /\ \A u \in Threads : u # t => pc'[u] \in {"idle", "begin", "asleep"}
    BY <1>2, <1>5, GotoFacts, WakeFacts DEF IInv
  <2> QED BY <2>1 DEF active, CallPCs
<1>6. CASE WriteLog(t)
  <2>1. /\ pc[t] = "write_log" /\ tail <= Len(lh)
        /\ cache' = [cache EXCEPT ![lh[tail]] = Bread(lh[tail])]
        /\ UNCHANGED <<home, hd, pc, mode>>
    BY <1>6 DEF WriteLog, At, thread
  <2>2. hd = <<>>
    <3>1. ~Committing("install")
      BY <1>2, <2>1
    <3> QED BY <1>1, <3>1 DEF IInv, HeadShape
  <2>3. durable' = durable
    BY <2>1, <2>2 DEF durable, Recovered, Recorded
  <2>4. \A b \in Blocks : Bread(b)' = Bread(b)
    BY <2>1 DEF Bread, IInv, TypeOK
  <2>5. view' = view
    BY <1>1, <2>4 DEF view
  <2>6. active' = active
    BY <2>1, SameActive
  <2> QED BY <2>3, <2>5, <2>6
<1>7. CASE WriteHead(t)
  <2>1. UNCHANGED <<home, cache, mode>> /\ Goto(t, "install")
    BY <1>7 DEF WriteHead, memory
  <2>2. view' = view
    BY <1>1, <2>1 DEF view, Bread
  <2>3. Committing("install")'
    BY <2>1, GotoFacts DEF IInv, Labels, CommitPCs, Committing
  <2>4. view' = durable'
    BY <1>1, <2>3
  <2>5. active' = {}
    BY <1>5, <2>1 DEF Labels, CommitPCs, CallPCs
  <2>6. Abstract!Commit
    BY <1>3, <2>2, <2>4, <2>5 DEF Abstract!Commit
  <2> QED BY <2>6 DEF Abstract!Next
<1>8. CASE Install(t)
  <2>1. pc[t] = "install" /\ InstallBlock /\ UNCHANGED <<logData, hd, lh, pc, mode>>
    BY <1>8 DEF Install, At, thread
  <2>2. hd = lh
    BY <1>1, <1>2, <2>1 DEF IInv, HeadShape
  <2>3. durable' = durable
    BY <2>1, <2>2, InstallDurable
  <2>4. view = durable
    BY <1>1, <1>2, <2>1, InstallView
  <2>5. Committing("install")'
    BY <2>1 DEF Committing
  <2>6. view' = durable'
    BY <1>1, <2>5
  <2>7. active' = active
    BY <2>1, SameActive
  <2> QED BY <2>3, <2>4, <2>6, <2>7
<1>9. CASE EraseLog(t)
  <2>1. /\ pc[t] = "install" /\ tail > Len(lh) /\ hd' = <<>> /\ Goto(t, "finish")
        /\ UNCHANGED <<home, cache, mode>>
    BY <1>9 DEF EraseLog, At, Erase
  <2>2. hd = lh /\ \A i \in 1..Len(lh) : home[lh[i]] = logData[i]
    <3>1. Committing("install")
      BY <1>2, <2>1
    <3>2. \A i \in 1..Len(lh) : i < tail
      BY <1>4, <2>1
    <3> QED BY <1>1, <3>1, <3>2 DEF IInv, HeadShape, CopyShape
  <2>3. durable' = durable
    BY <2>1, <2>2, EraseDurable
  <2>4. view' = view
    BY <1>1, <2>1 DEF view, Bread
  <2>5. active' = {}
    BY <1>5, <2>1 DEF Labels, CommitPCs, CallPCs
  <2> QED BY <1>3, <2>3, <2>4, <2>5
<1>10. CASE Finish(t)
  <2>1. UNCHANGED <<home, logData, hd, cache, mode>> /\ WakeAndGoto(t, "idle")
    BY <1>10 DEF Finish, FinishWakes, disk
  <2>2. active' = {}
    BY <1>5, <2>1 DEF Labels, CallPCs
  <2> QED BY <1>3, <2>1, <2>2, SameView
<1> QED BY <1>6, <1>7, <1>8, <1>9, <1>10 DEF CommitStep

\* Reads, recycled buffers and recovery change nothing that a call or a restart
\* would see; a crash leaves what was committed.
LEMMA RefineRest ==
  ASSUME IInv, (\E b \in Blocks : Read(b) \/ Recycle(b)) \/ Recovery \/ Crash
  PROVE  Abstract!Next \/ UNCHANGED <<view, durable, active>>
<1>1. ASSUME NEW b \in Blocks, Read(b) \/ Recycle(b)
      PROVE  UNCHANGED <<view, durable, active>>
  <2>1. /\ UNCHANGED <<home, logData, hd, pc, mode>> /\ mode = "up"
        /\ b \notin Locked /\ b \notin dirty
        /\ \E x : (x = home[b] \/ x = NotCached) /\ cache' = [cache EXCEPT ![b] = x]
    BY <1>1 DEF Read, Recycle, disk, thread, IInv, DirtyShape
  <2>2. (cache'[b] = home[b] \/ cache'[b] = NotCached) /\ \A c \in Blocks : c # b => cache'[c] = cache[c]
    BY <2>1 DEF IInv, TypeOK
  <2>3. Bread(b) = home[b]
    BY <2>1 DEF IInv, DirtyShape, Bread
  <2>4. \A c \in Blocks : Bread(c)' = Bread(c)
    BY <2>1, <2>2, <2>3 DEF Bread
  <2>5. view' = view /\ durable' = durable
    BY <2>1, <2>4 DEF view, durable, Recovered, Recorded
  <2> QED BY <2>1, <2>5, SameActive
<1>2. CASE ReadHead
  <2>1. UNCHANGED <<home, logData, hd>> /\ mode # "up" /\ mode' # "up"
    BY <1>2 DEF ReadHead, disk
  <2>2. view' = view /\ durable' = durable /\ active' = active
    BY <2>1 DEF view, durable, active, Recovered, Recorded
  <2> QED BY <2>2
<1>3. CASE RecoverInstall
  <2>1. mode = "install" /\ InstallBlock /\ UNCHANGED <<logData, hd, lh, pc, mode>>
    BY <1>3 DEF RecoverInstall, thread
  <2>2. durable' = durable
    BY <2>1, InstallDurable DEF IInv, HeadShape
  <2>3. view = durable /\ view' = durable' /\ active' = active
    BY <2>1 DEF view, durable, active
  <2> QED BY <2>2, <2>3
<1>4. CASE RecoverErase
  <2>1. /\ mode = "install" /\ tail > Len(lh) /\ hd' = <<>> /\ mode' = "up"
        /\ UNCHANGED <<home, cache, pc>>
    BY <1>4 DEF RecoverErase, Erase, thread
  <2>2. dirty = {} /\ Locked = {} /\ \A u \in Threads : pc[u] = "idle"
    BY <2>1, DownFacts
  <2>3. hd = lh /\ \A i \in 1..Len(lh) : home[lh[i]] = logData[i]
    <3>1. Len(lh) \in Nat /\ tail \in Nat
      BY DEF IInv, TypeOK
    <3>2. \A i \in 1..Len(lh) : i < tail
      BY <2>1, <3>1
    <3> QED BY <2>1, <3>2 DEF IInv, HeadShape, CopyShape
  <2>4. durable' = durable /\ \A b \in Blocks : durable[b] = home[b]
    BY <2>1, <2>3, EraseDurable
  <2>5. \A b \in Blocks : Bread(b)' = home[b]
    <3>1. \A b \in Blocks : cache[b] # NotCached => cache[b] = home[b]
      BY <2>2 DEF IInv, DirtyShape
    <3> QED BY <2>1, <3>1 DEF Bread
  <2>6. view' = view
    <3>1. \A b \in Blocks : Recovered(b) = home[b]
      BY <2>4 DEF durable
    <3> QED BY <2>1, <2>5, <3>1 DEF view
  <2>7. active' = {} /\ active = {}
    BY <2>1, <2>2 DEF active, CallPCs
  <2> QED BY <2>4, <2>6, <2>7
<1>5. CASE Crash
  <2>1. UNCHANGED <<home, logData, hd>> /\ mode' = "read_head"
    BY <1>5 DEF Crash, disk
  <2>2. durable' = durable
    BY <2>1 DEF durable, Recovered, Recorded
  <2>3. view' = durable' /\ active' = {}
    BY <2>1 DEF view, durable, active
  <2>4. Abstract!Crash
    BY <2>2, <2>3 DEF Abstract!Crash
  <2> QED BY <2>4 DEF Abstract!Next
<1> QED BY <1>1, <1>2, <1>3, <1>4, <1>5 DEF Recovery

\* The log implements crash-atomic groups of system calls, for any number of
\* crashes at any moment: what a restart shows is what some commit made durable.
THEOREM Refinement == Spec => ImplementsTransDisk
<1>1. ASSUME IInv, IInv', [Next]_vars,
             (IInv /\ mode = "up" /\ Committing("install") => view = durable)'
      PROVE  Abstract!Next \/ UNCHANGED <<view, durable, active>>
  <2>1. CASE UNCHANGED vars
    <3>1. UNCHANGED <<home, logData, hd, cache, mode, pc>>
      BY <2>1 DEF vars
    <3> QED BY <3>1, SameView, SameActive
  <2>2. CASE Next
    BY <1>1, <2>2, RefineCall, RefineCommit, RefineRest DEF Next
  <2> QED BY <1>1, <2>1, <2>2
<1>2. (Abstract!Next \/ UNCHANGED <<view, durable, active>>) <=> [Abstract!Next]_(Abstract!vars)
  BY DEF Abstract!vars
<1> QED BY <1>1, <1>2, RefineInit, InstallView, Inductive, PTL DEF Spec, ImplementsTransDisk, Abstract!Spec
=============================================================================
