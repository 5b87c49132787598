----------------------------- MODULE PipeProofs -----------------------------
(***************************************************************************)
(* Pipes and the open-file table, for any number of processes, files and   *)
(* descriptors and any size of the buffer: no page is used after kfree()   *)
(* or leaked, no wakeup is lost, and the bytes come out as they went in.   *)
(***************************************************************************)
EXTENDS Pipe, FiniteSetTheorems, FunctionTheorems, SequenceTheorems, TLAPS

-----------------------------------------------------------------------------
(* The inductive invariant: files *)

\* Where a process may keep a file: its descriptors, and the two places for the
\* files it has outside of them.
Slots == (0 - 1)..NOFILE

Places == Procs \X Slots

\* What each place holds, for descriptors o and files w outside of them.
HeldOf(o, w) == [s \in Places |->
    IF s[2] \in FDs THEN o[s[1]][s[2]]
    ELSE IF 1 - s[2] <= Len(w[s[1]]) THEN w[s[1]][1 - s[2]] ELSE NoFile]

held == HeldOf(ofile, work)

\* The places of h that name file f.
Naming(h, f) == {s \in Places : h[s] = f}

\* How many there are.
Names(h, f) == Cardinality(Naming(h, f))

Same(x, y) == IF x = y THEN 1 ELSE 0

AllocPCs == {"alloc1", "alloc_page"}

\* What a process has outside of its descriptors, by where it is.
WorkShape ==
    /\ work = [p \in Procs |-> work[p]] /\ got = [p \in Procs |-> got[p]]
    /\ \A p \in Procs :
        /\ Len(work[p]) <= 2 /\ (Len(work[p]) = 2 => work[p][1] # work[p][2])
        /\ pc[p] = "alloc1" => Len(work[p]) = 1
        /\ pc[p] = "alloc_page" => Len(work[p]) = 2
        /\ pc[p] \notin AllocPCs \cup ClosePCs => work[p] = <<>>
        /\ pc[p] = "dead" => \A fd \in FDs : ofile[p][fd] = NoFile
        /\ p \in exiting => pc[p] \in ClosePCs

\* f->ref counts the places that name the file; init has the console.
Extra(f) == IF f = Console THEN 1 ELSE 0

RefShape == \A f \in Files : ref[f] = Names(held, f) + Extra(f)

\* A file in a descriptor has a type; one that sys_pipe() prepares has none, and
\* nobody else has it.
KindShape ==
    /\ \A f \in Files : type[f] = "inode" <=> f = Console
    /\ \A f \in Files : ref[f] = 0 => type[f] = "none"
    /\ \A p \in Procs, fd \in FDs : ofile[p][fd] # NoFile => type[ofile[p][fd]] # "none"
    /\ \A p \in Procs : pc[p] \in AllocPCs =>
           \A i \in 1..Len(work[p]) : type[work[p][i]] = "none" /\ ref[work[p][i]] = 1

\* An end of the pipe is one file, or the process that closes it; the page goes
\* with the second end.
EndShape ==
    /\ \A f, g \in Files : type[f] = type[g] /\ type[f] \in {"read", "write"} => f = g
    /\ \A p, q \in Procs : pc[p] = pc[q] /\ pc[p] \in {"close_read", "close_write", "kfree"} => p = q
    /\ \A f \in Files, p \in Procs : /\ ~(type[f] = "read" /\ pc[p] = "close_read")
                                     /\ ~(type[f] = "write" /\ pc[p] = "close_write")
    /\ readopen <=> (\E f \in Files : type[f] = "read") \/ \E p \in Procs : pc[p] = "close_read"
    /\ writeopen <=> (\E f \in Files : type[f] = "write") \/ \E p \in Procs : pc[p] = "close_write"
    /\ page <=> readopen \/ writeopen \/ \E p \in Procs : pc[p] = "kfree"
    /\ \A p \in Procs : pc[p] = "kfree" => ~readopen /\ ~writeopen

\* A process in piperead() or pipewrite() has a descriptor of that end.
UserShape == \A p \in Procs : /\ pc[p] \in ReadPCs => Holds(p, "read")
                              /\ pc[p] \in WritePCs => Holds(p, "write")

FInv == TypeOK /\ WorkShape /\ RefShape /\ KindShape /\ EndShape /\ UserShape

-----------------------------------------------------------------------------
(* The inductive invariant: the buffer *)

\* The pipe's lock is held by the process about to sleep, and what it has seen
\* stays true until it sleeps.
LockShape ==
    /\ lock <=> \E p \in Procs : pc[p] \in {"rsleep", "wsleep"}
    /\ \A p, q \in Procs : pc[p] \in {"rsleep", "wsleep"} /\ pc[q] \in {"rsleep", "wsleep"} => p = q
    /\ \A p \in Procs : /\ pc[p] = "rsleep" => writeopen /\ Count = 0
                        /\ pc[p] = "wsleep" => readopen /\ Count = PIPESIZE

\* nwrite is never more than PIPESIZE ahead of nread, and what lies between has
\* been written.
DataShape ==
    /\ Count <= PIPESIZE
    /\ \A i \in 1..Count : data[(nread + i - 1) % PIPESIZE] # Junk

IInv == FInv /\ LockShape /\ DataShape /\ NoLostWakeup

-----------------------------------------------------------------------------
(* Lemmas on the operators *)

\* The sizes of the file table, of a process's descriptors and of the pipe.
LEMMA SizeFacts ==
  /\ NFILE \in Nat /\ NFILE >= 1 /\ NOFILE \in Nat /\ NOFILE >= 1
  /\ PIPESIZE \in Nat /\ PIPESIZE >= 1 /\ WORD \in Nat /\ WORD > PIPESIZE /\ WORD % PIPESIZE = 0
  /\ Console \in Files /\ NoFile \notin Files /\ 1 \in FDs
  /\ FDs \subseteq Slots /\ 0 \in Slots /\ 0 - 1 \in Slots /\ 0 \notin FDs /\ 0 - 1 \notin FDs
BY PipeAssumption DEF Files, FDs, NoFile, Console, Slots

\* A process has finitely many places for files.
LEMMA PlacesFinite == IsFiniteSet(Places) /\ IsFiniteSet(FDs) /\ IsFiniteSet(Slots)
<1>1. IsFiniteSet(FDs) /\ IsFiniteSet(Slots)
  BY SizeFacts, FS_Interval DEF FDs, Slots
<1>2. IsFiniteSet(Procs)
  BY PipeAssumption
<1> QED BY <1>1, <1>2, FS_Product DEF Places

\* A place that is given a file, or another one, changes two counts by one.
LEMMA PutCount ==
  ASSUME NEW h, h \in [Places -> Files \cup {NoFile}], NEW s \in Places, NEW y, NEW f,
         NEW g, \A t \in Places : g[t] = IF t = s THEN y ELSE h[t]
  PROVE  /\ Names(g, f)
              = Names(h, f) + Same(f, y) - Same(f, h[s])
         /\ Names(h, f) \in Nat
<1> DEFINE A == Naming(h, f)
<1> DEFINE B == Naming(g, f)
<1>1. IsFiniteSet(A)
  <2>1. A \in SUBSET Places
    BY DEF Naming
  <2> QED BY <2>1, PlacesFinite, FS_Subset
<1>2. Cardinality(A) \in Nat
  BY <1>1, FS_CardinalityType
<1>3. Cardinality(A \cup {s}) = IF s \in A THEN Cardinality(A) ELSE Cardinality(A) + 1
  BY <1>1, FS_AddElement
<1>4. Cardinality(A \ {s}) = IF s \in A THEN Cardinality(A) - 1 ELSE Cardinality(A)
  BY <1>1, FS_RemoveElement
<1>5. s \in A <=> f = h[s]
  BY DEF Naming
<1>6. f = y => B = A \cup {s}
  BY DEF Naming
<1>7. f # y => B = A \ {s}
  BY DEF Naming
<1> HIDE DEF A, B
<1>8. CASE f = y
  <2>1. Cardinality(B) = IF f = h[s] THEN Cardinality(A) ELSE Cardinality(A) + 1
    BY <1>3, <1>5, <1>6, <1>8
  <2> QED BY <1>2, <1>8, <2>1 DEF A, B, Names, Same
<1>9. CASE f # y
  <2>1. Cardinality(B) = IF f = h[s] THEN Cardinality(A) - 1 ELSE Cardinality(A)
    BY <1>4, <1>5, <1>7, <1>9
  <2> QED BY <1>2, <1>9, <2>1 DEF A, B, Names, Same
<1> QED BY <1>2, <1>8, <1>9 DEF A, B, Names, Same

\* Who is named is counted; a file named in two places is counted twice.
LEMMA NamingFacts ==
  ASSUME NEW h, h \in [Places -> Files \cup {NoFile}], NEW f
  PROVE  /\ Names(h, f) \in Nat
         /\ \A s \in Places : h[s] = f => Names(h, f) >= 1
         /\ \A s, u \in Places : h[s] = f /\ h[u] = f /\ s # u => Names(h, f) >= 2
<1> DEFINE A == Naming(h, f)
<1>1. IsFiniteSet(A)
  <2>1. A \in SUBSET Places
    BY DEF Naming
  <2> QED BY <2>1, PlacesFinite, FS_Subset
<1>2. Cardinality(A) \in Nat
  BY <1>1, FS_CardinalityType
<1>3. \A s \in Places : s \in A <=> h[s] = f
  BY DEF Naming
<1> HIDE DEF A
<1>4. ASSUME NEW s \in Places, h[s] = f PROVE Cardinality(A) >= 1
  BY <1>1, <1>2, <1>3, <1>4, FS_EmptySet
<1>5. ASSUME NEW s \in Places, NEW u \in Places, h[s] = f, h[u] = f, s # u PROVE Cardinality(A) >= 2
  <2>1. IsFiniteSet(A \ {s}) /\ Cardinality(A \ {s}) = Cardinality(A) - 1
    BY <1>1, <1>3, <1>5, FS_RemoveElement
  <2>2. A \ {s} # {}
    BY <1>3, <1>5
  <2>3. Cardinality(A \ {s}) # 0 /\ Cardinality(A \ {s}) \in Nat
    BY <2>1, <2>2, FS_EmptySet, FS_CardinalityType
  <2> QED BY <1>2, <2>1, <2>3
<1> QED BY <1>2, <1>4, <1>5 DEF A, Names

\* f->ref cannot grow past one reference for each descriptor of each process
\* and one more for the file a process has in hand.
LEMMA NamingBound ==
  ASSUME NEW h, h \in [Places -> Files \cup {NoFile}], NEW f,
         \A p \in Procs : ~(h[<<p, 0>>] = f /\ h[<<p, 0 - 1>>] = f)
  PROVE  Names(h, f) <= Cardinality(Procs) * (NOFILE + 1)
<1> DEFINE A == Naming(h, f)
<1> DEFINE F == [s \in A |-> <<s[1], IF s[2] = 0 - 1 THEN 0 ELSE s[2]>>]
<1>1. \A s \in A : s \in Procs \X Slots /\ s = <<s[1], s[2]>> /\ h[<<s[1], s[2]>>] = f
  BY DEF Naming, Places
<1>2. \A k \in Slots : (IF k = 0 - 1 THEN 0 ELSE k) \in 0..NOFILE
  BY SizeFacts DEF Slots
<1>3. F \in [A -> Procs \X (0..NOFILE)]
  BY <1>1, <1>2
<1>4. ASSUME NEW s \in A, NEW u \in A, F[s] = F[u] PROVE s = u
  <2>1. s[1] = u[1] /\ (IF s[2] = 0 - 1 THEN 0 ELSE s[2]) = (IF u[2] = 0 - 1 THEN 0 ELSE u[2])
    BY <1>4
  <2>2. s[2] = u[2]
    BY <1>1, <2>1
  <2> QED BY <1>1, <2>1, <2>2
<1>5. F \in Injection(A, Procs \X (0..NOFILE))
  BY <1>3, <1>4, Fun_IsInj
<1>6. IsFiniteSet(0..NOFILE) /\ Cardinality(0..NOFILE) = NOFILE + 1
  BY SizeFacts, FS_Interval
<1>7. IsFiniteSet(Procs)
  BY PipeAssumption
<1>8. /\ IsFiniteSet(Procs \X (0..NOFILE))
      /\ Cardinality(Procs \X (0..NOFILE)) = Cardinality(Procs) * Cardinality(0..NOFILE)
  BY <1>6, <1>7, FS_Product
<1> HIDE DEF A, F
<1>9. Cardinality(A) <= Cardinality(Procs \X (0..NOFILE))
  BY <1>5, <1>8, FS_Injection
<1> QED BY <1>6, <1>8, <1>9 DEF A, Names

\* fdalloc() and filealloc() take the first free place.
LEMMA LeastFacts ==
  ASSUME NEW S \in SUBSET Nat, S # {}
  PROVE  Least(S) \in S
<1>1. PICK x \in S : \A y \in S : ~(<<y, x>> \in OpToRel(<, Nat))
  BY NatLessThanWellFounded, WFMin
<1>2. ASSUME NEW y \in S PROVE x <= y
  <2>1. x \in Nat /\ y \in Nat
    OBVIOUS
  <2>2. ~(y < x)
    BY <1>1, <2>1 DEF OpToRel
  <2> QED BY <2>1, <2>2
<1> QED BY <1>2 DEF Least

\* fork() counts one reference more for each descriptor of the parent.
LEMMA ForkCount ==
  ASSUME NEW h, h \in [Places -> Files \cup {NoFile}], NEW fds \in [FDs -> Files \cup {NoFile}],
         NEW c \in Procs, NEW f \in Files,
         \A fd \in FDs : h[<<c, fd>>] = NoFile
  PROVE  /\ Names([s \in Places |-> IF s[1] = c /\ s[2] \in FDs THEN fds[s[2]] ELSE h[s]], f)
              = Names(h, f) + Copies(fds, f)
         /\ Copies(fds, f) \in Nat
<1> DEFINE A == Naming(h, f)
<1> DEFINE C == {fd \in FDs : fds[fd] = f}
<1> DEFINE D == {s \in Places : s[1] = c /\ s[2] \in FDs /\ fds[s[2]] = f}
<1> DEFINE F == [fd \in C |-> <<c, fd>>]
<1>1. IsFiniteSet(A) /\ IsFiniteSet(C)
  <2>1. A \in SUBSET Places /\ C \in SUBSET FDs
    BY DEF Naming
  <2> QED BY <2>1, PlacesFinite, FS_Subset
<1>2. F \in Surjection(C, D)
  <2>1. \A fd \in C : <<c, fd>> \in D
    BY SizeFacts DEF Places
  <2>2. F \in [C -> D]
    BY <2>1
  <2>3. \A s \in D : s[2] \in C /\ s = <<c, s[2]>>
    BY DEF Places
  <2>4. \A s \in D : \E fd \in C : F[fd] = s
    BY <2>3
  <2> QED BY <2>2, <2>4 DEF Surjection
<1>3. F \in Injection(C, D)
  <2>1. F \in [C -> D]
    BY <1>2 DEF Surjection
  <2>2. \A a, b \in C : F[a] = F[b] => a = b
    OBVIOUS
  <2> QED BY <2>1, <2>2, Fun_IsInj
<1> HIDE DEF C, D, F
<1>4. IsFiniteSet(D) /\ Cardinality(D) = Cardinality(C)
  BY <1>1, <1>2, <1>3, FS_Surjection
<1>5. A \cap D = {}
  <2>1. ASSUME NEW s \in D PROVE h[s] = NoFile
    <3>1. s = <<c, s[2]>> /\ s[2] \in FDs
      BY <2>1 DEF D, Places
    <3> QED BY <3>1
  <2> QED BY <2>1, SizeFacts DEF Naming
<1>6. Naming([s \in Places |-> IF s[1] = c /\ s[2] \in FDs THEN fds[s[2]] ELSE h[s]], f) = A \cup D
  <2>1. ASSUME NEW s \in Places, s[1] = c, s[2] \in FDs PROVE h[s] # f
    <3>1. s = <<c, s[2]>>
      BY <2>1 DEF Places
    <3>2. h[s] = NoFile
      BY <2>1, <3>1
    <3> QED BY <3>2, SizeFacts
  <2> QED BY <2>1 DEF Naming, D
<1> HIDE DEF A
<1>7. Cardinality(A \cup D) = Cardinality(A) + Cardinality(D) - Cardinality(A \cap D)
  BY <1>1, <1>4, FS_Union
<1>8. Cardinality(A) \in Nat /\ Cardinality(D) \in Nat /\ Cardinality(A \cap D) = 0
  BY <1>1, <1>4, <1>5, FS_CardinalityType, FS_EmptySet
<1>9. Copies(fds, f) = Cardinality(C)
  BY DEF Copies, C
<1>10. Cardinality(A \cup D) = Cardinality(A) + Cardinality(C)
  BY <1>4, <1>7, <1>8
<1>11. Cardinality(C) \in Nat
  BY <1>1, FS_CardinalityType
<1> QED BY <1>6, <1>9, <1>10, <1>11 DEF A, Names

\* The types of the two kinds of places.
FdTable == [Procs -> [FDs -> Files \cup {NoFile}]]
InHand == {w \in [Procs -> Seq(Files)] : \A p \in Procs : Len(w[p]) <= 2}

\* How often file f occurs among the at most two files of v.
Occurs(v, f) == (IF 1 <= Len(v) /\ v[1] = f THEN 1 ELSE 0)
                + (IF 2 <= Len(v) /\ v[2] = f THEN 1 ELSE 0)

\* Descriptors and files in hand, as places.
LEMMA HeldFacts ==
  ASSUME NEW o \in FdTable, NEW w \in InHand
  PROVE  /\ HeldOf(o, w) \in [Places -> Files \cup {NoFile}]
         /\ \A p \in Procs, fd \in FDs : <<p, fd>> \in Places /\ HeldOf(o, w)[<<p, fd>>] = o[p][fd]
         /\ \A p \in Procs : /\ <<p, 0>> \in Places /\ <<p, 0 - 1>> \in Places
                             /\ HeldOf(o, w)[<<p, 0>>] = IF 1 <= Len(w[p]) THEN w[p][1] ELSE NoFile
                             /\ HeldOf(o, w)[<<p, 0 - 1>>] = IF 2 <= Len(w[p]) THEN w[p][2] ELSE NoFile
<1>1. \A p \in Procs, k \in Slots : <<p, k>> \in Places
  BY DEF Places
<1>2. \A p \in Procs, fd \in FDs : <<p, fd>> \in Places /\ HeldOf(o, w)[<<p, fd>>] = o[p][fd]
  BY <1>1, SizeFacts DEF HeldOf
<1>3. ASSUME NEW p \in Procs
      PROVE  /\ <<p, 0>> \in Places /\ <<p, 0 - 1>> \in Places
             /\ HeldOf(o, w)[<<p, 0>>] = IF 1 <= Len(w[p]) THEN w[p][1] ELSE NoFile
             /\ HeldOf(o, w)[<<p, 0 - 1>>] = IF 2 <= Len(w[p]) THEN w[p][2] ELSE NoFile
  BY <1>1, SizeFacts DEF HeldOf
<1>4. ASSUME NEW s \in Places PROVE HeldOf(o, w)[s] \in Files \cup {NoFile}
  <2>1. s[1] \in Procs /\ s[2] \in Slots /\ s = <<s[1], s[2]>>
    BY DEF Places
  <2>2. s[2] \in FDs \/ s[2] = 0 \/ s[2] = 0 - 1
    BY <2>1, SizeFacts DEF Slots, FDs
  <2>3. CASE s[2] \in FDs
    BY <2>1, <2>3 DEF HeldOf, FdTable
  <2>4. w[s[1]] \in Seq(Files) /\ Len(w[s[1]]) \in Nat
    BY <2>1 DEF InHand
  <2>5. CASE s[2] = 0
    <3>1. HeldOf(o, w)[s] = IF 1 <= Len(w[s[1]]) THEN w[s[1]][1] ELSE NoFile
      BY <2>1, <2>5, <1>3
    <3>2. 1 <= Len(w[s[1]]) => w[s[1]][1] \in Files
      BY <2>4
    <3> QED BY <3>1, <3>2
  <2>6. CASE s[2] = 0 - 1
    <3>1. HeldOf(o, w)[s] = IF 2 <= Len(w[s[1]]) THEN w[s[1]][2] ELSE NoFile
      BY <2>1, <2>6, <1>3
    <3>2. 2 <= Len(w[s[1]]) => w[s[1]][2] \in Files
      BY <2>4
    <3> QED BY <3>1, <3>2
  <2> QED BY <2>2, <2>3, <2>5, <2>6
<1>5. HeldOf(o, w) = [s \in Places |-> HeldOf(o, w)[s]]
  BY DEF HeldOf
<1>6. HeldOf(o, w) \in [Places -> Files \cup {NoFile}]
  BY <1>4, <1>5
<1> QED BY <1>2, <1>3, <1>6

\* Every place is a descriptor or one of the two places in hand.
LEMMA PlaceCases ==
  ASSUME NEW s \in Places
  PROVE  /\ s[1] \in Procs /\ s = <<s[1], s[2]>>
         /\ s[2] \in FDs \/ s[2] = 0 \/ s[2] = 0 - 1
BY SizeFacts DEF Slots, FDs, Places

\* Writing one descriptor.
LEMMA PutFd ==
  ASSUME NEW o \in FdTable, NEW w \in InHand, NEW p \in Procs, NEW fd \in FDs, NEW y,
         NEW u \in FdTable,
         \A q \in Procs, k \in FDs : u[q][k] = IF q = p /\ k = fd THEN y ELSE o[q][k],
         NEW f \in Files
  PROVE  /\ Names(HeldOf(u, w), f)
              = Names(HeldOf(o, w), f) + Same(f, y) - Same(f, o[p][fd])
         /\ Names(HeldOf(o, w), f) \in Nat
<1> DEFINE h == HeldOf(o, w)
<1> DEFINE g == HeldOf(u, w)
<1> DEFINE s == <<p, fd>>
<1>1. h \in [Places -> Files \cup {NoFile}] /\ s \in Places /\ h[s] = o[p][fd]
  BY HeldFacts
<1>2. ASSUME NEW t \in Places PROVE g[t] = IF t = s THEN y ELSE h[t]
  <2>1. CASE t[2] \in FDs
    BY <2>1, PlaceCases, HeldFacts
  <2>2. CASE t[2] \notin FDs
    BY <2>2 DEF HeldOf
  <2> QED BY <2>1, <2>2
<1> HIDE DEF h, g, s
<1>3. Names(g, f) = Names(h, f) + Same(f, y) - Same(f, h[s])
  BY <1>1, <1>2, PutCount
<1>4. Names(h, f) \in Nat
  BY <1>1, <1>2, PutCount
<1> QED BY <1>1, <1>3, <1>4 DEF h, g

\* Changing the files in hand.
LEMMA PutWork ==
  ASSUME NEW o \in FdTable, NEW w \in InHand, NEW p \in Procs, NEW v \in Seq(Files), Len(v) <= 2,
         NEW u \in InHand, \A q \in Procs : u[q] = IF q = p THEN v ELSE w[q],
         NEW f \in Files
  PROVE  /\ Names(HeldOf(o, u), f) = Names(HeldOf(o, w), f) + Occurs(v, f) - Occurs(w[p], f)
         /\ Occurs(v, f) \in Nat /\ Occurs(w[p], f) \in Nat /\ Names(HeldOf(o, w), f) \in Nat
<1> DEFINE a == IF 1 <= Len(v) THEN v[1] ELSE NoFile
<1> DEFINE b == IF 2 <= Len(v) THEN v[2] ELSE NoFile
<1>3. Len(v) \in Nat /\ Len(w[p]) \in Nat /\ w[p] \in Seq(Files)
  BY DEF InHand
<1>4. a \in Files \cup {NoFile} /\ b \in Files \cup {NoFile}
  BY <1>3
<1> DEFINE h == HeldOf(o, w)
<1> DEFINE k == HeldOf(o, u)
<1> DEFINE s == <<p, 0>>
<1> DEFINE t == <<p, 0 - 1>>
<1> DEFINE g == [x \in Places |-> IF x = s THEN a ELSE h[x]]
<1>5. /\ h \in [Places -> Files \cup {NoFile}] /\ s \in Places /\ t \in Places /\ s # t
      /\ h[s] = IF 1 <= Len(w[p]) THEN w[p][1] ELSE NoFile
      /\ h[t] = IF 2 <= Len(w[p]) THEN w[p][2] ELSE NoFile
  BY HeldFacts
<1>6. ASSUME NEW x \in Places
      PROVE  k[x] = IF x = t THEN b ELSE IF x = s THEN a ELSE h[x]
  <2>1. x[1] \in Procs /\ x = <<x[1], x[2]>>
    BY PlaceCases
  <2>2. CASE x[2] \in FDs
    <3>1. x # s /\ x # t
      BY <2>2, SizeFacts
    <3>2. k[<<x[1], x[2]>>] = o[x[1]][x[2]] /\ h[<<x[1], x[2]>>] = o[x[1]][x[2]]
      BY <2>1, <2>2, HeldFacts
    <3> QED BY <2>1, <3>1, <3>2
  <2>3. CASE x[2] = 0
    <3>1. k[<<x[1], 0>>] = (IF 1 <= Len(u[x[1]]) THEN u[x[1]][1] ELSE NoFile)
      BY <2>1, HeldFacts
    <3>2. h[<<x[1], 0>>] = (IF 1 <= Len(w[x[1]]) THEN w[x[1]][1] ELSE NoFile)
      BY <2>1, HeldFacts
    <3>3. u[x[1]] = IF x[1] = p THEN v ELSE w[x[1]]
      BY <2>1
    <3>4. x = <<x[1], 0>> /\ x # t
      BY <2>1, <2>3
    <3> HIDE DEF h, k
    <3> QED BY <3>1, <3>2, <3>3, <3>4
  <2>4. CASE x[2] = 0 - 1
    <3>1. k[<<x[1], 0 - 1>>] = (IF 2 <= Len(u[x[1]]) THEN u[x[1]][2] ELSE NoFile)
      BY <2>1, HeldFacts
    <3>2. h[<<x[1], 0 - 1>>] = (IF 2 <= Len(w[x[1]]) THEN w[x[1]][2] ELSE NoFile)
      BY <2>1, HeldFacts
    <3>3. u[x[1]] = IF x[1] = p THEN v ELSE w[x[1]]
      BY <2>1
    <3>4. x = <<x[1], 0 - 1>> /\ x # s
      BY <2>1, <2>4
    <3> HIDE DEF h, k
    <3> QED BY <3>1, <3>2, <3>3, <3>4
  <2> QED BY <2>2, <2>3, <2>4, PlaceCases
<1>7. Occurs(v, f) = Same(f, a) + Same(f, b)
  BY <1>3, SizeFacts DEF Occurs, Same
<1>8. Occurs(w[p], f) = Same(f, h[s]) + Same(f, h[t])
  BY <1>3, <1>5, SizeFacts DEF Occurs, Same
<1> HIDE DEF a, b, h, k, s, t
<1>9. g \in [Places -> Files \cup {NoFile}] /\ g[t] = h[t]
  BY <1>4, <1>5
<1>10. \A x \in Places : g[x] = IF x = s THEN a ELSE h[x]
  OBVIOUS
<1>11. \A x \in Places : k[x] = IF x = t THEN b ELSE g[x]
  BY <1>6
<1> HIDE DEF g
<1>12. Names(g, f) = Names(h, f) + Same(f, a) - Same(f, h[s])
  BY <1>5, <1>10, PutCount
<1>13. Names(h, f) \in Nat
  BY <1>5, <1>10, PutCount
<1>14. Names(k, f) = Names(g, f) + Same(f, b) - Same(f, g[t])
  BY <1>5, <1>9, <1>11, PutCount
<1>15. Names(k, f) = Names(h, f) + Occurs(v, f) - Occurs(w[p], f)
  BY <1>7, <1>8, <1>9, <1>12, <1>13, <1>14 DEF Same
<1>16. Occurs(v, f) \in Nat /\ Occurs(w[p], f) \in Nat
  BY <1>7, <1>8 DEF Same
<1> QED BY <1>13, <1>15, <1>16 DEF h, k

-----------------------------------------------------------------------------
(* Files: what each step keeps *)

\* TypeOK but for the bound of ref, which follows from what it counts.
TypeRest ==
    /\ ref \in [Files -> Int]
    /\ type \in [Files -> {"none", "inode", "read", "write"}]
    /\ ofile \in [Procs -> [FDs -> Files \cup {NoFile}]]
    /\ page \in BOOLEAN /\ readopen \in BOOLEAN /\ writeopen \in BOOLEAN
    /\ nread \in 0..WORD - 1 /\ nwrite \in 0..WORD - 1
    /\ data \in [0..PIPESIZE - 1 -> Bytes \cup {Junk}]
    /\ lock \in BOOLEAN /\ unannounced \in BOOLEAN
    /\ killed \subseteq Procs /\ exiting \subseteq Procs
    /\ pc \in [Procs -> PCs]
    /\ n \in [Procs -> {0} \cup UNION {0..m : m \in Lengths}]
    /\ \A p \in Procs : work[p] \in Seq(Files) /\ (got[p] # NoResult => got[p] \in Seq(Bytes))

\* The references to a file are bounded by the places for them.
LEMMA RefBound ==
  ASSUME NEW o \in FdTable, NEW w \in InHand, NEW f \in Files,
         \A p \in Procs : Len(w[p]) = 2 => w[p][1] # w[p][2]
  PROVE  Names(HeldOf(o, w), f) \in 0..Cardinality(Procs) * (NOFILE + 1)
<1> DEFINE h == HeldOf(o, w)
<1>1. h \in [Places -> Files \cup {NoFile}]
  BY HeldFacts
<1>2. ASSUME NEW p \in Procs PROVE ~(h[<<p, 0>>] = f /\ h[<<p, 0 - 1>>] = f)
  <2>1. /\ h[<<p, 0>>] = IF 1 <= Len(w[p]) THEN w[p][1] ELSE NoFile
        /\ h[<<p, 0 - 1>>] = IF 2 <= Len(w[p]) THEN w[p][2] ELSE NoFile
    BY HeldFacts
  <2>2. Len(w[p]) \in Nat /\ Len(w[p]) <= 2
    BY DEF InHand
  <2>3. Len(w[p]) = 2 => w[p][1] # w[p][2]
    OBVIOUS
  <2>4. f # NoFile
    BY SizeFacts
  <2> HIDE DEF h
  <2>5. h[<<p, 0>>] = f => 1 <= Len(w[p]) /\ w[p][1] = f
    BY <2>1, <2>4
  <2>6. h[<<p, 0 - 1>>] = f => 2 <= Len(w[p]) /\ w[p][2] = f
    BY <2>1, <2>4
  <2> DEFINE k == Len(w[p])
  <2>8. k \in Nat /\ k <= 2
    BY <2>2
  <2> HIDE DEF k
  <2>9. 2 <= k => k = 2
    BY <2>8
  <2>7. 2 <= Len(w[p]) => Len(w[p]) = 2
    BY <2>9 DEF k
  <2> QED BY <2>3, <2>5, <2>6, <2>7
<1> HIDE DEF h
<1>3. Names(h, f) <= Cardinality(Procs) * (NOFILE + 1)
  BY <1>1, <1>2, NamingBound
<1>4. Names(h, f) \in Nat
  BY <1>1, NamingFacts
<1>5. Cardinality(Procs) \in Nat
  BY PipeAssumption, FS_CardinalityType
<1> DEFINE M == Cardinality(Procs) * (NOFILE + 1)
<1>6. M \in Int
  BY <1>5, SizeFacts
<1> HIDE DEF M
<1>7. Names(h, f) \in 0..M
  BY <1>3, <1>4, <1>6 DEF M
<1> QED BY <1>7 DEF h, M

\* f->ref never overflows.
LEMMA TypeAgain ==
  ASSUME TypeRest', WorkShape', RefShape'
  PROVE  TypeOK'
<1>1. ofile' \in FdTable
  BY DEF TypeRest, FdTable
<1>2. work' \in InHand
  <2>1. work' = [p \in Procs |-> work'[p]]
    BY DEF WorkShape
  <2>2. \A p \in Procs : work'[p] \in Seq(Files) /\ Len(work'[p]) <= 2
    BY DEF WorkShape, TypeRest
  <2> QED BY <2>1, <2>2 DEF InHand
<1>3. \A p \in Procs : Len(work'[p]) = 2 => work'[p][1] # work'[p][2]
  BY DEF WorkShape
<1> DEFINE M == Cardinality(Procs) * (NOFILE + 1)
<1>4. ASSUME NEW f \in Files PROVE ref'[f] \in 0..M + 1
  <2>1. Names(HeldOf(ofile', work'), f) \in 0..M
    BY <1>1, <1>2, <1>3, RefBound
  <2>2. ref'[f] = Names(HeldOf(ofile', work'), f) + Extra(f)
    BY DEF RefShape, held, Extra
  <2>3. Extra(f) \in {0, 1}
    BY DEF Extra
  <2>4. M \in Int
    BY SizeFacts, PipeAssumption, FS_CardinalityType
  <2> HIDE DEF M
  <2> QED BY <2>1, <2>2, <2>3, <2>4
<1>5. ref' \in [Files -> 0..M + 1]
  BY <1>4 DEF TypeRest
<1> QED BY <1>5 DEF TypeOK, TypeRest

\* What the invariant says of the files a process holds.
LEMMA FileFacts ==
  ASSUME FInv
  PROVE  /\ TypeRest /\ ofile \in FdTable /\ work \in InHand
         /\ \A f \in Files : ref[f] \in Nat /\ Names(held, f) \in Nat
                             /\ ref[f] = Names(held, f) + Extra(f) /\ Extra(f) \in {0, 1}
         /\ \A p \in Procs, fd \in FDs : ofile[p][fd] # NoFile =>
                ofile[p][fd] \in Files /\ ref[ofile[p][fd]] >= 1
         /\ \A p \in Procs : \A i \in 1..Len(work[p]) :
                work[p][i] \in Files /\ ref[work[p][i]] >= 1
         /\ \A p \in Procs : \A i \in 1..Len(work[p]) : work[p][i] = Console => ref[Console] >= 2
         /\ \A p, q \in Procs : \A i \in 1..Len(work[p]), fd \in FDs :
                ofile[q][fd] = work[p][i] => ref[work[p][i]] >= 2
         /\ \A p, q \in Procs : p # q =>
                \A i \in 1..Len(work[p]), j \in 1..Len(work[q]) :
                    work[p][i] = work[q][j] => ref[work[p][i]] >= 2
<1>1. TypeRest
  BY SizeFacts DEF FInv, TypeOK, TypeRest
<1>2. ofile \in FdTable
  BY DEF FInv, TypeOK, FdTable
<1>3. work \in InHand
  <2>1. work = [p \in Procs |-> work[p]]
    BY DEF FInv, WorkShape
  <2>2. \A p \in Procs : work[p] \in Seq(Files) /\ Len(work[p]) <= 2
    BY DEF FInv, WorkShape, TypeOK
  <2> QED BY <2>1, <2>2 DEF InHand
<1>4. held \in [Places -> Files \cup {NoFile}]
  BY <1>2, <1>3, HeldFacts DEF held
<1>5. ASSUME NEW f \in Files
      PROVE  ref[f] \in Nat /\ Names(held, f) \in Nat /\ ref[f] = Names(held, f) + Extra(f) /\ Extra(f) \in {0, 1}
  <2>1. Names(held, f) \in Nat
    BY <1>4, NamingFacts
  <2> QED BY <2>1 DEF FInv, RefShape, Extra
<1>6. ASSUME NEW p \in Procs, NEW fd \in FDs
      PROVE  <<p, fd>> \in Places /\ held[<<p, fd>>] = ofile[p][fd] /\ ofile[p][fd] \in Files \cup {NoFile}
  <2>1. <<p, fd>> \in Places /\ held[<<p, fd>>] = ofile[p][fd]
    BY <1>2, <1>3, HeldFacts DEF held
  <2> QED BY <2>1, <1>2 DEF FdTable
<1>7. ASSUME NEW p \in Procs, NEW i \in 1..Len(work[p])
      PROVE  work[p][i] \in Files /\ \E s \in Places : s[1] = p /\ s[2] \notin FDs /\ held[s] = work[p][i]
  <2>1. Len(work[p]) \in Nat /\ Len(work[p]) <= 2 /\ work[p] \in Seq(Files)
    BY <1>3 DEF InHand
  <2>2. i = 1 \/ i = 2
    BY <2>1
  <2>3. /\ <<p, 0>> \in Places /\ <<p, 0 - 1>> \in Places
        /\ held[<<p, 0>>] = IF 1 <= Len(work[p]) THEN work[p][1] ELSE NoFile
        /\ held[<<p, 0 - 1>>] = IF 2 <= Len(work[p]) THEN work[p][2] ELSE NoFile
    BY <1>2, <1>3, HeldFacts DEF held
  <2>4. i = 1 => held[<<p, 0>>] = work[p][i]
    BY <2>1, <2>3
  <2>5. i = 2 => held[<<p, 0 - 1>>] = work[p][i]
    BY <2>1, <2>3
  <2> QED BY <2>1, <2>2, <2>3, <2>4, <2>5, SizeFacts
<1>8. ASSUME NEW s \in Places, held[s] \in Files PROVE Names(held, held[s]) >= 1
  BY <1>4, <1>8, NamingFacts
<1>9. ASSUME NEW s \in Places, NEW u \in Places, s # u, held[s] = held[u], held[s] \in Files
      PROVE Names(held, held[s]) >= 2
  BY <1>4, <1>9, NamingFacts
<1>10. ASSUME NEW p \in Procs, NEW fd \in FDs, ofile[p][fd] # NoFile
       PROVE  ofile[p][fd] \in Files /\ ref[ofile[p][fd]] >= 1
  <2>1. ofile[p][fd] \in Files
    BY <1>6, <1>10
  <2>2. Names(held, ofile[p][fd]) >= 1
    BY <1>6, <1>8, <2>1
  <2> QED BY <2>1, <2>2, <1>5
<1>11. ASSUME NEW p \in Procs, NEW i \in 1..Len(work[p])
       PROVE  /\ work[p][i] \in Files /\ ref[work[p][i]] >= 1
              /\ work[p][i] = Console => ref[Console] >= 2
  <2>1. Names(held, work[p][i]) >= 1 /\ work[p][i] \in Files
    BY <1>7, <1>8
  <2>2. Extra(Console) = 1
    BY DEF Extra
  <2> QED BY <2>1, <2>2, <1>5
<1>12. ASSUME NEW p \in Procs, NEW q \in Procs, NEW i \in 1..Len(work[p]), NEW fd \in FDs, ofile[q][fd] = work[p][i]
       PROVE  ref[work[p][i]] >= 2
  <2>1. PICK s \in Places : s[1] = p /\ s[2] \notin FDs /\ held[s] = work[p][i]
    BY <1>7
  <2>2. s # <<q, fd>>
    BY <2>1
  <2>4. <<q, fd>> \in Places /\ held[<<q, fd>>] = held[s] /\ held[s] \in Files
    BY <1>6, <1>7, <1>12, <2>1
  <2>3. Names(held, work[p][i]) >= 2 /\ work[p][i] \in Files
    BY <1>9, <2>1, <2>2, <2>4
  <2> QED BY <2>3, <1>5
<1>13. ASSUME NEW p \in Procs, NEW q \in Procs, p # q, NEW i \in 1..Len(work[p]), NEW j \in 1..Len(work[q]),
              work[p][i] = work[q][j]
       PROVE  ref[work[p][i]] >= 2
  <2>1. PICK s \in Places : s[1] = p /\ held[s] = work[p][i]
    BY <1>7
  <2>2. PICK u \in Places : u[1] = q /\ held[u] = work[q][j]
    BY <1>7
  <2>3. Names(held, work[p][i]) >= 2 /\ work[p][i] \in Files
    BY <1>7, <1>9, <1>13, <2>1, <2>2
  <2> QED BY <2>3, <1>5
<1> QED BY <1>1, <1>2, <1>3, <1>5, <1>10, <1>11, <1>12, <1>13

\* Steps outside of pipeclose() that change no type keep the ends as they are.
LEMMA EndKept ==
  ASSUME EndShape, UNCHANGED <<type, page, readopen, writeopen>>,
         \A q \in Procs : \/ pc'[q] = pc[q]
                          \/ {pc[q], pc'[q]} \cap {"close_read", "close_write", "kfree"} = {}
  PROVE  EndShape'
<1>1. \A q \in Procs : /\ pc'[q] = "close_read" <=> pc[q] = "close_read"
                       /\ pc'[q] = "close_write" <=> pc[q] = "close_write"
                       /\ pc'[q] = "kfree" <=> pc[q] = "kfree"
  OBVIOUS
<1> QED BY <1>1 DEF EndShape

\* A process inside piperead() or pipewrite() keeps its descriptors.
LEMMA UserKept ==
  ASSUME UserShape, type' = type,
         \A q \in Procs : (pc'[q] = pc[q] /\ ofile'[q] = ofile[q]) \/ pc'[q] \notin ReadPCs \cup WritePCs
  PROVE  UserShape'
BY DEF UserShape, Holds

\* The parts of FInv' make it up.
LEMMA FilesAgain ==
  ASSUME TypeRest', WorkShape', RefShape', KindShape', EndShape', UserShape'
  PROVE  FInv'
<1>1. TypeOK'
  BY TypeAgain
<1> QED BY <1>1 DEF FInv

\* The places of a process, as WorkShape and TypeOK have them.
LEMMA Shapes ==
  ASSUME FInv
  PROVE  /\ work = [p \in Procs |-> work[p]] /\ got = [p \in Procs |-> got[p]]
         /\ \A p \in Procs : /\ work[p] \in Seq(Files) /\ Len(work[p]) \in Nat
                             /\ Len(work[p]) \in {0, 1, 2}
                             /\ work[p] # <<>> => Len(work[p]) \in {1, 2}
                             /\ Len(work[p]) = 0 => work[p] = <<>>
                             /\ pc[p] \in PCs
<1>1. /\ work = [p \in Procs |-> work[p]] /\ got = [p \in Procs |-> got[p]]
      /\ \A p \in Procs : work[p] \in Seq(Files) /\ Len(work[p]) <= 2 /\ pc[p] \in PCs
  BY DEF FInv, WorkShape, TypeOK
<1>2. ASSUME NEW p \in Procs
      PROVE  /\ Len(work[p]) \in Nat /\ Len(work[p]) \in {0, 1, 2}
             /\ work[p] # <<>> => Len(work[p]) \in {1, 2}
             /\ Len(work[p]) = 0 => work[p] = <<>>
  <2> DEFINE v == work[p]
  <2>1. v \in Seq(Files) /\ Len(v) <= 2
    BY <1>1
  <2> HIDE DEF v
  <2>2. Len(v) \in Nat /\ (v # <<>> => Len(v) # 0) /\ (Len(v) = 0 => v = <<>>)
    BY <2>1
  <2> DEFINE k == Len(v)
  <2>3. k \in Nat /\ k <= 2
    BY <2>1, <2>2
  <2> HIDE DEF k
  <2>4. k \in {0, 1, 2}
    BY <2>3
  <2> QED BY <2>2, <2>4 DEF v, k
<1> QED BY <1>1, <1>2

\* init starts a program on the console.
LEMMA StartStep ==
  ASSUME FInv, NEW p \in Procs, Start(p)
  PROVE  FInv'
<1>1. /\ pc[p] = "dead" /\ pc' = [pc EXCEPT ![p] = "user"]
      /\ ref' = [ref EXCEPT ![Console] = ref[Console] + 1]
      /\ ofile' = [ofile EXCEPT ![p][1] = Console]
      /\ UNCHANGED <<exiting, type, page, nread, nwrite, data, readopen, writeopen,
                     lock, killed, n, work, got, unannounced>>
  BY DEF Start, Goto, pipe
<1>2. /\ \A q \in Procs : pc'[q] = IF q = p THEN "user" ELSE pc[q]
      /\ \A q \in Procs, k \in FDs : ofile'[q][k] = IF q = p /\ k = 1 THEN Console ELSE ofile[q][k]
      /\ \A q \in Procs : q # p => ofile'[q] = ofile[q]
      /\ \A f \in Files : ref'[f] = ref[f] + Same(f, Console)
      /\ pc' \in [Procs -> PCs] /\ ofile' \in FdTable /\ ref' \in [Files -> Int]
  <2>1. pc \in [Procs -> PCs] /\ ofile \in FdTable /\ ref \in [Files -> Int]
    BY FileFacts DEF TypeRest
  <2>2. \A f \in Files : ref[f] \in Int
    BY <2>1
  <2> QED BY <1>1, <2>1, <2>2, SizeFacts DEF FdTable, PCs, Same
<1>3. TypeRest'
  BY <1>1, <1>2, FileFacts DEF TypeRest, FdTable
<1>4. work[p] = <<>> /\ p \notin exiting /\ \A fd \in FDs : ofile[p][fd] = NoFile
  BY <1>1 DEF FInv, WorkShape, AllocPCs, ClosePCs
<1>5. WorkShape'
  BY <1>1, <1>2, <1>4 DEF FInv, WorkShape, AllocPCs, ClosePCs
<1>6. RefShape'
  <2> SUFFICES ASSUME NEW f \in Files PROVE ref'[f] = Names(HeldOf(ofile', work'), f) + Extra(f)
    BY DEF RefShape, held, Extra
  <2>1. /\ Names(HeldOf(ofile', work), f) = Names(HeldOf(ofile, work), f) + Same(f, Console) - Same(f, ofile[p][1])
        /\ Names(HeldOf(ofile, work), f) \in Nat
    <3>1. ofile \in FdTable /\ work \in InHand /\ ofile' \in FdTable /\ 1 \in FDs
      BY <1>2, FileFacts, SizeFacts
    <3>2. \A q \in Procs, k \in FDs : ofile'[q][k] = IF q = p /\ k = 1 THEN Console ELSE ofile[q][k]
      BY <1>2
    <3> QED BY <3>1, <3>2, PutFd
  <2>2. ofile[p][1] = NoFile /\ f # NoFile
    BY <1>4, SizeFacts
  <2>3. ref[f] = Names(HeldOf(ofile, work), f) + Extra(f) /\ Extra(f) \in {0, 1}
    BY FileFacts DEF held
  <2> QED BY <1>1, <1>2, <2>1, <2>2, <2>3 DEF Same
<1>7. KindShape'
  <2>1. \A q \in Procs : pc[q] \in AllocPCs => \A i \in 1..Len(work[q]) : work[q][i] # Console
    BY FileFacts, SizeFacts DEF FInv, KindShape
  <2>2. type[Console] = "inode"
    BY SizeFacts DEF FInv, KindShape
  <2>3. \A f \in Files : ref'[f] = 0 => type'[f] = "none"
    BY <1>1, <1>2, FileFacts DEF FInv, KindShape, Same
  <2>4. ASSUME NEW q \in Procs, pc'[q] \in AllocPCs, NEW i \in 1..Len(work'[q])
        PROVE  type'[work'[q][i]] = "none" /\ ref'[work'[q][i]] = 1
    <3>1. q # p /\ pc[q] \in AllocPCs /\ i \in 1..Len(work[q])
      BY <1>1, <1>2, <2>4 DEF AllocPCs
    <3>2. work[q][i] \in Files /\ type[work[q][i]] = "none" /\ ref[work[q][i]] = 1 /\ work[q][i] # Console
      BY <3>1, <2>1, FileFacts DEF FInv, KindShape
    <3> QED BY <1>1, <1>2, <3>2 DEF Same
  <2> QED BY <1>1, <1>2, <2>2, <2>3, <2>4 DEF FInv, KindShape
<1>8. EndShape'
  BY <1>1, <1>2, EndKept DEF FInv
<1>9. UserShape'
  <2>1. \A q \in Procs : (pc'[q] = pc[q] /\ ofile'[q] = ofile[q]) \/ pc'[q] \notin ReadPCs \cup WritePCs
    BY <1>2 DEF ReadPCs, WritePCs
  <2> QED BY <1>1, <2>1, UserKept DEF FInv
<1> QED BY <1>3, <1>5, <1>6, <1>7, <1>8, <1>9, FilesAgain

\* fork() copies every descriptor and counts it.
LEMMA ForkStep ==
  ASSUME FInv, NEW p \in Procs, NEW c \in Procs, Fork(p, c)
  PROVE  FInv'
<1>1. /\ pc[p] = "user" /\ pc[c] = "dead" /\ pc' = [pc EXCEPT ![c] = "user"]
      /\ ref' = [f \in Files |-> ref[f] + Copies(ofile[p], f)]
      /\ ofile' = [ofile EXCEPT ![c] = ofile[p]]
      /\ UNCHANGED <<exiting, type, page, nread, nwrite, data, readopen, writeopen,
                     lock, killed, n, work, got, unannounced>>
  BY DEF Fork, Goto, pipe, Running, ForkDup
<1>2. /\ \A q \in Procs : pc'[q] = IF q = c THEN "user" ELSE pc[q]
      /\ \A q \in Procs : ofile'[q] = IF q = c THEN ofile[p] ELSE ofile[q]
      /\ pc' \in [Procs -> PCs] /\ ofile' \in FdTable
      /\ ofile[p] \in [FDs -> Files \cup {NoFile}]
  <2>1. pc \in [Procs -> PCs] /\ ofile \in FdTable
    BY FileFacts DEF TypeRest
  <2> QED BY <1>1, <2>1 DEF FdTable, PCs
<1>4. work[c] = <<>> /\ c \notin exiting /\ \A fd \in FDs : ofile[c][fd] = NoFile
  BY <1>1 DEF FInv, WorkShape, AllocPCs, ClosePCs
<1>5. ASSUME NEW f \in Files
      PROVE  /\ Names(HeldOf(ofile', work), f) = Names(HeldOf(ofile, work), f) + Copies(ofile[p], f)
             /\ Copies(ofile[p], f) \in Nat
  <2> DEFINE h == HeldOf(ofile, work)
  <2> DEFINE fds == ofile[p]
  <2> DEFINE g == [s \in Places |-> IF s[1] = c /\ s[2] \in FDs THEN fds[s[2]] ELSE h[s]]
  <2>1. h \in [Places -> Files \cup {NoFile}] /\ \A fd \in FDs : h[<<c, fd>>] = NoFile
    <3>1. \A fd \in FDs : h[<<c, fd>>] = ofile[c][fd]
      BY FileFacts, HeldFacts
    <3> QED BY <1>4, <3>1, FileFacts, HeldFacts
  <2>2. HeldOf(ofile', work) = g
    <3>1. ASSUME NEW s \in Places PROVE HeldOf(ofile', work)[s] = g[s]
      <4>1. s[1] \in Procs
        BY PlaceCases
      <4> QED BY <1>2, <4>1 DEF HeldOf
    <3>2. HeldOf(ofile', work) = [s \in Places |-> HeldOf(ofile', work)[s]]
      BY DEF HeldOf
    <3> HIDE DEF h, fds
    <3> QED BY <3>1, <3>2
  <2>3. fds \in [FDs -> Files \cup {NoFile}]
    BY <1>2
  <2> HIDE DEF h, fds
  <2>4. Names(g, f) = Names(h, f) + Copies(fds, f) /\ Copies(fds, f) \in Nat
    BY <2>1, <2>3, ForkCount
  <2> QED BY <2>2, <2>4 DEF h, fds
<1>6. /\ \A f \in Files : ref'[f] = ref[f] + Copies(ofile[p], f) /\ Copies(ofile[p], f) \in Nat
      /\ ref' \in [Files -> Int]
  <2>1. \A f \in Files : ref[f] + Copies(ofile[p], f) \in Int /\ Copies(ofile[p], f) \in Nat
    BY <1>5, FileFacts
  <2> QED BY <1>1, <2>1
<1>7. TypeRest'
  BY <1>1, <1>2, <1>6, FileFacts DEF TypeRest, FdTable
<1>8. WorkShape'
  BY <1>1, <1>2, <1>4 DEF FInv, WorkShape, AllocPCs, ClosePCs
<1>9. RefShape'
  <2> SUFFICES ASSUME NEW f \in Files PROVE ref'[f] = Names(HeldOf(ofile', work'), f) + Extra(f)
    BY DEF RefShape, held, Extra
  <2>1. ref[f] = Names(HeldOf(ofile, work), f) + Extra(f) /\ Extra(f) \in {0, 1} /\ Names(HeldOf(ofile, work), f) \in Nat
    BY FileFacts DEF held
  <2>2. ref'[f] = ref[f] + Copies(ofile[p], f) /\ Copies(ofile[p], f) \in Nat
    BY <1>6
  <2>3. Names(HeldOf(ofile', work'), f) = Names(HeldOf(ofile, work), f) + Copies(ofile[p], f)
    BY <1>1, <1>5
  <2> QED BY <2>1, <2>2, <2>3
<1>10. KindShape'
  <2>1. \A f \in Files : ref'[f] = 0 => ref[f] = 0
    BY <1>6, FileFacts
  <2>2. ASSUME NEW q \in Procs, pc'[q] \in AllocPCs, NEW i \in 1..Len(work'[q])
        PROVE  type'[work'[q][i]] = "none" /\ ref'[work'[q][i]] = 1
    <3>1. pc[q] \in AllocPCs /\ i \in 1..Len(work[q])
      BY <1>1, <1>2, <2>2 DEF AllocPCs
    <3>2. work[q][i] \in Files /\ type[work[q][i]] = "none" /\ ref[work[q][i]] = 1
      BY <3>1, FileFacts DEF FInv, KindShape
    <3>3. \A fd \in FDs : ofile[p][fd] # work[q][i]
      BY <3>1, <3>2, FileFacts
    <3>4. Copies(ofile[p], work[q][i]) = 0
      BY <3>3, FS_EmptySet DEF Copies
    <3> QED BY <1>1, <1>6, <3>2, <3>4
  <2>3. \A q \in Procs, fd \in FDs : ofile'[q][fd] # NoFile => type[ofile'[q][fd]] # "none"
    BY <1>2 DEF FInv, KindShape
  <2> QED BY <1>1, <2>1, <2>2, <2>3 DEF FInv, KindShape
<1>11. EndShape'
  BY <1>1, <1>2, EndKept DEF FInv
<1>12. UserShape'
  <2>1. \A q \in Procs : (pc'[q] = pc[q] /\ ofile'[q] = ofile[q]) \/ pc'[q] \notin ReadPCs \cup WritePCs
    BY <1>2 DEF ReadPCs, WritePCs
  <2> QED BY <1>1, <2>1, UserKept DEF FInv
<1> QED BY <1>7, <1>8, <1>9, <1>10, <1>11, <1>12, FilesAgain

\* exit() before it closes anything.
LEMMA ExitStep ==
  ASSUME FInv, NEW p \in Procs, Exit(p)
  PROVE  FInv'
<1>1. /\ pc[p] = "user" /\ pc' = [pc EXCEPT ![p] = "close"] /\ exiting' = exiting \cup {p}
      /\ UNCHANGED <<ref, type, ofile, page, nread, nwrite, data, readopen, writeopen,
                     lock, killed, n, work, got, unannounced>>
  BY DEF Exit, Goto, pipe
<1>2. /\ \A q \in Procs : pc'[q] = IF q = p THEN "close" ELSE pc[q]
      /\ pc' \in [Procs -> PCs]
  BY <1>1, FileFacts DEF TypeRest, PCs, ClosePCs
<1>3. TypeRest'
  BY <1>1, <1>2, FileFacts DEF TypeRest
<1>4. WorkShape'
  BY <1>1, <1>2 DEF FInv, WorkShape, AllocPCs, ClosePCs
<1>5. RefShape'
  BY <1>1 DEF FInv, RefShape, held, Extra, HeldOf, Names, Naming
<1>6. KindShape'
  BY <1>1, <1>2 DEF FInv, KindShape, AllocPCs
<1>7. EndShape'
  BY <1>1, <1>2, EndKept DEF FInv
<1>8. UserShape'
  <2>1. \A q \in Procs : (pc'[q] = pc[q] /\ ofile'[q] = ofile[q]) \/ pc'[q] \notin ReadPCs \cup WritePCs
    BY <1>1, <1>2 DEF ReadPCs, WritePCs
  <2> QED BY <1>1, <2>1, UserKept DEF FInv
<1> QED BY <1>3, <1>4, <1>5, <1>6, <1>7, <1>8, FilesAgain

\* wait() clears the slot of a zombie that has closed everything.
LEMMA ReapStep ==
  ASSUME FInv, NEW p \in Procs, Reap(p)
  PROVE  FInv'
<1>1. /\ pc[p] = "close" /\ work[p] = <<>> /\ pc' = [pc EXCEPT ![p] = "dead"]
      /\ \A fd \in FDs : ofile[p][fd] = NoFile
      /\ exiting' = exiting \ {p} /\ killed' = killed \ {p}
      /\ UNCHANGED <<ref, type, ofile, page, nread, nwrite, data, readopen, writeopen,
                     lock, n, work, got, unannounced>>
  BY DEF Reap, Goto, pipe, OpenFds
<1>2. /\ \A q \in Procs : pc'[q] = IF q = p THEN "dead" ELSE pc[q]
      /\ pc' \in [Procs -> PCs]
  BY <1>1, FileFacts DEF TypeRest, PCs
<1>3. TypeRest'
  BY <1>1, <1>2, FileFacts DEF TypeRest
<1>4. WorkShape'
  BY <1>1, <1>2 DEF FInv, WorkShape, AllocPCs, ClosePCs
<1>5. RefShape'
  BY <1>1 DEF FInv, RefShape, held, Extra, HeldOf, Names, Naming
<1>6. KindShape'
  BY <1>1, <1>2 DEF FInv, KindShape, AllocPCs
<1>7. EndShape'
  BY <1>1, <1>2, EndKept DEF FInv
<1>8. UserShape'
  <2>1. \A q \in Procs : (pc'[q] = pc[q] /\ ofile'[q] = ofile[q]) \/ pc'[q] \notin ReadPCs \cup WritePCs
    BY <1>1, <1>2 DEF ReadPCs, WritePCs
  <2> QED BY <1>1, <2>1, UserKept DEF FInv
<1> QED BY <1>3, <1>4, <1>5, <1>6, <1>7, <1>8, FilesAgain

\* sys_dup() gives the file a second descriptor and counts it.
LEMMA DupStep ==
  ASSUME FInv, NEW p \in Procs, NEW fd \in FDs, Dup(p, fd)
  PROVE  FInv'
<1> DEFINE d == Least(FreeFds(p))
<1> DEFINE x == ofile[p][fd]
<1>0. d \in FDs /\ ofile[p][d] = NoFile
  <2>1. FreeFds(p) \in SUBSET Nat /\ FreeFds(p) # {}
    BY SizeFacts DEF Dup, FreeFds, FDs
  <2>2. d \in FreeFds(p)
    BY <2>1, LeastFacts
  <2> QED BY <2>2 DEF FreeFds
<1>1. /\ pc[p] = "user" /\ x # NoFile
      /\ ofile' = [ofile EXCEPT ![p][d] = x] /\ ref' = [ref EXCEPT ![x] = ref[x] + 1]
      /\ UNCHANGED <<exiting, type, page, nread, nwrite, data, readopen, writeopen,
                     lock, killed, pc, n, work, got, unannounced>>
  BY DEF Dup, pipe, Running
<1>2. x \in Files /\ type[x] # "none"
  BY <1>1, FileFacts DEF FInv, KindShape
<1> HIDE DEF d, x
<1>3. /\ \A q \in Procs, k \in FDs : ofile'[q][k] = IF q = p /\ k = d THEN x ELSE ofile[q][k]
      /\ \A q \in Procs : q # p => ofile'[q] = ofile[q]
      /\ \A f \in Files : ref'[f] = ref[f] + Same(f, x)
      /\ ofile' \in FdTable /\ ref' \in [Files -> Int]
  <2>1. ofile \in FdTable /\ ref \in [Files -> Int] /\ \A f \in Files : ref[f] \in Int
    BY FileFacts DEF TypeRest
  <2> QED BY <1>0, <1>1, <1>2, <2>1 DEF FdTable, Same
<1>4. TypeRest'
  BY <1>1, <1>3, FileFacts DEF TypeRest, FdTable
<1>5. WorkShape'
  BY <1>1, <1>3 DEF FInv, WorkShape, AllocPCs, ClosePCs
<1>6. RefShape'
  <2> SUFFICES ASSUME NEW f \in Files PROVE ref'[f] = Names(HeldOf(ofile', work'), f) + Extra(f)
    BY DEF RefShape, held, Extra
  <2>1. /\ Names(HeldOf(ofile', work), f) = Names(HeldOf(ofile, work), f) + Same(f, x) - Same(f, ofile[p][d])
        /\ Names(HeldOf(ofile, work), f) \in Nat
    <3>1. ofile \in FdTable /\ work \in InHand /\ ofile' \in FdTable
      BY <1>3, FileFacts
    <3>2. \A q \in Procs, k \in FDs : ofile'[q][k] = IF q = p /\ k = d THEN x ELSE ofile[q][k]
      BY <1>3
    <3>3. d \in FDs
      BY <1>0
    <3> QED BY <3>1, <3>2, <3>3, PutFd
  <2>2. ofile[p][d] = NoFile /\ f # NoFile
    BY <1>0, SizeFacts
  <2>3. ref[f] = Names(HeldOf(ofile, work), f) + Extra(f) /\ Extra(f) \in {0, 1}
    BY FileFacts DEF held
  <2> QED BY <1>1, <1>3, <2>1, <2>2, <2>3 DEF Same
<1>7. KindShape'
  <2>3. \A f \in Files : ref'[f] = 0 => type'[f] = "none"
    BY <1>1, <1>3, FileFacts DEF FInv, KindShape, Same
  <2>4. ASSUME NEW q \in Procs, pc'[q] \in AllocPCs, NEW i \in 1..Len(work'[q])
        PROVE  type'[work'[q][i]] = "none" /\ ref'[work'[q][i]] = 1
    <3>1. pc[q] \in AllocPCs /\ i \in 1..Len(work[q])
      BY <1>1, <2>4
    <3>2. work[q][i] \in Files /\ type[work[q][i]] = "none" /\ ref[work[q][i]] = 1 /\ work[q][i] # x
      BY <3>1, <1>2, FileFacts DEF FInv, KindShape
    <3> QED BY <1>1, <1>3, <3>2 DEF Same
  <2> QED BY <1>1, <1>2, <1>3, <2>3, <2>4 DEF FInv, KindShape
<1>8. EndShape'
  BY <1>1, EndKept DEF FInv
<1>9. UserShape'
  <2>1. \A q \in Procs : (pc'[q] = pc[q] /\ ofile'[q] = ofile[q]) \/ pc'[q] \notin ReadPCs \cup WritePCs
    BY <1>1, <1>3 DEF ReadPCs, WritePCs
  <2> QED BY <1>1, <2>1, UserKept DEF FInv
<1> QED BY <1>4, <1>5, <1>6, <1>7, <1>8, <1>9, FilesAgain

\* What sys_close() and exit() have in common.
Unhook(p, fd) ==
    /\ ofile[p][fd] # NoFile /\ work[p] = <<>>
    /\ pc[p] \in {"user", "close"} /\ pc' = [pc EXCEPT ![p] = "close"]
    /\ ofile' = [ofile EXCEPT ![p][fd] = NoFile]
    /\ work' = [work EXCEPT ![p] = <<ofile[p][fd]>>]
    /\ UNCHANGED <<ref, type, page, nread, nwrite, data, readopen, writeopen,
                   lock, killed, n, exiting, got, unannounced>>

\* A file goes from a descriptor to the hand of the process that closes it.
LEMMA UnhookStep ==
  ASSUME FInv, NEW p \in Procs, NEW fd \in FDs, Unhook(p, fd)
  PROVE  FInv'
<1> DEFINE x == ofile[p][fd]
<1> DEFINE v == <<x>>
<1>1. x \in Files /\ v \in Seq(Files) /\ Len(v) = 1 /\ v[1] = x
  BY FileFacts DEF Unhook
<1> HIDE DEF x, v
<1>2. /\ \A q \in Procs, k \in FDs : ofile'[q][k] = IF q = p /\ k = fd THEN NoFile ELSE ofile[q][k]
      /\ \A q \in Procs : q # p => ofile'[q] = ofile[q]
      /\ \A q \in Procs : pc'[q] = IF q = p THEN "close" ELSE pc[q]
      /\ ofile' \in FdTable /\ pc' \in [Procs -> PCs]
  <2>1. ofile \in FdTable /\ pc \in [Procs -> PCs]
    BY FileFacts DEF TypeRest
  <2> QED BY <2>1 DEF FdTable, PCs, ClosePCs, Unhook
<1>3. /\ \A q \in Procs : work'[q] = IF q = p THEN v ELSE work[q]
      /\ work' \in InHand /\ work' = [q \in Procs |-> work'[q]]
  <2>1. work \in InHand /\ work' = [work EXCEPT ![p] = v]
    BY FileFacts DEF v, x, Unhook
  <2>2. work \in [Procs -> Seq(Files)] /\ \A q \in Procs : Len(work[q]) <= 2
    BY <2>1 DEF InHand
  <2>3. work' \in [Procs -> Seq(Files)] /\ \A q \in Procs : work'[q] = IF q = p THEN v ELSE work[q]
    BY <1>1, <2>1, <2>2
  <2>4. ASSUME NEW q \in Procs PROVE Len(work'[q]) <= 2
    <3>1. CASE q = p
      <4> DEFINE k == Len(work'[q])
      <4>1. k = 1
        BY <1>1, <2>3, <3>1
      <4> HIDE DEF k
      <4>2. k <= 2
        BY <4>1
      <4> QED BY <4>2 DEF k
    <3>2. CASE q # p
      BY <2>2, <2>3, <3>2
    <3> QED BY <3>1, <3>2
  <2> QED BY <2>3, <2>4 DEF InHand
<1>4. TypeRest'
  BY <1>2, <1>3, FileFacts DEF TypeRest, FdTable, InHand, Unhook
<1>5. WorkShape'
  BY <1>1, <1>2, <1>3 DEF FInv, WorkShape, AllocPCs, ClosePCs, Unhook
<1>6. RefShape'
  <2> SUFFICES ASSUME NEW f \in Files PROVE ref'[f] = Names(HeldOf(ofile', work'), f) + Extra(f)
    BY DEF RefShape, held, Extra
  <2>0. ofile \in FdTable /\ work \in InHand
    BY FileFacts
  <2>1. /\ Names(HeldOf(ofile', work), f) = Names(HeldOf(ofile, work), f) + Same(f, NoFile) - Same(f, ofile[p][fd])
        /\ Names(HeldOf(ofile, work), f) \in Nat
    <3>1. ofile' \in FdTable
      BY <1>2
    <3>2. \A q \in Procs, k \in FDs : ofile'[q][k] = IF q = p /\ k = fd THEN NoFile ELSE ofile[q][k]
      BY <1>2
    <3> DEFINE y == NoFile
    <3>3. \A q \in Procs, k \in FDs : ofile'[q][k] = IF q = p /\ k = fd THEN y ELSE ofile[q][k]
      BY <3>2
    <3> HIDE DEF y
    <3>4. Names(HeldOf(ofile', work), f) = Names(HeldOf(ofile, work), f) + Same(f, y) - Same(f, ofile[p][fd])
      BY <2>0, <3>1, <3>3, PutFd
    <3>5. Names(HeldOf(ofile, work), f) \in Nat
      BY FileFacts DEF held
    <3> QED BY <3>4, <3>5 DEF y
  <2>2. Names(HeldOf(ofile', work'), f) = Names(HeldOf(ofile', work), f) + Occurs(v, f) - Occurs(work[p], f)
    <3>1. ofile' \in FdTable /\ work' \in InHand /\ v \in Seq(Files) /\ Len(v) <= 2
      BY <1>1, <1>2, <1>3
    <3>2. \A q \in Procs : work'[q] = IF q = p THEN v ELSE work[q]
      BY <1>3
    <3> QED BY <2>0, <3>1, <3>2, PutWork
  <2>3. Same(f, NoFile) = 0 /\ Same(f, ofile[p][fd]) = Same(f, x) /\ Same(f, x) \in {0, 1}
    BY SizeFacts DEF Same, x
  <2>4. Occurs(v, f) = Same(f, x) /\ Occurs(work[p], f) = 0
    BY <1>1 DEF Occurs, Same, Unhook
  <2>5. ref'[f] = Names(HeldOf(ofile, work), f) + Extra(f) /\ Extra(f) \in {0, 1}
    BY FileFacts DEF held, Unhook
  <2> QED BY <2>1, <2>2, <2>3, <2>4, <2>5
<1>7. KindShape'
  <2>1. ASSUME NEW q \in Procs, pc'[q] \in AllocPCs, NEW i \in 1..Len(work'[q])
        PROVE  type'[work'[q][i]] = "none" /\ ref'[work'[q][i]] = 1
    <3>1. q # p /\ pc[q] \in AllocPCs /\ work'[q] = work[q]
      BY <1>2, <1>3, <2>1 DEF AllocPCs
    <3> QED BY <2>1, <3>1 DEF FInv, KindShape, Unhook
  <2> QED BY <1>2, <2>1 DEF FInv, KindShape, Unhook
<1>8. EndShape'
  BY <1>2, EndKept DEF FInv, Unhook
<1>9. UserShape'
  <2>1. \A q \in Procs : (pc'[q] = pc[q] /\ ofile'[q] = ofile[q]) \/ pc'[q] \notin ReadPCs \cup WritePCs
    BY <1>2 DEF ReadPCs, WritePCs
  <2> QED BY <2>1, UserKept DEF FInv, Unhook
<1> QED BY <1>4, <1>5, <1>6, <1>7, <1>8, <1>9, FilesAgain

\* sys_close(), and one turn of exit()'s loop.
LEMMA CloseSteps ==
  ASSUME FInv, NEW p \in Procs, (\E fd \in FDs : Close(p, fd)) \/ ExitCloses(p)
  PROVE  FInv'
<1>1. ASSUME NEW fd \in FDs, Close(p, fd) PROVE FInv'
  <2>1. pc[p] = "user"
    BY <1>1 DEF Close, Running
  <2>2. work[p] = <<>>
    BY <2>1 DEF FInv, WorkShape, AllocPCs, ClosePCs
  <2> QED BY <1>1, <2>1, <2>2, UnhookStep DEF Close, Goto, pipe, Unhook
<1>2. CASE ExitCloses(p)
  <2> DEFINE fd == Least(OpenFds(p))
  <2>1. fd \in FDs /\ ofile[p][fd] # NoFile
    <3>1. OpenFds(p) \in SUBSET Nat /\ OpenFds(p) # {}
      BY <1>2, SizeFacts DEF ExitCloses, OpenFds, FDs
    <3>2. fd \in OpenFds(p)
      BY <3>1, LeastFacts
    <3> QED BY <3>2 DEF OpenFds
  <2>2. pc[p] = "close" /\ work[p] = <<>>
    BY <1>2 DEF ExitCloses
  <2>3. pc' = [pc EXCEPT ![p] = "close"]
    <3>1. pc \in [Procs -> PCs] /\ pc' = pc
      BY <1>2, FileFacts DEF TypeRest, ExitCloses
    <3> QED BY <2>2, <3>1
  <2>4. /\ ofile' = [ofile EXCEPT ![p][fd] = NoFile] /\ work' = [work EXCEPT ![p] = <<ofile[p][fd]>>]
        /\ UNCHANGED <<ref, type, page, nread, nwrite, data, readopen, writeopen,
                       lock, killed, n, exiting, got, unannounced>>
    BY <1>2 DEF ExitCloses, pipe
  <2> HIDE DEF fd
  <2> QED BY <2>1, <2>2, <2>3, <2>4, UnhookStep DEF Unhook
<1> QED BY <1>1, <1>2

\* Files in hand, one shifted out or one added.
LEMMA HandFacts ==
  ASSUME NEW v \in Seq(Files)
  PROVE  /\ Len(v) \in {1, 2} =>
               /\ Head(v) = v[1] /\ v[1] \in Files /\ Tail(v) \in Seq(Files) /\ Len(Tail(v)) \in {0, 1}
               /\ Len(Tail(v)) = 0 => Tail(v) = <<>>
               /\ \A x \in Files : Occurs(Tail(v), x) = Occurs(v, x) - Same(x, v[1])
         /\ Len(v) \in {0, 1} => \A f \in Files :
               /\ Append(v, f) \in Seq(Files) /\ Len(Append(v, f)) = Len(v) + 1
               /\ Append(v, f)[Len(v) + 1] = f
               /\ \A i \in 1..Len(v) : Append(v, f)[i] = v[i]
               /\ \A x \in Files : Occurs(Append(v, f), x) = Occurs(v, x) + Same(x, f)
<1>1. CASE Len(v) = 1
  <2> DEFINE t == Tail(v)
  <2>0. v # <<>>
    BY <1>1
  <2>6. Head(v) = v[1] /\ v[1] \in Files /\ t \in Seq(Files) /\ Len(t) = 0
    BY <1>1, <2>0
  <2> HIDE DEF t
  <2>7. t = <<>>
    BY <2>6
  <2>1. Head(v) = v[1] /\ v[1] \in Files /\ Tail(v) \in Seq(Files) /\ Len(Tail(v)) = 0 /\ Tail(v) = <<>>
    BY <2>6, <2>7 DEF t
  <2>8. \A x \in Files : Occurs(t, x) = Occurs(v, x) - Same(x, v[1])
    BY <1>1, <2>6 DEF Occurs, Same
  <2>2. \A x \in Files : Occurs(Tail(v), x) = Occurs(v, x) - Same(x, v[1])
    BY <2>8 DEF t
  <2>3. ASSUME NEW f \in Files
        PROVE  /\ Append(v, f) \in Seq(Files) /\ Len(Append(v, f)) = 2
               /\ Append(v, f)[2] = f /\ Append(v, f)[1] = v[1]
    BY <1>1
  <2>4. \A f \in Files, x \in Files : Occurs(Append(v, f), x) = Occurs(v, x) + Same(x, f)
    BY <1>1, <2>3 DEF Occurs, Same
  <2>5. \A i \in 1..Len(v) : i = 1
    BY <1>1
  <2> QED BY <1>1, <2>1, <2>2, <2>3, <2>4, <2>5
<1>2. CASE Len(v) = 2
  <2>1. /\ Head(v) = v[1] /\ v[1] \in Files /\ Tail(v) \in Seq(Files) /\ Len(Tail(v)) = 1 /\ Tail(v)[1] = v[2]
    BY <1>2
  <2> DEFINE t == Tail(v)
  <2>3. Len(t) = 1 /\ t[1] = v[2]
    BY <2>1
  <2> HIDE DEF t
  <2>4. \A x \in Files : Occurs(t, x) = Occurs(v, x) - Same(x, v[1])
    BY <1>2, <2>3 DEF Occurs, Same
  <2>2. \A x \in Files : Occurs(Tail(v), x) = Occurs(v, x) - Same(x, v[1])
    BY <2>4 DEF t
  <2> QED BY <1>2, <2>1, <2>2
<1>3. CASE Len(v) = 0
  <2>3. ASSUME NEW f \in Files
        PROVE  Append(v, f) \in Seq(Files) /\ Len(Append(v, f)) = 1 /\ Append(v, f)[1] = f
    BY <1>3
  <2>4. \A f \in Files, x \in Files : Occurs(Append(v, f), x) = Occurs(v, x) + Same(x, f)
    BY <1>3, <2>3 DEF Occurs, Same
  <2> QED BY <1>3, <2>3, <2>4
<1> QED BY <1>1, <1>2, <1>3

\* Changing what one process has in hand.
LEMMA HandAgain ==
  ASSUME NEW w \in InHand, NEW p \in Procs, NEW v \in Seq(Files), Len(v) \in {0, 1, 2},
         NEW u, u = [q \in Procs |-> u[q]], \A q \in Procs : u[q] = IF q = p THEN v ELSE w[q]
  PROVE  u \in InHand
<1>1. w \in [Procs -> Seq(Files)] /\ \A q \in Procs : Len(w[q]) <= 2
  BY DEF InHand
<1>2. u \in [Procs -> Seq(Files)]
  <2>1. \A q \in Procs : u[q] \in Seq(Files)
    BY <1>1
  <2> QED BY <2>1
<1> DEFINE k == Len(v)
<1>3. k \in {0, 1, 2}
  OBVIOUS
<1> HIDE DEF k
<1>4. k <= 2
  BY <1>3
<1>5. \A q \in Procs : Len(u[q]) <= 2
  BY <1>1, <1>2, <1>4 DEF k
<1> QED BY <1>2, <1>5 DEF InHand

\* A system call or a wakeup that leaves the files alone; a process with a file
\* in hand stays where it may close it.
Passes(q) ==
    \/ pc'[q] = pc[q]
    \/ /\ pc'[q] \notin {"dead"} \cup AllocPCs
       /\ work[q] # <<>> \/ q \in exiting => pc'[q] \in ClosePCs
       /\ pc'[q] \in ReadPCs => Holds(q, "read")
       /\ pc'[q] \in WritePCs => Holds(q, "write")

\* Such steps keep the files as they are counted, named and typed.
LEMMA FilesKept ==
  ASSUME FInv, UNCHANGED <<ref, type, ofile, work, exiting>>, got' = [p \in Procs |-> got'[p]],
         \A q \in Procs : Passes(q)
  PROVE  WorkShape' /\ RefShape' /\ KindShape' /\ UserShape'
<1>1. RefShape'
  BY DEF FInv, RefShape, held, Extra, HeldOf, Names, Naming
<1>2. WorkShape'
  BY DEF FInv, WorkShape, AllocPCs, ClosePCs, Passes
<1>3. KindShape'
  BY DEF FInv, KindShape, AllocPCs, Passes
<1>4. UserShape'
  <2>1. \A q \in Procs : Holds(q, "read")' = Holds(q, "read") /\ Holds(q, "write")' = Holds(q, "write")
    BY DEF Holds
  <2> QED BY <2>1 DEF FInv, UserShape, Passes
<1> QED BY <1>1, <1>2, <1>3, <1>4

\* fileclose(): one reference less, and with the last one the file is free.
LEMMA FileCloseStep ==
  ASSUME FInv, NEW p \in Procs, FileClose(p)
  PROVE  FInv'
<1> DEFINE v == work[p]
<1> DEFINE f == Head(v)
<1> DEFINE label == IF ref[f] > 1 \/ type[f] = "none" THEN "close"
                    ELSE IF type[f] = "read" THEN "close_read" ELSE "close_write"
<1>1. /\ pc[p] = "close" /\ v # <<>>
      /\ ref' = [ref EXCEPT ![f] = ref[f] - 1]
      /\ work' = [work EXCEPT ![p] = Tail(v)]
      /\ type' = IF ref[f] > 1 THEN type ELSE [type EXCEPT ![f] = "none"]
      /\ pc' = [pc EXCEPT ![p] = label]
      /\ UNCHANGED <<exiting, ofile, page, nread, nwrite, data, readopen, writeopen,
                     lock, killed, n, got, unannounced>>
  <2>1. work[p] = v /\ work = [q \in Procs |-> work[q]]
    BY Shapes
  <2> QED BY <2>1 DEF FileClose, Goto, pipe
<1>2. v \in Seq(Files) /\ Len(v) \in {1, 2}
  BY <1>1, Shapes
<1>3. /\ f = v[1] /\ f \in Files /\ Tail(v) \in Seq(Files) /\ Len(Tail(v)) \in {0, 1}
      /\ Len(Tail(v)) = 0 => Tail(v) = <<>>
      /\ \A x \in Files : Occurs(Tail(v), x) = Occurs(v, x) - Same(x, f)
  BY <1>2, HandFacts
<1>4. 1 \in 1..Len(v)
  BY <1>2
<1> DEFINE t == Tail(v)
<1> HIDE DEF f, t
<1>5. /\ ref[f] \in Nat /\ ref[f] >= 1 /\ (f = Console => ref[f] >= 2)
      /\ \A q \in Procs, fd \in FDs : ofile[q][fd] = f => ref[f] >= 2
      /\ \A q \in Procs : q # p => \A i \in 1..Len(work[q]) : work[q][i] = f => ref[f] >= 2
  <2>1. work[p][1] = f
    BY <1>3
  <2>2. f \in Files
    BY <1>3
  <2>3. ref[f] \in Nat
    BY <2>2, FileFacts
  <2>4. ref[f] >= 1 /\ (f = Console => ref[f] >= 2)
    BY <1>4, <2>1, FileFacts
  <2>5. \A q \in Procs, fd \in FDs : ofile[q][fd] = f => ref[f] >= 2
    BY <1>4, <2>1, FileFacts
  <2>6. \A q \in Procs : q # p => \A i \in 1..Len(work[q]) : work[q][i] = f => ref[f] >= 2
    BY <1>4, <2>1, FileFacts
  <2> QED BY <2>3, <2>4, <2>5, <2>6
<1>6. work' \in InHand /\ work' = [q \in Procs |-> work'[q]] /\ \A q \in Procs : work'[q] = IF q = p THEN t ELSE work[q]
  <2>1. work \in InHand /\ t \in Seq(Files) /\ Len(t) \in {0, 1, 2} /\ work' = [work EXCEPT ![p] = t]
    BY <1>1, <1>3, FileFacts DEF t
  <2>2. work' = [q \in Procs |-> work'[q]] /\ \A q \in Procs : work'[q] = IF q = p THEN t ELSE work[q]
    BY <2>1 DEF InHand
  <2> HIDE DEF v
  <2>3. work \in InHand /\ t \in Seq(Files) /\ Len(t) \in {0, 1, 2}
    BY <2>1
  <2>4. work' \in InHand
    BY <2>2, <2>3, HandAgain
  <2> QED BY <2>2, <2>4
<1>7. /\ \A x \in Files : ref'[x] = ref[x] - Same(x, f)
      /\ \A x \in Files : type'[x] = IF x = f /\ ~(ref[f] > 1) THEN "none" ELSE type[x]
      /\ \A q \in Procs : pc'[q] = IF q = p THEN label ELSE pc[q]
      /\ ref' \in [Files -> Int] /\ pc' \in [Procs -> PCs]
      /\ type' \in [Files -> {"none", "inode", "read", "write"}]
  <2>1. /\ ref \in [Files -> Int] /\ pc \in [Procs -> PCs] /\ \A x \in Files : ref[x] \in Int
        /\ type \in [Files -> {"none", "inode", "read", "write"}]
    BY FileFacts DEF TypeRest
  <2>2. label \in ClosePCs /\ label \in PCs
    BY DEF ClosePCs, PCs
  <2> HIDE DEF label
  <2>3. \A x \in Files : ref'[x] = ref[x] - Same(x, f)
    BY <1>1, <1>3, <2>1 DEF Same
  <2>4. /\ \A x \in Files : type'[x] = IF x = f /\ ~(ref[f] > 1) THEN "none" ELSE type[x]
        /\ type' \in [Files -> {"none", "inode", "read", "write"}]
    BY <1>1, <1>3, <2>1
  <2>5. ref' \in [Files -> Int]
    BY <1>1, <1>3, <2>1
  <2> QED BY <1>1, <2>1, <2>2, <2>3, <2>4, <2>5
<1>8. TypeRest'
  BY <1>1, <1>6, <1>7, FileFacts DEF TypeRest, InHand
<1>9. WorkShape'
  <2>1. label \in ClosePCs /\ label \notin AllocPCs \cup {"dead"}
    BY DEF ClosePCs, AllocPCs
  <2>2. Len(t) <= 2 /\ Len(t) # 2
    <3> DEFINE k == Len(t)
    <3>1. k \in {0, 1}
      BY <1>3 DEF t
    <3> HIDE DEF k
    <3>2. k <= 2 /\ k # 2
      BY <3>1
    <3> QED BY <3>2 DEF k
  <2> HIDE DEF label
  <2>3. ASSUME NEW q \in Procs
        PROVE  /\ Len(work'[q]) <= 2 /\ (Len(work'[q]) = 2 => work'[q][1] # work'[q][2])
               /\ pc'[q] = "alloc1" => Len(work'[q]) = 1
               /\ pc'[q] = "alloc_page" => Len(work'[q]) = 2
               /\ pc'[q] \notin AllocPCs \cup ClosePCs => work'[q] = <<>>
               /\ pc'[q] = "dead" => \A fd \in FDs : ofile'[q][fd] = NoFile
               /\ q \in exiting' => pc'[q] \in ClosePCs
    <3>1. CASE q = p
      <4>1. work'[q] = t /\ pc'[q] = label
        BY <1>6, <1>7, <3>1
      <4> QED BY <2>1, <2>2, <4>1 DEF AllocPCs
    <3>2. CASE q # p
      <4>1. work'[q] = work[q] /\ pc'[q] = pc[q] /\ ofile' = ofile /\ exiting' = exiting
        BY <1>1, <1>6, <1>7, <3>2
      <4> QED BY <4>1 DEF FInv, WorkShape
    <3> QED BY <3>1, <3>2
  <2>4. work' = [q \in Procs |-> work'[q]] /\ got' = [q \in Procs |-> got'[q]]
    BY <1>1, <1>6, Shapes
  <2> QED BY <2>3, <2>4 DEF WorkShape
<1>10. RefShape'
  <2> SUFFICES ASSUME NEW x \in Files PROVE ref'[x] = Names(HeldOf(ofile', work'), x) + Extra(x)
    BY DEF RefShape, held, Extra
  <2>1. ofile \in FdTable /\ work \in InHand /\ t \in Seq(Files) /\ Len(t) <= 2
    <3> DEFINE k == Len(t)
    <3>1. k \in {0, 1}
      BY <1>3 DEF t
    <3> HIDE DEF k
    <3>2. k <= 2
      BY <3>1
    <3>3. Len(t) <= 2
      BY <3>2 DEF k
    <3> QED BY <1>3, <3>3, FileFacts DEF t
  <2>2. work' \in InHand
    BY <1>6
  <2>3. \A q \in Procs : work'[q] = IF q = p THEN t ELSE work[q]
    BY <1>6
  <2>4. /\ Names(HeldOf(ofile, work'), x) = Names(HeldOf(ofile, work), x) + Occurs(t, x) - Occurs(work[p], x)
        /\ Occurs(t, x) \in Nat /\ Occurs(work[p], x) \in Nat /\ Names(HeldOf(ofile, work), x) \in Nat
    BY <2>1, <2>2, <2>3, PutWork
  <2>5. Occurs(t, x) = Occurs(work[p], x) - Same(x, f) /\ Same(x, f) \in {0, 1}
    BY <1>3 DEF t, Same
  <2>6. ref[x] = Names(HeldOf(ofile, work), x) + Extra(x) /\ Extra(x) \in {0, 1}
    BY FileFacts DEF held
  <2>7. ref'[x] = ref[x] - Same(x, f) /\ ofile' = ofile
    BY <1>1, <1>7
  <2> QED BY <2>4, <2>5, <2>6, <2>7
<1>11. KindShape'
  <2>1. \A x \in Files : type'[x] = "inode" <=> x = Console
    BY <1>5, <1>7 DEF FInv, KindShape
  <2>2. \A x \in Files : ref'[x] = 0 => type'[x] = "none"
    BY <1>5, <1>7, FileFacts DEF FInv, KindShape, Same
  <2>3. ASSUME NEW q \in Procs, NEW fd \in FDs, ofile'[q][fd] # NoFile PROVE type'[ofile'[q][fd]] # "none"
    <3>1. ofile[q][fd] \in Files /\ type[ofile[q][fd]] # "none"
      BY <1>1, <2>3, FileFacts DEF FInv, KindShape
    <3> QED BY <1>1, <1>5, <1>7, <3>1
  <2>4. ASSUME NEW q \in Procs, pc'[q] \in AllocPCs, NEW i \in 1..Len(work'[q])
        PROVE  type'[work'[q][i]] = "none" /\ ref'[work'[q][i]] = 1
    <3>1. q # p /\ pc[q] \in AllocPCs /\ work'[q] = work[q]
      BY <1>6, <1>7, <2>4 DEF AllocPCs
    <3>2. work[q][i] \in Files /\ type[work[q][i]] = "none" /\ ref[work[q][i]] = 1 /\ work[q][i] # f
      <4>1. work[q][i] \in Files /\ type[work[q][i]] = "none" /\ ref[work[q][i]] = 1
        BY <2>4, <3>1, FileFacts DEF FInv, KindShape
      <4>2. work[q][i] = f => ref[f] >= 2
        BY <1>5, <2>4, <3>1
      <4> QED BY <4>1, <4>2
    <3> QED BY <1>7, <3>1, <3>2 DEF Same
  <2> QED BY <2>1, <2>2, <2>3, <2>4 DEF KindShape
<1>12. EndShape'
  <2>1. CASE label = "close"
    <3>1. \A x \in Files : type'[x] = type[x]
      BY <1>5, <1>7, <2>1
    <3>2. type \in [Files -> {"none", "inode", "read", "write"}] /\ type' \in [Files -> {"none", "inode", "read", "write"}]
      BY <1>7, FileFacts DEF TypeRest
    <3>3. type' = type
      BY <3>1, <3>2
    <3>4. \A q \in Procs : pc'[q] = pc[q]
      BY <1>1, <1>7, <2>1
    <3> QED BY <1>1, <3>3, <3>4, EndKept DEF FInv
  <2>2. CASE label # "close"
    <3>1. ~(ref[f] > 1) /\ f # Console
      BY <1>5, <2>2
    <3>2. \/ type[f] = "read" /\ label = "close_read"
          \/ type[f] = "write" /\ label = "close_write"
      <4>1. type[f] \in {"none", "read", "write", "inode"} /\ type[f] # "inode"
        BY <1>3, <3>1, FileFacts DEF TypeRest, FInv, KindShape
      <4> QED BY <2>2, <4>1
    <3>3. \A x \in Files : type'[x] = IF x = f THEN "none" ELSE type[x]
      BY <1>7, <3>1
    <3> HIDE DEF label
    <3>4. CASE type[f] = "read" /\ label = "close_read"
      BY <1>1, <1>3, <1>7, <3>3, <3>4 DEF FInv, EndShape
    <3>5. CASE type[f] = "write" /\ label = "close_write"
      BY <1>1, <1>3, <1>7, <3>3, <3>5 DEF FInv, EndShape
    <3> QED BY <3>2, <3>4, <3>5
  <2> QED BY <2>1, <2>2
<1>13. UserShape'
  <2>1. ASSUME NEW q \in Procs, NEW kind \in {"read", "write"}, Holds(q, kind) PROVE Holds(q, kind)'
    <3>1. PICK fd \in FDs : ofile[q][fd] # NoFile /\ type[ofile[q][fd]] = kind
      BY <2>1 DEF Holds
    <3>2. ofile[q][fd] \in Files
      BY <3>1, FileFacts
    <3>3. type'[ofile[q][fd]] = kind
      BY <1>5, <1>7, <3>1, <3>2
    <3> QED BY <1>1, <3>1, <3>3 DEF Holds
  <2>2. label \notin ReadPCs \cup WritePCs
    BY DEF ReadPCs, WritePCs
  <2> HIDE DEF label
  <2> QED BY <1>7, <2>1, <2>2 DEF FInv, UserShape
<1> QED BY <1>8, <1>9, <1>10, <1>11, <1>12, <1>13, FilesAgain

\* What the two filealloc() of pipealloc() have in common.
TakeFile(p, f, from, to) ==
    /\ f \in Files /\ ref[f] = 0 /\ pc[p] = from
    /\ (from = "user" /\ to = "alloc1") \/ (from = "alloc1" /\ to = "alloc_page")
    /\ ref' = [ref EXCEPT ![f] = 1]
    /\ work' = [work EXCEPT ![p] = Append(work[p], f)]
    /\ pc' = [pc EXCEPT ![p] = to]
    /\ UNCHANGED <<exiting, type, ofile, page, nread, nwrite, data, readopen, writeopen,
                   lock, killed, n, got, unannounced>>

\* filealloc() hands out a file that nobody names.
LEMMA TakeStep ==
  ASSUME FInv, NEW p \in Procs, NEW f, NEW from, NEW to, TakeFile(p, f, from, to)
  PROVE  FInv'
<1> DEFINE w == work[p]
<1> DEFINE v == Append(w, f)
<1>1. f \in Files /\ ref[f] = 0 /\ pc[p] = from /\ to \in AllocPCs /\ to \in PCs
  BY DEF TakeFile, AllocPCs, PCs
<1>2. w \in Seq(Files) /\ (from = "user" => w = <<>>) /\ (from = "alloc1" => Len(w) = 1)
  BY <1>1, Shapes DEF FInv, WorkShape, AllocPCs, ClosePCs
<1>3. \/ from = "user" /\ to = "alloc1" /\ Len(w) = 0
      \/ from = "alloc1" /\ to = "alloc_page" /\ Len(w) = 1
  BY <1>2 DEF TakeFile
<1> HIDE DEF w
<1>4. /\ v \in Seq(Files) /\ Len(v) = Len(w) + 1 /\ v[Len(w) + 1] = f
      /\ \A i \in 1..Len(w) : v[i] = w[i]
      /\ \A x \in Files : Occurs(v, x) = Occurs(w, x) + Same(x, f)
  BY <1>1, <1>2, <1>3, HandFacts
<1> HIDE DEF v
<1>5. Len(v) \in {1, 2} /\ (to = "alloc1" => Len(v) = 1) /\ (to = "alloc_page" => Len(v) = 2) /\ Len(v) <= 2
  <2>1. CASE from = "user" /\ to = "alloc1" /\ Len(w) = 0
    <3> DEFINE k == Len(v)
    <3>1. k = 1
      BY <1>4, <2>1
    <3> HIDE DEF k
    <3>2. k \in {1, 2} /\ k <= 2 /\ k = 1
      BY <3>1
    <3> QED BY <2>1, <3>2 DEF k
  <2>2. CASE from = "alloc1" /\ to = "alloc_page" /\ Len(w) = 1
    <3> DEFINE k == Len(v)
    <3>1. k = 2
      BY <1>4, <2>2
    <3> HIDE DEF k
    <3>2. k \in {1, 2} /\ k <= 2 /\ k = 2
      BY <3>1
    <3> QED BY <2>2, <3>2 DEF k
  <2> QED BY <1>3, <2>1, <2>2
<1>6. \A q \in Procs : \A i \in 1..Len(work[q]) : work[q][i] # f
  BY <1>1, FileFacts
<1>7. Len(v) = 2 => v[1] # v[2]
  <2> SUFFICES ASSUME Len(v) = 2 PROVE v[1] # v[2]
    OBVIOUS
  <2>1. Len(w) = 1
    BY <1>3, <1>4
  <2>2. v[2] = f /\ v[1] = w[1]
    BY <1>4, <2>1
  <2>3. w[1] # f
    BY <1>6, <2>1 DEF w
  <2> QED BY <2>2, <2>3
<1>8. /\ work' = [q \in Procs |-> work'[q]] /\ \A q \in Procs : work'[q] = IF q = p THEN v ELSE work[q]
      /\ \A q \in Procs : pc'[q] = IF q = p THEN to ELSE pc[q]
      /\ \A x \in Files : ref'[x] = ref[x] + Same(x, f)
      /\ ref' \in [Files -> Int] /\ pc' \in [Procs -> PCs]
  <2>1. /\ ref \in [Files -> Int] /\ pc \in [Procs -> PCs] /\ \A x \in Files : ref[x] \in Int
        /\ work = [q \in Procs |-> work[q]]
    BY FileFacts, Shapes DEF TypeRest
  <2>2. ref' = [ref EXCEPT ![f] = 1] /\ pc' = [pc EXCEPT ![p] = to] /\ work' = [work EXCEPT ![p] = v]
    BY DEF TakeFile, v, w
  <2> QED BY <1>1, <2>1, <2>2 DEF Same
<1>9. work' \in InHand
  <2>1. work \in InHand /\ v \in Seq(Files) /\ Len(v) \in {0, 1, 2}
    BY <1>4, <1>5, FileFacts
  <2>2. work' = [q \in Procs |-> work'[q]] /\ \A q \in Procs : work'[q] = IF q = p THEN v ELSE work[q]
    BY <1>8
  <2> QED BY <2>1, <2>2, HandAgain
<1>10. UNCHANGED <<exiting, type, ofile, page, nread, nwrite, data, readopen, writeopen,
                   lock, killed, n, got, unannounced>>
  BY DEF TakeFile
<1>11. TypeRest'
  BY <1>8, <1>9, <1>10, FileFacts DEF TypeRest, InHand
<1>12. WorkShape'
  <2>0. p \notin exiting /\ to # "dead"
    BY <1>1, <1>3 DEF FInv, WorkShape, ClosePCs
  <2>1. ASSUME NEW q \in Procs
        PROVE  /\ Len(work'[q]) <= 2 /\ (Len(work'[q]) = 2 => work'[q][1] # work'[q][2])
               /\ pc'[q] = "alloc1" => Len(work'[q]) = 1
               /\ pc'[q] = "alloc_page" => Len(work'[q]) = 2
               /\ pc'[q] \notin AllocPCs \cup ClosePCs => work'[q] = <<>>
               /\ pc'[q] = "dead" => \A fd \in FDs : ofile'[q][fd] = NoFile
               /\ q \in exiting' => pc'[q] \in ClosePCs
    <3>1. CASE q = p
      <4>1. work'[q] = v /\ pc'[q] = to /\ exiting' = exiting
        BY <1>8, <1>10, <3>1
      <4> QED BY <1>1, <1>5, <1>7, <2>0, <3>1, <4>1
    <3>2. CASE q # p
      <4>1. work'[q] = work[q] /\ pc'[q] = pc[q] /\ ofile' = ofile /\ exiting' = exiting
        BY <1>8, <1>10, <3>2
      <4> QED BY <4>1 DEF FInv, WorkShape
    <3> QED BY <3>1, <3>2
  <2>2. work' = [q \in Procs |-> work'[q]] /\ got' = [q \in Procs |-> got'[q]]
    BY <1>8, <1>10, Shapes
  <2> QED BY <2>1, <2>2 DEF WorkShape
<1>13. RefShape'
  <2> SUFFICES ASSUME NEW x \in Files PROVE ref'[x] = Names(HeldOf(ofile', work'), x) + Extra(x)
    BY DEF RefShape, held, Extra
  <2>1. ofile \in FdTable /\ work \in InHand
    BY FileFacts
  <2>3. \A q \in Procs : work'[q] = IF q = p THEN v ELSE work[q]
    BY <1>8
  <2>4. /\ Names(HeldOf(ofile, work'), x) = Names(HeldOf(ofile, work), x) + Occurs(v, x) - Occurs(work[p], x)
        /\ Occurs(v, x) \in Nat /\ Occurs(work[p], x) \in Nat /\ Names(HeldOf(ofile, work), x) \in Nat
    <3>1. v \in Seq(Files) /\ Len(v) <= 2
      BY <1>4, <1>5
    <3> QED BY <1>9, <2>1, <2>3, <3>1, PutWork
  <2>5. Occurs(v, x) = Occurs(work[p], x) + Same(x, f) /\ Same(x, f) \in {0, 1}
    BY <1>4 DEF w, Same
  <2>6. ref[x] = Names(HeldOf(ofile, work), x) + Extra(x) /\ Extra(x) \in {0, 1}
    BY FileFacts DEF held
  <2>7. ref'[x] = ref[x] + Same(x, f) /\ ofile' = ofile
    BY <1>8, <1>10
  <2> QED BY <2>4, <2>5, <2>6, <2>7
<1>14. KindShape'
  <2>1. type[f] = "none"
    BY <1>1 DEF FInv, KindShape
  <2>2. \A x \in Files : ref'[x] = 0 => type'[x] = "none"
    BY <1>1, <1>8, <1>10, FileFacts DEF FInv, KindShape, Same
  <2>3. ASSUME NEW q \in Procs, pc[q] \in AllocPCs, NEW i \in 1..Len(work[q])
        PROVE  type[work[q][i]] = "none" /\ ref'[work[q][i]] = 1
    <3>1. work[q][i] \in Files /\ type[work[q][i]] = "none" /\ ref[work[q][i]] = 1 /\ work[q][i] # f
      BY <2>3, <1>6, FileFacts DEF FInv, KindShape
    <3> QED BY <1>8, <3>1 DEF Same
  <2>4. ref'[f] = 1
    BY <1>1, <1>8 DEF Same
  <2>5. ASSUME NEW i \in 1..Len(v) PROVE type[v[i]] = "none" /\ ref'[v[i]] = 1
    <3>1. CASE from = "user" /\ to = "alloc1" /\ Len(w) = 0
      <4>1. Len(v) = 1 /\ v[1] = f
        BY <1>4, <3>1
      <4>2. i = 1
        BY <4>1
      <4> QED BY <2>1, <2>4, <4>1, <4>2
    <3>2. CASE from = "alloc1" /\ to = "alloc_page" /\ Len(w) = 1
      <4>1. Len(v) = 2 /\ v[2] = f /\ v[1] = w[1]
        BY <1>4, <3>2
      <4>2. i = 1 \/ i = 2
        BY <4>1
      <4>3. 1 \in 1..Len(work[p]) /\ pc[p] \in AllocPCs
        BY <1>1, <3>2 DEF w, AllocPCs
      <4>4. type[w[1]] = "none" /\ ref'[w[1]] = 1
        BY <2>3, <4>3 DEF w
      <4> QED BY <2>1, <2>4, <4>1, <4>2, <4>4
    <3> QED BY <1>3, <3>1, <3>2
  <2>6. ASSUME NEW q \in Procs, pc'[q] \in AllocPCs, NEW i \in 1..Len(work'[q])
        PROVE  type'[work'[q][i]] = "none" /\ ref'[work'[q][i]] = 1
    <3>1. CASE q = p
      BY <1>8, <1>10, <2>5, <2>6, <3>1
    <3>2. CASE q # p
      <4>1. work'[q] = work[q] /\ pc'[q] = pc[q] /\ type' = type
        BY <1>8, <1>10, <3>2
      <4> QED BY <2>3, <2>6, <4>1
    <3> QED BY <3>1, <3>2
  <2> QED BY <1>10, <2>2, <2>6 DEF FInv, KindShape
<1>15. EndShape'
  <2>1. \A q \in Procs : \/ pc'[q] = pc[q]
                         \/ {pc[q], pc'[q]} \cap {"close_read", "close_write", "kfree"} = {}
    <3>1. {from, to} \cap {"close_read", "close_write", "kfree"} = {}
      BY <1>3
    <3> QED BY <1>1, <1>8, <3>1
  <2> QED BY <1>10, <2>1, EndKept DEF FInv
<1>16. UserShape'
  <2>1. \A q \in Procs : (pc'[q] = pc[q] /\ ofile'[q] = ofile[q]) \/ pc'[q] \notin ReadPCs \cup WritePCs
    BY <1>1, <1>8, <1>10 DEF ReadPCs, WritePCs, AllocPCs
  <2> QED BY <1>10, <2>1, UserKept DEF FInv
<1> QED BY <1>11, <1>12, <1>13, <1>14, <1>15, <1>16, FilesAgain

\* The two filealloc() of pipealloc().
LEMMA PipeAllocSteps ==
  ASSUME FInv, NEW p \in Procs, PipeAlloc0(p) \/ PipeAlloc1(p)
  PROVE  FInv'
<1> DEFINE f == Least(FreeFiles)
<1>1. f \in Files /\ ref[f] = 0
  <2>1. FreeFiles \in SUBSET Nat /\ FreeFiles # {}
    BY SizeFacts DEF PipeAlloc0, PipeAlloc1, FreeFiles, Files
  <2>2. f \in FreeFiles
    BY <2>1, LeastFacts
  <2> QED BY <2>2 DEF FreeFiles
<1>2. CASE PipeAlloc0(p)
  <2>1. pc[p] = "user"
    BY <1>2 DEF PipeAlloc0, Running
  <2>2. work[p] = <<>>
    BY <2>1 DEF FInv, WorkShape, AllocPCs, ClosePCs
  <2> DEFINE v == Append(work[p], f)
  <2> DEFINE u == <<f>>
  <2>3. v = u
    BY <2>2
  <2>4. ref' = [ref EXCEPT ![f] = 1] /\ work' = [work EXCEPT ![p] = <<f>>] /\ pc' = [pc EXCEPT ![p] = "alloc1"]
    BY <1>2 DEF PipeAlloc0, FileAlloc, Goto
  <2>7. work' = [work EXCEPT ![p] = u]
    BY <2>4
  <2> HIDE DEF v, u
  <2>8. work' = [work EXCEPT ![p] = v]
    BY <2>3, <2>7
  <2>9. work' = [work EXCEPT ![p] = Append(work[p], f)]
    BY <2>8 DEF v
  <2>5. UNCHANGED <<exiting, type, ofile, page, nread, nwrite, data, readopen, writeopen,
                    lock, killed, n, got, unannounced>>
    BY <1>2 DEF PipeAlloc0, pipe
  <2> HIDE DEF f
  <2>6. TakeFile(p, f, "user", "alloc1")
    <3>1. f \in Files /\ ref[f] = 0 /\ pc[p] = "user"
      BY <1>1, <2>1
    <3>2. ref' = [ref EXCEPT ![f] = 1] /\ pc' = [pc EXCEPT ![p] = "alloc1"]
      BY <2>4
    <3> QED BY <2>5, <2>9, <3>1, <3>2 DEF TakeFile
  <2> QED BY <2>6, TakeStep
<1>3. CASE PipeAlloc1(p)
  <2>4. /\ ref' = [ref EXCEPT ![f] = 1] /\ work' = [work EXCEPT ![p] = Append(work[p], f)]
        /\ pc' = [pc EXCEPT ![p] = "alloc_page"] /\ pc[p] = "alloc1"
    BY <1>3 DEF PipeAlloc1, FileAlloc, Goto
  <2>5. UNCHANGED <<exiting, type, ofile, page, nread, nwrite, data, readopen, writeopen,
                    lock, killed, n, got, unannounced>>
    BY <1>3 DEF PipeAlloc1, pipe
  <2> HIDE DEF f
  <2>6. TakeFile(p, f, "alloc1", "alloc_page")
    BY <1>1, <2>4, <2>5 DEF TakeFile
  <2> QED BY <2>6, TakeStep
<1> QED BY <1>2, <1>3

\* pipealloc() has a page: both files get their ends, and sys_pipe() gives both
\* a descriptor or closes both.
LEMMA PipePageStep ==
  ASSUME FInv, NEW p \in Procs, PipeAllocPage(p)
  PROVE  FInv'
<1> DEFINE a == work[p][1]
<1> DEFINE b == work[p][2]
<1> DEFINE F == FreeFds(p)
<1> DEFINE fd0 == Least(F)
<1> DEFINE fd1 == Least(F \ {fd0})
<1>1. /\ pc[p] = "alloc_page" /\ page = FALSE
      /\ page' = TRUE /\ readopen' = TRUE /\ writeopen' = TRUE
      /\ nread' = 0 /\ nwrite' = 0 /\ data' = EmptyPage /\ unannounced' = FALSE
      /\ type' = [type EXCEPT ![a] = "read", ![b] = "write"]
      /\ UNCHANGED <<exiting, ref, lock, killed, n, got>>
  BY FileFacts DEF PipeAllocPage, NewPipe, FdAllocBoth, TypeRest
<1>2. /\ Cardinality(F) >= 2 /\ ofile' = [ofile EXCEPT ![p][fd0] = a, ![p][fd1] = b]
         /\ work' = [work EXCEPT ![p] = <<>>] /\ pc' = [pc EXCEPT ![p] = "user"]
      \/ /\ pc' = [pc EXCEPT ![p] = "close"] /\ ofile' = ofile /\ work' = work
  BY DEF PipeAllocPage, NewPipe, FdAllocBoth, Goto
<1>3. Len(work[p]) = 2 /\ a # b /\ p \notin exiting
  BY <1>1 DEF FInv, WorkShape, ClosePCs
<1>4. 1 \in 1..Len(work[p]) /\ 2 \in 1..Len(work[p])
  BY <1>3
<1>5. /\ a \in Files /\ b \in Files /\ type[a] = "none" /\ type[b] = "none" /\ ref[a] = 1 /\ ref[b] = 1
      /\ a # Console /\ b # Console
  <2>1. a \in Files /\ b \in Files
    BY <1>4, FileFacts
  <2>2. type[a] = "none" /\ type[b] = "none" /\ ref[a] = 1 /\ ref[b] = 1
    BY <1>1, <1>4 DEF FInv, KindShape, AllocPCs
  <2>3. type[Console] = "inode"
    BY SizeFacts DEF FInv, KindShape
  <2> QED BY <2>1, <2>2, <2>3
<1>6. /\ \A q \in Procs, fd \in FDs : ofile[q][fd] # a /\ ofile[q][fd] # b
      /\ \A q \in Procs : q # p => \A i \in 1..Len(work[q]) : work[q][i] # a /\ work[q][i] # b
  BY <1>4, <1>5, FileFacts
<1> HIDE DEF a, b
<1>7. /\ \A x \in Files : type'[x] = IF x = b THEN "write" ELSE IF x = a THEN "read" ELSE type[x]
      /\ type' \in [Files -> {"none", "inode", "read", "write"}]
  <2>1. type \in [Files -> {"none", "inode", "read", "write"}]
    BY FileFacts DEF TypeRest
  <2> QED BY <1>1, <1>5, <2>1
<1>8. /\ readopen = FALSE /\ writeopen = FALSE
      /\ \A x \in Files : type[x] # "read" /\ type[x] # "write"
      /\ \A q \in Procs : pc[q] \notin {"close_read", "close_write", "kfree"}
  <2>1. readopen \in BOOLEAN /\ writeopen \in BOOLEAN
    BY FileFacts DEF TypeRest
  <2> QED BY <1>1, <2>1 DEF FInv, EndShape
<1>9. \A q \in Procs : pc[q] \notin ReadPCs \cup WritePCs
  <2>1. ASSUME NEW q \in Procs, NEW kind \in {"read", "write"}, Holds(q, kind) PROVE FALSE
    <3>1. PICK fd \in FDs : ofile[q][fd] # NoFile /\ type[ofile[q][fd]] = kind
      BY <2>1 DEF Holds
    <3>2. ofile[q][fd] \in Files
      BY <3>1, FileFacts
    <3> QED BY <1>8, <3>1, <3>2
  <2> QED BY <2>1 DEF FInv, UserShape
<1>10. ASSUME NEW label \in {"user", "close"}, pc' = [pc EXCEPT ![p] = label],
              ofile' \in FdTable, work' \in InHand, work' = [q \in Procs |-> work'[q]],
              \A q \in Procs : q # p => work'[q] = work[q] /\ ofile'[q] = ofile[q],
              Len(work'[p]) <= 2 /\ (Len(work'[p]) = 2 => work'[p][1] # work'[p][2]),
              label = "user" => work'[p] = <<>>,
              \A fd \in FDs : ofile'[p][fd] \in {ofile[p][fd], a, b},
              \A x \in Files : Names(HeldOf(ofile', work'), x) = Names(HeldOf(ofile, work), x)
       PROVE  FInv'
  <2>1. pc' \in [Procs -> PCs] /\ \A q \in Procs : pc'[q] = IF q = p THEN label ELSE pc[q]
    <3>1. label \in PCs
      BY DEF PCs, ClosePCs
    <3>2. pc \in [Procs -> PCs]
      BY FileFacts DEF TypeRest
    <3>3. pc' = [pc EXCEPT ![p] = label]
      BY <1>10
    <3> QED BY <3>1, <3>2, <3>3
  <2>2. /\ nread' \in 0..WORD - 1 /\ nwrite' \in 0..WORD - 1 /\ data' \in [0..PIPESIZE - 1 -> Bytes \cup {Junk}]
        /\ page' \in BOOLEAN /\ readopen' \in BOOLEAN /\ writeopen' \in BOOLEAN /\ unannounced' \in BOOLEAN
    <3>1. 0 \in 0..WORD - 1
      BY SizeFacts
    <3>2. EmptyPage \in [0..PIPESIZE - 1 -> Bytes \cup {Junk}]
      BY DEF EmptyPage
    <3>3. nread' = 0 /\ nwrite' = 0 /\ data' = EmptyPage
      BY <1>1
    <3>4. page' \in BOOLEAN /\ readopen' \in BOOLEAN /\ writeopen' \in BOOLEAN /\ unannounced' \in BOOLEAN
      BY <1>1
    <3> QED BY <3>1, <3>2, <3>3, <3>4
  <2>3. TypeRest'
    BY <1>1, <1>7, <1>10, <2>1, <2>2, FileFacts DEF TypeRest, FdTable, InHand
  <2>4. WorkShape'
    <3>1. ASSUME NEW q \in Procs
          PROVE  /\ Len(work'[q]) <= 2 /\ (Len(work'[q]) = 2 => work'[q][1] # work'[q][2])
                 /\ pc'[q] = "alloc1" => Len(work'[q]) = 1
                 /\ pc'[q] = "alloc_page" => Len(work'[q]) = 2
                 /\ pc'[q] \notin AllocPCs \cup ClosePCs => work'[q] = <<>>
                 /\ pc'[q] = "dead" => \A fd \in FDs : ofile'[q][fd] = NoFile
                 /\ q \in exiting' => pc'[q] \in ClosePCs
      <4>1. CASE q = p
        BY <1>1, <1>3, <1>10, <2>1, <4>1 DEF ClosePCs
      <4>2. CASE q # p
        <5>1. work'[q] = work[q] /\ pc'[q] = pc[q] /\ ofile'[q] = ofile[q] /\ exiting' = exiting
          BY <1>1, <1>10, <2>1, <4>2
        <5> QED BY <5>1 DEF FInv, WorkShape
      <4> QED BY <4>1, <4>2
    <3>2. got' = [q \in Procs |-> got'[q]]
      BY <1>1, Shapes
    <3> QED BY <1>10, <3>1, <3>2 DEF WorkShape
  <2>5. RefShape'
    <3> SUFFICES ASSUME NEW x \in Files PROVE ref'[x] = Names(HeldOf(ofile', work'), x) + Extra(x)
      BY DEF RefShape, held, Extra
    <3>1. ref[x] = Names(HeldOf(ofile, work), x) + Extra(x)
      BY FileFacts DEF held
    <3>2. Names(HeldOf(ofile', work'), x) = Names(HeldOf(ofile, work), x)
      BY <1>10
    <3>3. ref' = ref
      BY <1>1
    <3> QED BY <3>1, <3>2, <3>3
  <2>6. KindShape'
    <3>1. \A x \in Files : type'[x] = "inode" <=> x = Console
      BY <1>5, <1>7 DEF FInv, KindShape
    <3>2. \A x \in Files : ref'[x] = 0 => type'[x] = "none"
      BY <1>1, <1>5, <1>7 DEF FInv, KindShape
    <3>3. ASSUME NEW q \in Procs, NEW fd \in FDs, ofile'[q][fd] # NoFile PROVE type'[ofile'[q][fd]] # "none"
      <4>1. ofile'[q][fd] \in {ofile[q][fd], a, b}
        BY <1>10
      <4>2. CASE ofile'[q][fd] \in {a, b}
        BY <1>5, <1>7, <4>2
      <4>3. CASE ofile'[q][fd] = ofile[q][fd]
        <5>1. ofile[q][fd] \in Files /\ type[ofile[q][fd]] # "none"
          BY <3>3, <4>3, FileFacts DEF FInv, KindShape
        <5> QED BY <1>7, <4>3, <5>1
      <4> QED BY <4>1, <4>2, <4>3
    <3>4. ASSUME NEW q \in Procs, pc'[q] \in AllocPCs, NEW i \in 1..Len(work'[q])
          PROVE  type'[work'[q][i]] = "none" /\ ref'[work'[q][i]] = 1
      <4>1. q # p /\ pc[q] \in AllocPCs
        BY <2>1, <3>4 DEF AllocPCs
      <4>2. work'[q] = work[q]
        BY <1>10, <4>1
      <4>3. work[q][i] \in Files /\ type[work[q][i]] = "none" /\ ref[work[q][i]] = 1
        BY <3>4, <4>1, <4>2, FileFacts DEF FInv, KindShape
      <4>4. work[q][i] # a /\ work[q][i] # b
        BY <1>6, <3>4, <4>1, <4>2
      <4> QED BY <1>1, <1>7, <4>2, <4>3, <4>4
    <3> QED BY <3>1, <3>2, <3>3, <3>4 DEF KindShape
  <2>7. EndShape'
    <3>1. \A q \in Procs : pc'[q] \notin {"close_read", "close_write", "kfree"}
      BY <1>8, <1>10, <2>1
    <3>2. /\ \A x \in Files : type'[x] = "read" <=> x = a
          /\ \A x \in Files : type'[x] = "write" <=> x = b
      BY <1>3, <1>7, <1>8 DEF a, b
    <3>3. readopen' /\ writeopen' /\ page'
      BY <1>1
    <3> QED BY <1>5, <3>1, <3>2, <3>3 DEF EndShape
  <2>8. UserShape'
    <3>1. \A q \in Procs : pc'[q] \notin ReadPCs \cup WritePCs
      BY <1>9, <1>10, <2>1 DEF ReadPCs, WritePCs
    <3> QED BY <3>1 DEF UserShape
  <2> QED BY <2>3, <2>4, <2>5, <2>6, <2>7, <2>8, FilesAgain
<1>11. CASE pc' = [pc EXCEPT ![p] = "close"] /\ ofile' = ofile /\ work' = work
  <2>1. /\ ofile' \in FdTable /\ work' \in InHand /\ work' = [q \in Procs |-> work'[q]]
        /\ Len(work'[p]) <= 2 /\ (Len(work'[p]) = 2 => work'[p][1] # work'[p][2])
    BY <1>11, FileFacts DEF FInv, WorkShape
  <2>2. \A x \in Files : Names(HeldOf(ofile', work'), x) = Names(HeldOf(ofile, work), x)
    BY <1>11
  <2>3. \A q \in Procs : q # p => work'[q] = work[q] /\ ofile'[q] = ofile[q]
    BY <1>11
  <2>4. \A fd \in FDs : ofile'[p][fd] \in {ofile[p][fd], a, b}
    BY <1>11
  <2>5. pc' = [pc EXCEPT ![p] = "close"]
    BY <1>11
  <2> QED BY <1>10, <2>1, <2>2, <2>3, <2>4, <2>5
<1>12. CASE /\ Cardinality(F) >= 2 /\ ofile' = [ofile EXCEPT ![p][fd0] = a, ![p][fd1] = b]
            /\ work' = [work EXCEPT ![p] = <<>>] /\ pc' = [pc EXCEPT ![p] = "user"]
  <2>1. F \in SUBSET Nat /\ IsFiniteSet(F) /\ \A fd \in F : fd \in FDs /\ ofile[p][fd] = NoFile
    <3>1. F \in SUBSET FDs /\ \A fd \in F : fd \in FDs /\ ofile[p][fd] = NoFile
      BY DEF FreeFds
    <3>2. IsFiniteSet(F)
      BY <3>1, PlacesFinite, FS_Subset
    <3> QED BY <3>1, <3>2, SizeFacts DEF FDs
  <2> HIDE DEF F
  <2>2. F # {}
    <3>1. F = {} => Cardinality(F) = 0
      BY FS_EmptySet
    <3> QED BY <1>12, <3>1
  <2>3. fd0 \in F
    BY <2>1, <2>2, LeastFacts
  <2>4. F \ {fd0} # {}
    <3>1. Cardinality(F \ {fd0}) = Cardinality(F) - 1
      BY <2>1, <2>3, FS_RemoveElement
    <3>2. Cardinality(F) \in Nat
      BY <2>1, FS_CardinalityType
    <3>3. F \ {fd0} = {} => Cardinality(F \ {fd0}) = 0
      BY FS_EmptySet
    <3> QED BY <1>12, <3>1, <3>2, <3>3
  <2>5. fd1 \in F \ {fd0}
    <3>1. F \ {fd0} \in SUBSET Nat
      BY <2>1
    <3> QED BY <2>4, <3>1, LeastFacts
  <2>6. fd0 \in FDs /\ fd1 \in FDs /\ fd0 # fd1 /\ ofile[p][fd0] = NoFile /\ ofile[p][fd1] = NoFile
    BY <2>1, <2>3, <2>5
  <2> HIDE DEF fd0, fd1
  <2> DEFINE o == [ofile EXCEPT ![p][fd0] = a]
  <2>7. /\ o \in FdTable
        /\ \A q \in Procs, k \in FDs : o[q][k] = IF q = p /\ k = fd0 THEN a ELSE ofile[q][k]
    BY <1>5, <2>6, FileFacts DEF FdTable
  <2>8. /\ ofile' \in FdTable /\ \A q \in Procs : q # p => ofile'[q] = ofile[q]
        /\ \A q \in Procs, k \in FDs : ofile'[q][k] = IF q = p /\ k = fd1 THEN b ELSE o[q][k]
    <3>1. ofile' = [o EXCEPT ![p][fd1] = b]
      BY <1>12
    <3>2. \A q \in Procs : q # p => o[q] = ofile[q]
      BY FileFacts DEF FdTable
    <3> HIDE DEF o
    <3>3. ofile' \in FdTable /\ \A q \in Procs, k \in FDs : ofile'[q][k] = IF q = p /\ k = fd1 THEN b ELSE o[q][k]
      BY <1>5, <2>6, <2>7, <3>1 DEF FdTable
    <3>4. \A q \in Procs : q # p => ofile'[q] = ofile[q]
      BY <2>7, <3>1, <3>2 DEF FdTable
    <3> QED BY <3>3, <3>4
  <2> HIDE DEF o
  <2>9. work' = [q \in Procs |-> work'[q]] /\ \A q \in Procs : work'[q] = IF q = p THEN <<>> ELSE work[q]
    BY <1>12, Shapes
  <2> DEFINE e == <<>>
  <2>10. \A q \in Procs : work'[q] = IF q = p THEN e ELSE work[q]
    BY <2>9
  <2>11. e \in Seq(Files) /\ Len(e) = 0 /\ \A x : Occurs(e, x) = 0
    BY DEF Occurs
  <2> HIDE DEF e
  <2>12. work' \in InHand
    <3>1. work \in InHand /\ e \in Seq(Files) /\ Len(e) \in {0, 1, 2}
      BY <2>11, FileFacts
    <3>2. work' = [q \in Procs |-> work'[q]]
      BY <2>9
    <3> QED BY <2>10, <3>1, <3>2, HandAgain
  <2>13. ASSUME NEW x \in Files
         PROVE  Names(HeldOf(ofile', work'), x) = Names(HeldOf(ofile, work), x)
    <3>0. ofile \in FdTable /\ work \in InHand
      BY FileFacts
    <3>1. /\ Names(HeldOf(o, work), x) = Names(HeldOf(ofile, work), x) + Same(x, a) - Same(x, ofile[p][fd0])
          /\ Names(HeldOf(ofile, work), x) \in Nat
      <4>1. fd0 \in FDs
        BY <2>6
      <4> QED BY <2>7, <3>0, <4>1, PutFd
    <3>2. Names(HeldOf(ofile', work), x) = Names(HeldOf(o, work), x) + Same(x, b) - Same(x, o[p][fd1])
      <4>1. fd1 \in FDs /\ ofile' \in FdTable /\ o \in FdTable
        BY <2>6, <2>7, <2>8
      <4>2. \A q \in Procs, k \in FDs : ofile'[q][k] = IF q = p /\ k = fd1 THEN b ELSE o[q][k]
        BY <2>8
      <4> QED BY <3>0, <4>1, <4>2, PutFd
    <3>3. /\ Names(HeldOf(ofile', work'), x) = Names(HeldOf(ofile', work), x) + Occurs(e, x) - Occurs(work[p], x)
          /\ Occurs(work[p], x) \in Nat
      <4>1. ofile' \in FdTable /\ e \in Seq(Files) /\ Len(e) <= 2
        BY <2>8, <2>11
      <4> QED BY <2>10, <2>12, <3>0, <4>1, PutWork
    <3>4. o[p][fd1] = NoFile /\ x # NoFile
      BY <2>6, <2>7, SizeFacts
    <3>5. Same(x, ofile[p][fd0]) = 0 /\ Same(x, o[p][fd1]) = 0
      BY <2>6, <3>4 DEF Same
    <3>6. Occurs(work[p], x) = Same(x, a) + Same(x, b)
      BY <1>3 DEF Occurs, Same, a, b
    <3>7. Occurs(e, x) = 0 /\ Same(x, a) \in {0, 1} /\ Same(x, b) \in {0, 1}
      BY <2>11 DEF Same
    <3> QED BY <3>1, <3>2, <3>3, <3>5, <3>6, <3>7
  <2>14. work'[p] = <<>> /\ Len(work'[p]) <= 2 /\ Len(work'[p]) # 2
    BY <2>9
  <2>15. \A fd \in FDs : ofile'[p][fd] \in {ofile[p][fd], a, b}
    BY <2>7, <2>8
  <2>16. \A q \in Procs : q # p => work'[q] = work[q] /\ ofile'[q] = ofile[q]
    BY <2>8, <2>9
  <2>17. pc' = [pc EXCEPT ![p] = "user"] /\ ofile' \in FdTable /\ work' = [q \in Procs |-> work'[q]]
    BY <1>12, <2>8, <2>9
  <2>18. /\ Len(work'[p]) <= 2 /\ (Len(work'[p]) = 2 => work'[p][1] # work'[p][2])
         /\ "user" = "user" => work'[p] = <<>>
    BY <2>14
  <2>19. "user" \in {"user", "close"}
    OBVIOUS
  <2> QED BY <1>10, <2>12, <2>13, <2>15, <2>16, <2>17, <2>18, <2>19
<1> QED BY <1>2, <1>11, <1>12

-----------------------------------------------------------------------------
(* Counting modulo WORD and PIPESIZE *)

\* % on the ranges the counters move in.
LEMMA ModCases ==
  ASSUME NEW m \in Nat, m >= 1, NEW a \in Int
  PROVE  /\ a % m \in 0..m - 1
         /\ a \in 0..m - 1 => a % m = a
         /\ 0 - m <= a /\ a < 0 => a % m = a + m
         /\ m <= a /\ a < m + m => a % m = a - m
OBVIOUS

\* Every integer is a multiple and a remainder.
LEMMA Quotient ==
  ASSUME NEW m \in Nat, m >= 1, NEW a \in Int
  PROVE  \E q \in Int, r \in 0..m - 1 : a = m * q + r /\ a % m = r
<1> DEFINE S == {x \in Nat : \E q \in Int : x = a - m * q}
<1>1. S # {}
  <2> DEFINE b == IF a < 0 THEN a ELSE 0 - a
  <2>1. b \in Int /\ b <= 0 /\ b <= a
    OBVIOUS
  <2> HIDE DEF b
  <2> DEFINE z == m * b
  <2>2. z \in Int /\ z <= b
    BY <2>1
  <2>3. a - z \in Nat
    BY <2>1, <2>2
  <2>4. a - m * b \in S
    BY <2>1, <2>3
  <2> QED BY <2>4
<1>2. PICK x \in S : \A y \in S : ~(<<y, x>> \in OpToRel(<, Nat))
  <2>1. S \in SUBSET Nat
    OBVIOUS
  <2> HIDE DEF S
  <2> QED BY <1>1, <2>1, NatLessThanWellFounded, WFMin
<1>3. PICK q \in Int : x = a - m * q
  OBVIOUS
<1>4. x \in Nat
  OBVIOUS
<1>5. x < m
  <2> SUFFICES ASSUME x >= m PROVE FALSE
    BY <1>4
  <2>1. m * (q + 1) = m * q + m
    OBVIOUS
  <2>2. x - m = a - m * (q + 1)
    BY <1>3, <2>1
  <2>3. x - m \in Nat
    BY <1>4
  <2>4. x - m \in S
    BY <2>2, <2>3
  <2>5. x - m < x
    BY <1>4
  <2> DEFINE y == x - m
  <2>6. y \in S /\ y \in Nat /\ y < x
    BY <2>3, <2>4, <2>5
  <2> HIDE DEF y, S
  <2> QED BY <1>2, <1>4, <2>6 DEF OpToRel
<1> DEFINE z == m * q
<1>6. z \in Int /\ a = z + x
  BY <1>3, <1>4
<1>7. a = m * q + x
  BY <1>6
<1>8. a % m = x
  BY <1>4, <1>5, <1>7
<1>9. x \in 0..m - 1
  BY <1>4, <1>5
<1> HIDE DEF S, z
<1> QED BY <1>7, <1>8, <1>9

\* uint counts modulo a multiple of PIPESIZE, so that a counter that wraps
\* still points at the next slot.
LEMMA SlotPeriod ==
  ASSUME NEW P \in Nat, P >= 1, NEW W \in Nat, W % P = 0, NEW z \in Int
  PROVE  (z - W) % P = z % P
<1>1. PICK q \in Int, r \in 0..P - 1 : z = P * q + r /\ z % P = r
  BY Quotient
<1>2. PICK w \in Int, s \in 0..P - 1 : W = P * w + s /\ W % P = s
  BY Quotient
<1>3. s = 0
  BY <1>2
<1> DEFINE x == P * q
<1> DEFINE y == P * w
<1>4. x \in Int /\ y \in Int /\ z = x + r /\ W = y + s
  BY <1>1, <1>2
<1>5. P * (q - w) = x - y
  OBVIOUS
<1> HIDE DEF x, y
<1>7. z - W = (x - y) + r
  BY <1>3, <1>4
<1> DEFINE d == q - w
<1> DEFINE t == z - W
<1>8. d \in Int /\ t = P * d + r /\ t \in Int
  BY <1>5, <1>7
<1> HIDE DEF d, t
<1>9. t % P = r
  BY <1>8
<1> QED BY <1>1, <1>9 DEF t

\* A counter after a step of at most its range: as it is, or wrapped once.
LEMMA Wraps ==
  ASSUME NEW W \in Nat, W >= 1, NEW x \in Nat, x < W + W
  PROVE  /\ x % W \in 0..W - 1
         /\ x < W => x % W = x
         /\ x >= W => x % W = x - W
OBVIOUS

\* The slot of a counter that has wrapped.
LEMMA SlotOfCounter ==
  ASSUME NEW P \in Nat, P >= 1, NEW W \in Nat, W >= 1, W % P = 0,
         NEW x \in Nat, x < W + W, NEW y \in Int
  PROVE  ((x % W) + y) % P = (x + y) % P
<1>1. CASE x < W
  <2>1. x % W = x
    BY <1>1, Wraps
  <2> QED BY <2>1
<1>2. CASE x >= W
  <2>1. x % W = x - W
    BY <1>2, Wraps
  <2> DEFINE z == x + y
  <2>2. z \in Int /\ (x % W) + y = z - W
    BY <2>1
  <2> HIDE DEF z
  <2>3. (z - W) % P = z % P
    BY <2>2, SlotPeriod
  <2> QED BY <2>2, <2>3 DEF z
<1> QED BY <1>1, <1>2

\* nwrite - nread, of unsigned ints, when either of them moves on by k.
LEMMA CounterFacts ==
  ASSUME NEW W \in Nat, W >= 1, NEW r \in 0..W - 1, NEW w \in 0..W - 1, NEW k \in Nat
  PROVE  LET c == (w - r) % W IN
         /\ c \in 0..W - 1 /\ (w - r = c \/ w - r = c - W)
         /\ c + k < W => (((w + k) % W) - r) % W = c + k
         /\ k <= c => (w - ((r + k) % W)) % W = c - k
<1> DEFINE c == (w - r) % W
<1>1. c \in 0..W - 1 /\ (w - r = c \/ w - r = c - W)
  <2>1. CASE w >= r
    BY <2>1
  <2>2. CASE w < r
    BY <2>2
  <2> QED BY <2>1, <2>2
<1> HIDE DEF c
<1>2. ASSUME c + k < W PROVE (((w + k) % W) - r) % W = c + k
  <2>1. k < W /\ w + k < W + W
    BY <1>1, <1>2
  <2> DEFINE v == (w + k) % W
  <2>2. v \in 0..W - 1 /\ (v = w + k \/ v = w + k - W)
    <3>1. CASE w + k < W
      BY <3>1
    <3>2. CASE w + k >= W
      BY <2>1, <3>2
    <3> QED BY <3>1, <3>2
  <2> HIDE DEF v
  <2>3. (v - r) % W = c + k
    <3>1. v - r = c + k \/ v - r = c + k - W \/ v - r = c + k - W - W
      BY <1>1, <2>2
    <3>2. v - r > 0 - W /\ c + k >= 0
      BY <1>1, <2>2
    <3>3. CASE v - r = c + k
      BY <1>1, <1>2, <3>2, <3>3
    <3>4. CASE v - r = c + k - W
      BY <1>1, <1>2, <3>2, <3>4
    <3> QED BY <1>1, <1>2, <3>1, <3>2, <3>3, <3>4
  <2> QED BY <2>3 DEF v
<1>3. ASSUME k <= c PROVE (w - ((r + k) % W)) % W = c - k
  <2>1. k < W /\ r + k < W + W
    BY <1>1, <1>3
  <2> DEFINE v == (r + k) % W
  <2>2. v \in 0..W - 1 /\ (v = r + k \/ v = r + k - W)
    <3>1. CASE r + k < W
      BY <3>1
    <3>2. CASE r + k >= W
      BY <2>1, <3>2
    <3> QED BY <3>1, <3>2
  <2> HIDE DEF v
  <2>3. (w - v) % W = c - k
    <3>1. w - v = c - k \/ w - v = c - k - W \/ w - v = c - k + W
      BY <1>1, <2>2
    <3>2. w - v < W /\ c - k >= 0 /\ c - k < W
      BY <1>1, <1>3, <2>2
    <3>3. CASE w - v = c - k
      BY <1>1, <3>2, <3>3
    <3>4. CASE w - v = c - k - W
      BY <1>1, <3>2, <3>4
    <3>5. w - v # c - k + W
      BY <1>1, <2>2, <3>2
    <3> QED BY <3>1, <3>3, <3>4, <3>5
  <2>4. v = (r + k) % W
    BY DEF v
  <2> QED BY <2>3, <2>4
<1> QED BY <1>1, <1>2, <1>3 DEF c

-----------------------------------------------------------------------------
(* The buffer: what each step keeps *)

\* Which slot holds the i-th byte to be read.
Slot(i) == (nread + i - 1) % PIPESIZE

\* The buffer never holds more than PIPESIZE bytes.
LEMMA BufFacts ==
  ASSUME TypeOK, DataShape
  PROVE  /\ nread \in 0..WORD - 1 /\ nwrite \in 0..WORD - 1
         /\ data \in [0..PIPESIZE - 1 -> Bytes \cup {Junk}]
         /\ Count \in 0..PIPESIZE /\ Space \in 0..PIPESIZE /\ Space = PIPESIZE - Count
         /\ \A i \in Nat \ {0} : Slot(i) \in 0..PIPESIZE - 1
         /\ \A i \in 1..Count : data[Slot(i)] \in Bytes
<1>1. nread \in 0..WORD - 1 /\ nwrite \in 0..WORD - 1 /\ data \in [0..PIPESIZE - 1 -> Bytes \cup {Junk}]
  BY DEF TypeOK
<1>2. Count \in Nat
  <2>1. nwrite - nread \in Int
    BY <1>1, SizeFacts
  <2> DEFINE d == nwrite - nread
  <2>3. d \in Int /\ WORD \in Nat /\ WORD >= 1
    BY <2>1, SizeFacts
  <2> HIDE DEF d
  <2>4. d % WORD \in 0..WORD - 1
    BY <2>3, ModCases
  <2>2. (nwrite - nread) % WORD \in 0..WORD - 1
    BY <2>4 DEF d
  <2> QED BY <2>2, SizeFacts DEF Count
<1>3. Count <= PIPESIZE
  BY DEF DataShape
<1> DEFINE c == Count
<1>4. c \in Nat /\ c <= PIPESIZE
  BY <1>2, <1>3
<1> HIDE DEF c
<1>5. c \in 0..PIPESIZE /\ PIPESIZE - c \in 0..PIPESIZE
  BY <1>4, SizeFacts
<1>6. Count \in 0..PIPESIZE /\ Space \in 0..PIPESIZE /\ Space = PIPESIZE - Count
  BY <1>5 DEF c, Space
<1>7. ASSUME NEW i \in Nat \ {0} PROVE Slot(i) \in 0..PIPESIZE - 1
  <2>1. nread + i - 1 \in Int
    BY <1>1, SizeFacts
  <2> QED BY <2>1, SizeFacts, ModCases DEF Slot
<1>8. ASSUME NEW i \in 1..Count PROVE data[Slot(i)] \in Bytes
  <2>1. i \in Nat \ {0}
    BY <1>2
  <2>2. data[Slot(i)] # Junk
    BY DEF DataShape, Slot
  <2> QED BY <1>1, <1>7, <2>1, <2>2
<1> QED BY <1>1, <1>6, <1>7, <1>8

\* pipewrite() stores k more bytes behind those there are, and overwrites none
\* that was not read.
LEMMA PutFacts ==
  ASSUME TypeOK, DataShape, NEW k \in 0..Space, Put(k), nread' = nread
  PROVE  /\ nwrite' \in 0..WORD - 1 /\ data' \in [0..PIPESIZE - 1 -> Bytes \cup {Junk}]
         /\ Count' = Count + k
         /\ \A i \in 1..(Count + k) :
                IF i <= Count THEN data'[Slot(i)] = data[Slot(i)]
                ELSE data'[Slot(i)] \in Bytes /\ data'[Slot(i)] = (nwrite + (i - 1 - Count)) % WORD
         /\ DataShape'
<1> DEFINE c == Count
<1>1. /\ nread \in 0..WORD - 1 /\ nwrite \in 0..WORD - 1
      /\ data \in [0..PIPESIZE - 1 -> Bytes \cup {Junk}]
      /\ c \in 0..PIPESIZE /\ k \in Nat /\ c + k <= PIPESIZE
  <2>1. c \in 0..PIPESIZE /\ Space = PIPESIZE - c
    BY BufFacts
  <2> HIDE DEF c
  <2>2. k \in Nat /\ c + k <= PIPESIZE
    BY <2>1, SizeFacts
  <2> QED BY <2>1, <2>2, BufFacts
<1>2. /\ nwrite' = (nwrite + k) % WORD
      /\ \A s \in 0..PIPESIZE - 1 : data'[s] = IF (s - nwrite) % PIPESIZE < k
             THEN (nwrite + ((s - nwrite) % PIPESIZE)) % WORD ELSE data[s]
      /\ DOMAIN data' = 0..PIPESIZE - 1 /\ data' = [s \in 0..PIPESIZE - 1 |-> data'[s]]
  BY <1>1 DEF Put, Nwrite
<1>3. \A x \in Nat : x % WORD \in Bytes
  BY SizeFacts, ModCases DEF Bytes
<1>4. nwrite' \in 0..WORD - 1
  BY <1>1, <1>2, <1>3, SizeFacts DEF Bytes
<1>5. data' \in [0..PIPESIZE - 1 -> Bytes \cup {Junk}]
  <2>1. ASSUME NEW s \in 0..PIPESIZE - 1 PROVE data'[s] \in Bytes \cup {Junk}
    <3> DEFINE j == (s - nwrite) % PIPESIZE
    <3>1. s - nwrite \in Int
      BY <1>1, SizeFacts
    <3>2. j \in 0..PIPESIZE - 1
      BY <3>1, SizeFacts, ModCases
    <3>3. data'[s] = IF j < k THEN (nwrite + j) % WORD ELSE data[s]
      BY <1>2
    <3> HIDE DEF j
    <3>4. nwrite + j \in Nat
      BY <1>1, <3>2, SizeFacts
    <3> QED BY <1>1, <1>3, <3>3, <3>4
  <2> QED BY <1>2, <2>1
<1>6. c = (nwrite - nread) % WORD /\ (nwrite - nread = c \/ nwrite - nread = c - WORD)
  <2>1. c = (nwrite - nread) % WORD
    BY DEF Count
  <2> HIDE DEF c
  <2>2. WORD \in Nat /\ WORD >= 1
    BY SizeFacts
  <2> QED BY <1>1, <2>1, <2>2, CounterFacts
<1>7. Count' = c + k
  <2>1. Count' = (((nwrite + k) % WORD) - nread) % WORD
    BY <1>2 DEF Count
  <2> HIDE DEF c
  <2>2. WORD \in Nat /\ WORD >= 1 /\ c + k < WORD
    BY <1>1, SizeFacts
  <2>3. (((nwrite + k) % WORD) - nread) % WORD = c + k
    BY <1>1, <1>6, <2>2, CounterFacts
  <2> QED BY <2>1, <2>3
<1> HIDE DEF c
<1>8. ASSUME NEW i \in 1..(c + k)
      PROVE  IF i <= c THEN data'[Slot(i)] = data[Slot(i)]
             ELSE data'[Slot(i)] \in Bytes /\ data'[Slot(i)] = (nwrite + (i - 1 - c)) % WORD
  <2>1. i \in Nat \ {0} /\ i <= c + k /\ i <= PIPESIZE
    BY <1>1, SizeFacts
  <2>2. Slot(i) \in 0..PIPESIZE - 1
    BY <2>1, BufFacts
  <2> DEFINE s == Slot(i)
  <2> DEFINE z == nread + i - 1
  <2>3. z \in Int /\ s = z % PIPESIZE
    BY <1>1, <2>1, SizeFacts DEF Slot
  <2>4. (s - nwrite) % PIPESIZE = (z - nwrite) % PIPESIZE
    <3>1. PICK q \in Int, r \in 0..PIPESIZE - 1 : z = PIPESIZE * q + r /\ z % PIPESIZE = r
      <4> HIDE DEF z, s
      <4> QED BY <2>3, SizeFacts, Quotient
    <3>2. s = r
      BY <2>3, <3>1
    <3> DEFINE x == s - nwrite
    <3>3. x \in Int
      BY <1>1, <2>2
    <3>4. PICK p \in Int, t \in 0..PIPESIZE - 1 : x = PIPESIZE * p + t /\ x % PIPESIZE = t
      <4> HIDE DEF x
      <4> QED BY <3>3, SizeFacts, Quotient
    <3> DEFINE u == PIPESIZE * q
    <3> DEFINE v == PIPESIZE * p
    <3> DEFINE y == z - nwrite
    <3>5. u \in Int /\ v \in Int /\ PIPESIZE * (q + p) = u + v
      BY SizeFacts
    <3>6. z = u + s /\ x = v + t
      BY <3>1, <3>2, <3>4
    <3>7. y = (u + v) + t
      <4>1. s \in Int /\ t \in Int /\ nwrite \in Int /\ x = s - nwrite /\ y = z - nwrite
        BY <1>1, <2>2, <3>4
      <4> HIDE DEF x, y, z, s, u, v
      <4> QED BY <2>3, <3>3, <3>5, <3>6, <4>1
    <3>8. y = PIPESIZE * (q + p) + t /\ y \in Int
      <4>1. t \in Int
        BY <3>4
      <4> HIDE DEF y, u, v, x, z, s
      <4> QED BY <3>5, <3>7, <4>1
    <3> HIDE DEF y, x, u, v, z, s
    <3> DEFINE d == q + p
    <3>9. d \in Int /\ y = PIPESIZE * d + t
      BY <3>8
    <3> HIDE DEF d
    <3>10. y % PIPESIZE = t
      BY <3>4, <3>8, <3>9, SizeFacts
    <3> QED BY <3>4, <3>10 DEF x, y
  <2> DEFINE o == i - 1 - c
  <2>5. o \in Int /\ (z - nwrite = o \/ z - nwrite = o + WORD)
    <3>1. nwrite - nread = c \/ nwrite - nread = c - WORD
      BY <1>6
    <3> QED BY <1>1, <2>1, <3>1, SizeFacts
  <2>6. (s - nwrite) % PIPESIZE = o % PIPESIZE
    <3>1. CASE z - nwrite = o
      BY <2>4, <3>1
    <3>2. CASE z - nwrite = o + WORD
      <4> DEFINE x == o + WORD
      <4>1. x \in Int /\ x - WORD = o
        BY <2>5, SizeFacts
      <4> HIDE DEF x, o
      <4>2. (x - WORD) % PIPESIZE = x % PIPESIZE
        BY <4>1, SizeFacts, SlotPeriod
      <4>3. z - nwrite = x
        BY <3>2 DEF x
      <4> QED BY <2>4, <4>1, <4>2, <4>3
    <3> QED BY <2>5, <3>1, <3>2
  <2> DEFINE j == (s - nwrite) % PIPESIZE
  <2>7. data'[s] = IF j < k THEN (nwrite + j) % WORD ELSE data[s]
    BY <1>2, <2>2
  <2> HIDE DEF j, s, z
  <2>8. CASE i <= c
    <3>1. 0 - PIPESIZE <= o /\ o < 0
      BY <1>1, <2>1, <2>8, SizeFacts
    <3>2. o % PIPESIZE = o + PIPESIZE
      BY <2>5, <3>1, SizeFacts, ModCases
    <3>3. j = o + PIPESIZE
      BY <2>6, <3>2 DEF j
    <3>4. ~(j < k)
      BY <1>1, <2>1, <2>8, <3>3, SizeFacts
    <3> QED BY <2>7, <2>8, <3>4 DEF s
  <2>9. CASE ~(i <= c)
    <3>1. o \in 0..PIPESIZE - 1 /\ o < k
      BY <1>1, <2>1, <2>9, SizeFacts
    <3>2. o % PIPESIZE = o
      BY <2>5, <3>1, SizeFacts, ModCases
    <3>3. j = o
      BY <2>6, <3>2 DEF j
    <3> HIDE DEF o
    <3>4. data'[s] = (nwrite + o) % WORD
      BY <2>7, <3>1, <3>3
    <3>5. nwrite + o \in Nat
      BY <1>1, <3>1, SizeFacts
    <3>6. data'[s] \in Bytes
      BY <1>3, <3>4, <3>5
    <3> QED BY <2>9, <3>4, <3>6 DEF s, o
  <2> QED BY <2>8, <2>9
<1>9. DataShape'
  <2>1. Count' <= PIPESIZE
    BY <1>1, <1>7
  <2>2. ASSUME NEW i \in 1..Count' PROVE data'[(nread' + i - 1) % PIPESIZE] # Junk
    <3>1. i \in 1..(c + k)
      BY <1>7
    <3>2. data'[Slot(i)] \in Bytes
      <4>1. CASE i <= c
        <5>1. i \in 1..c
          BY <1>1, <3>1, <4>1
        <5>2. data[Slot(i)] \in Bytes
          BY <5>1, BufFacts DEF c
        <5> QED BY <1>8, <3>1, <4>1, <5>2
      <4>2. CASE ~(i <= c)
        BY <1>8, <3>1, <4>2
      <4> QED BY <4>1, <4>2
    <3>3. Junk \notin Bytes
      BY PipeAssumption DEF Bytes
    <3>4. data'[Slot(i)] # Junk
      BY <3>2, <3>3
    <3> QED BY <3>4 DEF Slot
  <2> QED BY <2>1, <2>2 DEF DataShape
<1> QED BY <1>4, <1>5, <1>7, <1>8, <1>9 DEF c

\* piperead() takes k bytes, and those that stay keep their order.
LEMMA TakeFacts ==
  ASSUME TypeOK, DataShape, NEW k \in 0..Count, nread' = (nread + k) % WORD, UNCHANGED <<nwrite, data>>
  PROVE  /\ nread' \in 0..WORD - 1 /\ Count' = Count - k
         /\ \A i \in 1..(Count - k) : data'[(nread' + i - 1) % PIPESIZE] = data[Slot(k + i)]
         /\ DataShape'
<1> DEFINE c == Count
<1>1. /\ nread \in 0..WORD - 1 /\ nwrite \in 0..WORD - 1
      /\ c \in 0..PIPESIZE /\ k \in Nat /\ k <= c
  <2>1. c \in 0..PIPESIZE /\ k \in 0..c
    BY BufFacts
  <2> HIDE DEF c
  <2> QED BY <2>1, BufFacts
<1>2. c = (nwrite - nread) % WORD
  BY DEF Count
<1>3. Count' = (nwrite - ((nread + k) % WORD)) % WORD
  BY DEF Count
<1> HIDE DEF c
<1>4. WORD \in Nat /\ WORD >= 1 /\ k <= PIPESIZE /\ nread + k \in Nat /\ nread + k < WORD + WORD
  BY <1>1, SizeFacts
<1>5. Count' = c - k
  <2>1. (nwrite - ((nread + k) % WORD)) % WORD = c - k
    BY <1>1, <1>2, <1>4, CounterFacts
  <2> QED BY <1>3, <2>1
<1>6. nread' \in 0..WORD - 1
  <2> DEFINE x == nread + k
  <2>1. x \in Nat /\ x < WORD + WORD /\ nread' = x % WORD
    BY <1>4
  <2> HIDE DEF x
  <2> QED BY <1>4, <2>1, Wraps
<1>7. ASSUME NEW i \in 1..(c - k)
      PROVE  (nread' + i - 1) % PIPESIZE = Slot(k + i) /\ k + i \in 1..c
  <2> DEFINE x == nread + k
  <2> DEFINE y == i - 1
  <2>1. x \in Nat /\ x < WORD + WORD /\ y \in Int /\ i \in Int
    BY <1>1, <1>4
  <2>2. nread' + i - 1 = (x % WORD) + y
    <3>1. nread' = x % WORD /\ nread' \in Int
      BY <1>6, SizeFacts
    <3> HIDE DEF x
    <3> QED BY <2>1, <3>1
  <2>3. nread + (k + i) - 1 = x + y
    BY <1>1, <2>1, SizeFacts
  <2> HIDE DEF x, y
  <2>4. PIPESIZE \in Nat /\ PIPESIZE >= 1 /\ WORD % PIPESIZE = 0
    BY SizeFacts
  <2>5. ((x % WORD) + y) % PIPESIZE = (x + y) % PIPESIZE
    BY <1>4, <2>1, <2>4, SlotOfCounter
  <2>6. k + i \in 1..c
    BY <1>1
  <2> QED BY <2>2, <2>3, <2>5, <2>6 DEF Slot
<1>8. DataShape'
  <2>1. Count' <= PIPESIZE
    BY <1>1, <1>5, SizeFacts
  <2>2. ASSUME NEW i \in 1..Count' PROVE data'[(nread' + i - 1) % PIPESIZE] # Junk
    <3>1. i \in 1..(c - k)
      BY <1>5
    <3>2. data[Slot(k + i)] \in Bytes
      BY <1>7, <3>1, BufFacts DEF c
    <3>3. Junk \notin Bytes
      BY PipeAssumption DEF Bytes
    <3> QED BY <1>7, <3>1, <3>2, <3>3
  <2> QED BY <2>1, <2>2 DEF DataShape
<1>9. \A i \in 1..(c - k) : data'[(nread' + i - 1) % PIPESIZE] = data[Slot(k + i)]
  BY <1>7
<1> QED BY <1>5, <1>6, <1>8, <1>9 DEF c

SleepPCs == {"rsleep", "wsleep", "rasleep", "wasleep"}

\* Steps that leave the pipe alone and neither put anyone to sleep nor wake one.
LEMMA BufKept ==
  ASSUME LockShape, DataShape, NoLostWakeup, UNCHANGED <<pipe, lock, unannounced>>,
         \A q \in Procs : \/ pc'[q] = pc[q]
                          \/ pc[q] \notin SleepPCs /\ pc'[q] \notin SleepPCs
  PROVE  LockShape' /\ DataShape' /\ NoLostWakeup'
<1>1. Count' = Count /\ UNCHANGED <<nread, nwrite, data, readopen, writeopen, lock, unannounced>>
  BY DEF Count, pipe
<1>2. \A q \in Procs : /\ pc'[q] = "rsleep" <=> pc[q] = "rsleep"
                       /\ pc'[q] = "wsleep" <=> pc[q] = "wsleep"
                       /\ pc'[q] = "rasleep" <=> pc[q] = "rasleep"
                       /\ pc'[q] = "wasleep" <=> pc[q] = "wasleep"
  BY DEF SleepPCs
<1>3. DataShape'
  BY <1>1 DEF DataShape
<1>4. LockShape'
  BY <1>1, <1>2 DEF LockShape
<1>5. NoLostWakeup'
  BY <1>1, <1>2 DEF NoLostWakeup
<1> QED BY <1>3, <1>4, <1>5

\* Without a page nobody is in piperead() or pipewrite().
LEMMA NoUsers ==
  ASSUME FInv, ~readopen \/ ~writeopen
  PROVE  /\ ~readopen => \A q \in Procs : pc[q] \notin ReadPCs
         /\ ~writeopen => \A q \in Procs : pc[q] \notin WritePCs
<1>1. ASSUME NEW q \in Procs, NEW kind \in {"read", "write"}, Holds(q, kind) PROVE \E f \in Files : type[f] = kind
  <2>1. PICK fd \in FDs : ofile[q][fd] # NoFile /\ type[ofile[q][fd]] = kind
    BY <1>1 DEF Holds
  <2> QED BY <2>1, FileFacts
<1>2. \A q \in Procs : pc[q] \in ReadPCs => readopen
  BY <1>1 DEF FInv, UserShape, EndShape
<1>3. \A q \in Procs : pc[q] \in WritePCs => writeopen
  BY <1>1 DEF FInv, UserShape, EndShape
<1> QED BY <1>2, <1>3

\* The steps on files leave the buffer alone.
LEMMA FileSteps ==
  ASSUME IInv, NEW p \in Procs,
         \/ Start(p) \/ (\E q \in Procs : Fork(p, q)) \/ Exit(p) \/ ExitCloses(p) \/ Reap(p)
         \/ (\E fd \in FDs : Dup(p, fd) \/ Close(p, fd)) \/ FileClose(p)
         \/ PipeAlloc0(p) \/ PipeAlloc1(p)
  PROVE  IInv' /\ UNCHANGED <<nread, nwrite, data, readopen, writeopen, got>>
<1>1. FInv /\ LockShape /\ DataShape /\ NoLostWakeup /\ pc \in [Procs -> PCs]
  BY DEF IInv, FInv, TypeOK
<1>2. FInv'
  BY <1>1, StartStep, ForkStep, ExitStep, ReapStep, DupStep, CloseSteps, FileCloseStep, PipeAllocSteps
<1>3. UNCHANGED <<pipe, lock, unannounced, got>>
  BY DEF Start, Fork, Exit, ExitCloses, Reap, Dup, Close, FileClose, PipeAlloc0, PipeAlloc1
<1>4. \A q \in Procs : \/ pc'[q] = pc[q]
                       \/ pc[q] \notin SleepPCs /\ pc'[q] \notin SleepPCs
  <2>1. CASE Start(p)
    BY <1>1, <2>1 DEF Start, Goto, SleepPCs
  <2>2. CASE \E q \in Procs : Fork(p, q)
    BY <1>1, <2>2 DEF Fork, Goto, SleepPCs
  <2>3. CASE Exit(p)
    BY <1>1, <2>3 DEF Exit, Goto, SleepPCs
  <2>4. CASE ExitCloses(p) \/ \E fd \in FDs : Dup(p, fd)
    BY <2>4 DEF ExitCloses, Dup
  <2>5. CASE Reap(p)
    BY <1>1, <2>5 DEF Reap, Goto, SleepPCs
  <2>6. CASE \E fd \in FDs : Close(p, fd)
    BY <1>1, <2>6 DEF Close, Running, Goto, SleepPCs
  <2>7. CASE FileClose(p)
    <3> DEFINE label == pc'[p]
    <3>1. /\ pc[p] = "close" /\ \A q \in Procs : q # p => pc'[q] = pc[q]
          /\ pc'[p] \in {"close", "close_read", "close_write"}
      BY <1>1, <2>7 DEF FileClose, Goto
    <3> QED BY <3>1 DEF SleepPCs
  <2>8. CASE PipeAlloc0(p)
    BY <1>1, <2>8 DEF PipeAlloc0, Running, Goto, SleepPCs
  <2>9. CASE PipeAlloc1(p)
    BY <1>1, <2>9 DEF PipeAlloc1, Goto, SleepPCs
  <2> QED BY <2>1, <2>2, <2>3, <2>4, <2>5, <2>6, <2>7, <2>8, <2>9
<1>5. LockShape' /\ DataShape' /\ NoLostWakeup'
  BY <1>1, <1>3, <1>4, BufKept
<1> QED BY <1>2, <1>3, <1>5 DEF IInv, pipe

-----------------------------------------------------------------------------
(* The steps of the system calls *)

\* What a call may still have to move.
NVals == {0} \cup UNION {0..m : m \in Lengths}

\* A call has at most its n still to move, and what is left of that.
LEMMA NFacts ==
  /\ NVals \subseteq Nat /\ 0 \in NVals /\ Lengths \subseteq NVals
  /\ \A a \in NVals, b \in Nat : b <= a => b \in NVals
<1>1. Lengths \subseteq Nat
  BY PipeAssumption
<1>2. NVals \subseteq Nat /\ 0 \in NVals
  BY <1>1 DEF NVals
<1>3. ASSUME NEW m \in Lengths PROVE m \in NVals
  <2>1. m \in 0..m
    BY <1>1
  <2> QED BY <2>1 DEF NVals
<1>4. ASSUME NEW a \in NVals, NEW b \in Nat, b <= a PROVE b \in NVals
  <2>1. CASE a = 0
    BY <1>2, <1>4, <2>1
  <2>2. CASE a # 0
    <3>1. PICK m \in Lengths : a \in 0..m
      BY <2>2 DEF NVals
    <3>2. b \in 0..m
      BY <1>1, <1>4, <3>1
    <3> QED BY <3>2 DEF NVals
  <2> QED BY <2>1, <2>2
<1> QED BY <1>2, <1>3, <1>4

\* A step inside a call that changes no file.
LEMMA CallStep ==
  ASSUME FInv, UNCHANGED <<ref, type, ofile, work, exiting, page, readopen, writeopen>>,
         got' = [p \in Procs |-> got'[p]],
         \A q \in Procs : Passes(q),
         \A q \in Procs : pc'[q] = pc[q] \/ {pc[q], pc'[q]} \cap {"close_read", "close_write", "kfree"} = {},
         nread' \in 0..WORD - 1, nwrite' \in 0..WORD - 1, data' \in [0..PIPESIZE - 1 -> Bytes \cup {Junk}],
         lock' \in BOOLEAN, unannounced' \in BOOLEAN, killed' \subseteq Procs, pc' \in [Procs -> PCs],
         n' \in [Procs -> NVals], \A p \in Procs : got'[p] # NoResult => got'[p] \in Seq(Bytes)
  PROVE  FInv'
<1>1. WorkShape' /\ RefShape' /\ KindShape' /\ UserShape'
  BY FilesKept
<1>2. EndShape'
  BY EndKept DEF FInv
<1>3. TypeRest'
  BY FileFacts DEF TypeRest, NVals
<1> QED BY <1>1, <1>2, <1>3, FilesAgain

\* Where a process is, and what it has then.
LEMMA PlaceFacts ==
  ASSUME FInv, NEW q \in Procs
  PROVE  /\ pc[q] \notin AllocPCs \cup ClosePCs => work[q] = <<>> /\ q \notin exiting
         /\ pc[q] \in ReadPCs => Holds(q, "read")
         /\ pc[q] \in WritePCs => Holds(q, "write")
BY DEF FInv, WorkShape, UserShape

\* wakeup(): the others stay inside their calls.
LEMMA WakeFacts ==
  ASSUME FInv, NEW p \in Procs, NEW label \in PCs, NEW s, NEW a, WakeAndGoto(p, label, s, a),
         \/ s = "rasleep" /\ a = "read"
         \/ s = "wasleep" /\ a = "write"
  PROVE  /\ pc' \in [Procs -> PCs] /\ pc'[p] = label
         /\ \A q \in Procs : q # p => /\ pc'[q] = IF pc[q] = s THEN a ELSE pc[q]
                                      /\ Passes(q)
                                      /\ \/ pc'[q] = pc[q]
                                         \/ {pc[q], pc'[q]} \cap {"close_read", "close_write", "kfree"} = {}
<1>1. pc \in [Procs -> PCs]
  BY DEF FInv, TypeOK
<1>2. a \in PCs
  BY DEF PCs, ReadPCs, WritePCs
<1>3. /\ \A q \in Procs : pc'[q] = IF q = p THEN label ELSE IF pc[q] = s THEN a ELSE pc[q]
      /\ pc' \in [Procs -> PCs]
  BY <1>1, <1>2 DEF WakeAndGoto
<1>4. ASSUME NEW q \in Procs, q # p, pc[q] = s
      PROVE  Passes(q) /\ {pc[q], pc'[q]} \cap {"close_read", "close_write", "kfree"} = {}
  <2>1. pc'[q] = a
    BY <1>3, <1>4
  <2>2. work[q] = <<>> /\ q \notin exiting /\ (s = "rasleep" => Holds(q, "read")) /\ (s = "wasleep" => Holds(q, "write"))
    BY <1>4, PlaceFacts DEF AllocPCs, ClosePCs, ReadPCs, WritePCs
  <2> QED BY <1>4, <2>1, <2>2 DEF Passes, AllocPCs, ReadPCs, WritePCs
<1>5. ASSUME NEW q \in Procs, q # p, pc[q] # s PROVE Passes(q) /\ pc'[q] = pc[q]
  BY <1>3, <1>5 DEF Passes
<1> QED BY <1>3, <1>4, <1>5

\* The parts of the invariant, as the next lemmas use them.
LEMMA Parts ==
  ASSUME IInv
  PROVE  /\ FInv /\ LockShape /\ DataShape /\ NoLostWakeup /\ TypeOK /\ TypeRest
         /\ pc \in [Procs -> PCs] /\ n \in [Procs -> NVals] /\ killed \subseteq Procs
         /\ lock \in BOOLEAN /\ unannounced \in BOOLEAN /\ readopen \in BOOLEAN /\ writeopen \in BOOLEAN
         /\ got = [p \in Procs |-> got[p]] /\ \A p \in Procs : got[p] # NoResult => got[p] \in Seq(Bytes)
         /\ nread \in 0..WORD - 1 /\ nwrite \in 0..WORD - 1 /\ data \in [0..PIPESIZE - 1 -> Bytes \cup {Junk}]
BY FileFacts, Shapes DEF IInv, FInv, TypeOK, NVals

\* A step of one process between two places of its calls, the buffer unchanged.
LEMMA MoveStep ==
  ASSUME IInv, NEW p \in Procs, NEW label \in PCs, pc' = [pc EXCEPT ![p] = label], Passes(p),
         label = pc[p] \/ {pc[p], label} \cap {"close_read", "close_write", "kfree"} = {},
         UNCHANGED <<ref, type, ofile, work, exiting, page, pipe, unannounced>>,
         got' = [q \in Procs |-> got'[q]], \A q \in Procs : got'[q] # NoResult => got'[q] \in Seq(Bytes),
         lock' \in BOOLEAN, killed' \subseteq Procs, n' \in [Procs -> NVals]
  PROVE  /\ FInv' /\ DataShape' /\ Count' = Count /\ UNCHANGED <<readopen, writeopen>>
         /\ \A q \in Procs : pc'[q] = IF q = p THEN label ELSE pc[q]
<1>1. \A q \in Procs : pc'[q] = IF q = p THEN label ELSE pc[q]
  BY Parts
<1>2. pc' \in [Procs -> PCs]
  BY Parts
<1>3. UNCHANGED <<nread, nwrite, data, readopen, writeopen>>
  BY DEF pipe
<1>4. \A q \in Procs : Passes(q)
  BY <1>1 DEF Passes
<1>5. \A q \in Procs : pc'[q] = pc[q] \/ {pc[q], pc'[q]} \cap {"close_read", "close_write", "kfree"} = {}
  BY <1>1
<1>6. FInv'
  <2>1. /\ FInv /\ nread' \in 0..WORD - 1 /\ nwrite' \in 0..WORD - 1 /\ data' \in [0..PIPESIZE - 1 -> Bytes \cup {Junk}]
        /\ unannounced' \in BOOLEAN
    BY <1>3, Parts
  <2> QED BY <1>2, <1>3, <1>4, <1>5, <2>1, CallStep
<1>7. DataShape'
  BY <1>3, Parts DEF DataShape, Count
<1> QED BY <1>1, <1>3, <1>6, <1>7 DEF Count

\* Calls that start and end, and a failed sys_pipe() on its way to close.
LEMMA EntrySteps ==
  ASSUME IInv, NEW p \in Procs,
         \/ Closed(p) \/ PipeAllocBad(p) \/ ReadReturns(p)
         \/ \E m \in Lengths : WriteCall(p, m) \/ ReadCall(p, m)
  PROVE  IInv' /\ UNCHANGED <<nread, nwrite, data, readopen, writeopen>>
<1> DEFINE label == pc'[p]
<1>1. /\ pc \in [Procs -> PCs] /\ n \in [Procs -> NVals] /\ FInv
  BY Parts
<1>2. /\ pc' = [pc EXCEPT ![p] = label] /\ label \in {"user", "close", "read", "write"}
      /\ pc[p] \in {"user", "close", "alloc1", "alloc_page", "copied"}
      /\ pc[p] = "close" => label = "user" /\ work[p] = <<>> /\ p \notin exiting
      /\ pc[p] \in {"alloc1", "alloc_page"} => label = "close"
      /\ label = "read" => Holds(p, "read")
      /\ label = "write" => Holds(p, "write")
  <2>1. CASE Closed(p)
    BY <1>1, <2>1 DEF Closed, Goto
  <2>2. CASE PipeAllocBad(p)
    BY <1>1, <2>2 DEF PipeAllocBad, Goto
  <2>3. CASE ReadReturns(p)
    BY <1>1, <2>3 DEF ReadReturns, Goto
  <2>4. CASE \E m \in Lengths : WriteCall(p, m)
    BY <1>1, <2>4 DEF WriteCall, Goto, Running
  <2>5. CASE \E m \in Lengths : ReadCall(p, m)
    BY <1>1, <2>5 DEF ReadCall, Goto, Running
  <2> QED BY <2>1, <2>2, <2>3, <2>4, <2>5
<1>3. /\ UNCHANGED <<ref, type, ofile, work, exiting, page, pipe, unannounced, lock, killed>>
      /\ n' \in [Procs -> NVals] /\ got' = [q \in Procs |-> got'[q]]
      /\ \A q \in Procs : got'[q] # NoResult => got'[q] \in Seq(Bytes)
  <2>1. CASE Closed(p) \/ PipeAllocBad(p)
    BY <2>1, Parts DEF Closed, PipeAllocBad
  <2>2. CASE ReadReturns(p)
    BY <2>2, Parts DEF ReadReturns
  <2>3. CASE \E m \in Lengths : WriteCall(p, m) \/ ReadCall(p, m)
    BY <2>3, Parts, NFacts DEF WriteCall, ReadCall
  <2> QED BY <2>1, <2>2, <2>3
<1> HIDE DEF label
<1>4. label \in PCs
  BY <1>2 DEF PCs, ReadPCs, WritePCs, ClosePCs
<1>5. Passes(p)
  <2>1. pc[p] \in {"user", "copied"} => work[p] = <<>> /\ p \notin exiting
    BY <1>1, PlaceFacts DEF AllocPCs, ClosePCs
  <2>2. pc[p] \in {"alloc1", "alloc_page"} => p \notin exiting
    BY <1>1 DEF FInv, WorkShape, ClosePCs
  <2>3. pc'[p] = label
    BY <1>1, <1>2
  <2> QED BY <1>2, <2>1, <2>2, <2>3 DEF Passes, AllocPCs, ClosePCs, ReadPCs, WritePCs
<1>6. {pc[p], label} \cap {"close_read", "close_write", "kfree"} = {}
  BY <1>2
<1>7. lock' \in BOOLEAN /\ killed' \subseteq Procs /\ pc' = [pc EXCEPT ![p] = label]
  BY <1>2, <1>3, Parts
<1>8. FInv'
  BY <1>3, <1>4, <1>5, <1>6, <1>7, MoveStep
<1>9. LockShape' /\ DataShape' /\ NoLostWakeup'
  <2>1. LockShape /\ DataShape /\ NoLostWakeup /\ UNCHANGED <<pipe, lock, unannounced>>
    BY <1>3, Parts
  <2>2. \A q \in Procs : pc'[q] = pc[q] \/ (pc[q] \notin SleepPCs /\ pc'[q] \notin SleepPCs)
    BY <1>1, <1>2 DEF SleepPCs
  <2> QED BY <2>1, <2>2, BufKept
<1> QED BY <1>3, <1>8, <1>9 DEF IInv, pipe

\* kill() makes a sleeper go back to its loop.
LEMMA KillStep ==
  ASSUME IInv, NEW p \in Procs, Kill(p)
  PROVE  IInv' /\ UNCHANGED <<nread, nwrite, data, readopen, writeopen, got>>
<1> DEFINE label == IF pc[p] = "rasleep" THEN "read" ELSE IF pc[p] = "wasleep" THEN "write" ELSE pc[p]
<1>1. pc' = [pc EXCEPT ![p] = label]
  BY DEF Kill, Goto
<1>2. /\ UNCHANGED <<ref, type, ofile, work, exiting, page, pipe, lock, n, got, unannounced>>
      /\ killed' = killed \cup {p}
  BY DEF Kill
<1>3. label \in PCs
  BY Parts DEF PCs, ReadPCs, WritePCs
<1>4. pc'[p] = label
  BY <1>1, Parts
<1>5. Passes(p)
  <2>1. CASE pc[p] \in {"rasleep", "wasleep"}
    <3>1. work[p] = <<>> /\ p \notin exiting /\ (pc[p] = "rasleep" => Holds(p, "read")) /\ (pc[p] = "wasleep" => Holds(p, "write"))
      BY <2>1, Parts, PlaceFacts DEF AllocPCs, ClosePCs, ReadPCs, WritePCs
    <3> QED BY <1>4, <2>1, <3>1 DEF Passes, AllocPCs, ReadPCs, WritePCs
  <2>2. CASE pc[p] \notin {"rasleep", "wasleep"}
    BY <1>4, <2>2 DEF Passes
  <2> QED BY <2>1, <2>2
<1>6. label = pc[p] \/ {pc[p], label} \cap {"close_read", "close_write", "kfree"} = {}
  OBVIOUS
<1>7. label = pc[p] \/ (pc[p] \in {"rasleep", "wasleep"} /\ label \in {"read", "write"})
  OBVIOUS
<1> HIDE DEF label
<1>8. /\ FInv' /\ DataShape' /\ Count' = Count /\ UNCHANGED <<readopen, writeopen>>
      /\ \A q \in Procs : pc'[q] = IF q = p THEN label ELSE pc[q]
  <2>1. /\ got' = [q \in Procs |-> got'[q]] /\ \A q \in Procs : got'[q] # NoResult => got'[q] \in Seq(Bytes)
        /\ lock' \in BOOLEAN /\ killed' \subseteq Procs /\ n' \in [Procs -> NVals]
    BY <1>2, Parts
  <2>2. UNCHANGED <<ref, type, ofile, work, exiting, page, pipe, unannounced>>
    BY <1>2
  <2> QED BY <1>1, <1>3, <1>5, <1>6, <2>1, <2>2, MoveStep
<1>9. LockShape'
  <2>1. \A q \in Procs : pc'[q] \in {"rsleep", "wsleep"} <=> pc[q] \in {"rsleep", "wsleep"}
    BY <1>7, <1>8
  <2>2. \A q \in Procs : (pc'[q] = "rsleep" <=> pc[q] = "rsleep") /\ (pc'[q] = "wsleep" <=> pc[q] = "wsleep")
    BY <1>7, <1>8
  <2> QED BY <1>2, <1>8, <2>1, <2>2, Parts DEF LockShape
<1>10. NoLostWakeup'
  <2>1. \A q \in Procs : (pc'[q] = "rasleep" => pc[q] = "rasleep") /\ (pc'[q] = "wasleep" => pc[q] = "wasleep")
    BY <1>7, <1>8
  <2> QED BY <1>2, <1>8, <2>1, Parts DEF NoLostWakeup
<1> QED BY <1>2, <1>8, <1>9, <1>10 DEF IInv, pipe

\* sleep() gives up the pipe's lock, and what the sleeper has tested still holds.
LEMMA SleepStep ==
  ASSUME IInv, NEW p \in Procs, Sleep(p, "wsleep", "wasleep") \/ Sleep(p, "rsleep", "rasleep")
  PROVE  IInv' /\ UNCHANGED <<nread, nwrite, data, readopen, writeopen, got>>
<1> DEFINE label == IF pc[p] = "wsleep" THEN "wasleep" ELSE "rasleep"
<1>1. /\ pc' = [pc EXCEPT ![p] = label] /\ pc[p] \in {"wsleep", "rsleep"} /\ lock' = FALSE
      /\ UNCHANGED <<ref, type, ofile, work, exiting, page, pipe, n, got, unannounced, killed>>
  BY DEF Sleep, Goto
<1>2. label \in PCs /\ pc'[p] = label
  BY <1>1, Parts DEF PCs, ReadPCs, WritePCs
<1>3. Passes(p)
  <2>1. work[p] = <<>> /\ p \notin exiting /\ (pc[p] = "rsleep" => Holds(p, "read")) /\ (pc[p] = "wsleep" => Holds(p, "write"))
    BY <1>1, Parts, PlaceFacts DEF AllocPCs, ClosePCs, ReadPCs, WritePCs
  <2> QED BY <1>1, <1>2, <2>1 DEF Passes, AllocPCs, ReadPCs, WritePCs
<1>4. {pc[p], label} \cap {"close_read", "close_write", "kfree"} = {}
  BY <1>1
<1>5. /\ label \in {"wasleep", "rasleep"} /\ (label = "wasleep" => pc[p] = "wsleep") /\ (label = "rasleep" => pc[p] = "rsleep")
  BY <1>1
<1> HIDE DEF label
<1>6. /\ FInv' /\ DataShape' /\ Count' = Count /\ UNCHANGED <<readopen, writeopen>>
      /\ \A q \in Procs : pc'[q] = IF q = p THEN label ELSE pc[q]
  <2>1. /\ got' = [q \in Procs |-> got'[q]] /\ \A q \in Procs : got'[q] # NoResult => got'[q] \in Seq(Bytes)
        /\ lock' \in BOOLEAN /\ killed' \subseteq Procs /\ n' \in [Procs -> NVals]
    BY <1>1, Parts
  <2>2. UNCHANGED <<ref, type, ofile, work, exiting, page, pipe, unannounced>> /\ pc' = [pc EXCEPT ![p] = label]
    BY <1>1
  <2> QED BY <1>2, <1>3, <1>4, <2>1, <2>2, MoveStep
<1>7. LockShape'
  <2>1. \A q \in Procs : pc'[q] \notin {"rsleep", "wsleep"}
    BY <1>1, <1>5, <1>6, Parts DEF LockShape
  <2> QED BY <1>1, <2>1 DEF LockShape
<1>8. NoLostWakeup'
  <2>1. ASSUME NEW q \in Procs
        PROVE  /\ pc'[q] = "rasleep" => writeopen /\ (Count = 0 \/ unannounced)
               /\ pc'[q] = "wasleep" => readopen /\ Count = PIPESIZE
    <3>1. CASE q = p
      BY <1>5, <1>6, <3>1, Parts DEF LockShape
    <3>2. CASE q # p
      BY <1>6, <3>2, Parts DEF NoLostWakeup
    <3> QED BY <3>1, <3>2
  <2> QED BY <1>1, <1>6, <2>1 DEF NoLostWakeup
<1> QED BY <1>1, <1>6, <1>7, <1>8 DEF IInv, pipe

\* piperead() finds the pipe empty: it returns or is about to sleep.
LEMMA ReadEmptyStep ==
  ASSUME IInv, NEW p \in Procs, ReadEmpty(p)
  PROVE  IInv' /\ UNCHANGED <<nread, nwrite, data, readopen, writeopen, got>>
<1> DEFINE label == IF p \in killed THEN "user" ELSE "rsleep"
<1>1. /\ pc' = [pc EXCEPT ![p] = label] /\ pc[p] = "read" /\ lock = FALSE /\ Count = 0 /\ writeopen
      /\ lock' = (label = "rsleep") /\ n' \in [Procs -> NVals]
      /\ UNCHANGED <<ref, type, ofile, work, exiting, page, pipe, got, unannounced, killed>>
  BY Parts, NFacts DEF ReadEmpty, MustWait, Goto
<1>2. label \in PCs /\ pc'[p] = label /\ label \in {"user", "rsleep"}
  BY <1>1, Parts DEF PCs, ReadPCs, WritePCs
<1> HIDE DEF label
<1>3. Passes(p)
  <2>1. work[p] = <<>> /\ p \notin exiting /\ Holds(p, "read")
    BY <1>1, Parts, PlaceFacts DEF AllocPCs, ClosePCs, ReadPCs, WritePCs
  <2> QED BY <1>2, <2>1 DEF Passes, AllocPCs, ReadPCs, WritePCs
<1>4. {pc[p], label} \cap {"close_read", "close_write", "kfree"} = {}
  BY <1>1, <1>2
<1>5. /\ FInv' /\ DataShape' /\ Count' = Count /\ UNCHANGED <<readopen, writeopen>>
      /\ \A q \in Procs : pc'[q] = IF q = p THEN label ELSE pc[q]
  <2>1. /\ got' = [q \in Procs |-> got'[q]] /\ \A q \in Procs : got'[q] # NoResult => got'[q] \in Seq(Bytes)
        /\ lock' \in BOOLEAN /\ killed' \subseteq Procs /\ n' \in [Procs -> NVals]
    BY <1>1, Parts
  <2>2. UNCHANGED <<ref, type, ofile, work, exiting, page, pipe, unannounced>> /\ pc' = [pc EXCEPT ![p] = label]
    BY <1>1
  <2> QED BY <1>2, <1>3, <1>4, <2>1, <2>2, MoveStep
<1>6. \A q \in Procs : pc[q] \notin {"rsleep", "wsleep"}
  BY <1>1, Parts DEF LockShape
<1>7. LockShape'
  <2>1. \A q \in Procs : pc'[q] \in {"rsleep", "wsleep"} <=> q = p /\ label = "rsleep"
    BY <1>2, <1>5, <1>6
  <2>2. lock' <=> \E q \in Procs : pc'[q] \in {"rsleep", "wsleep"}
    BY <1>1, <2>1
  <2>3. \A q \in Procs : (pc'[q] = "rsleep" => writeopen' /\ Count' = 0) /\ pc'[q] # "wsleep"
    BY <1>1, <1>2, <1>5, <1>6
  <2> QED BY <2>1, <2>2, <2>3 DEF LockShape
<1>8. NoLostWakeup'
  <2>1. \A q \in Procs : (pc'[q] = "rasleep" => pc[q] = "rasleep") /\ (pc'[q] = "wasleep" => pc[q] = "wasleep")
    BY <1>2, <1>5
  <2> QED BY <1>1, <1>5, <2>1, Parts DEF NoLostWakeup
<1> QED BY <1>1, <1>5, <1>7, <1>8 DEF IInv, pipe

\* Copying moves bytes in or out and wakes sleepers: the rest of FInv.
LEMMA CopyStep ==
  ASSUME IInv, NEW p \in Procs, pc[p] \in {"read", "write"}, NEW label \in {"user", "copied", "wsleep"},
         label = "copied" => pc[p] = "read", label = "wsleep" => pc[p] = "write",
         pc' \in [Procs -> PCs], pc'[p] = label,
         \A q \in Procs : q # p => /\ Passes(q)
                                   /\ \/ pc'[q] = pc[q]
                                      \/ {pc[q], pc'[q]} \cap {"close_read", "close_write", "kfree"} = {},
         UNCHANGED <<ref, type, ofile, work, exiting, page, readopen, writeopen, killed>>,
         nread' \in 0..WORD - 1, nwrite' \in 0..WORD - 1, data' \in [0..PIPESIZE - 1 -> Bytes \cup {Junk}],
         lock' \in BOOLEAN, unannounced' \in BOOLEAN, n' \in [Procs -> NVals],
         got' = [q \in Procs |-> got'[q]], \A q \in Procs : got'[q] # NoResult => got'[q] \in Seq(Bytes)
  PROVE  FInv'
<1>1. Passes(p)
  <2>1. /\ work[p] = <<>> /\ p \notin exiting /\ (pc[p] = "read" => Holds(p, "read")) /\ (pc[p] = "write" => Holds(p, "write"))
    BY Parts, PlaceFacts DEF AllocPCs, ClosePCs, ReadPCs, WritePCs
  <2> QED BY <2>1 DEF Passes, AllocPCs, ReadPCs, WritePCs
<1>2. \A q \in Procs : Passes(q)
  BY <1>1
<1>3. \A q \in Procs : pc'[q] = pc[q] \/ {pc[q], pc'[q]} \cap {"close_read", "close_write", "kfree"} = {}
  OBVIOUS
<1>4. FInv /\ killed' \subseteq Procs
  BY Parts
<1> QED BY <1>2, <1>3, <1>4, CallStep

\* pipewrite() stores k bytes.  It wakes the readers, or leaves an
\* announcement that was not made.
LEMMA StoreStep ==
  ASSUME IInv, NEW p \in Procs, pc[p] = "write", lock = FALSE, NEW k \in 0..Space, Put(k),
         NEW label \in {"user", "wsleep"}, label = "wsleep" => readopen /\ k = Space,
         lock' \in BOOLEAN, lock' <=> label = "wsleep", n' \in [Procs -> NVals],
         \/ WakeAndGoto(p, label, "rasleep", "read") /\ unannounced' = FALSE
         \/ pc' = [pc EXCEPT ![p] = label] /\ (unannounced' = FALSE => k = 0 /\ unannounced = FALSE),
         unannounced' \in BOOLEAN,
         UNCHANGED <<ref, type, ofile, page, nread, readopen, writeopen, killed, exiting, work, got>>
  PROVE  IInv'
<1>1. /\ Count \in 0..PIPESIZE /\ Space = PIPESIZE - Count
      /\ nwrite' \in 0..WORD - 1 /\ data' \in [0..PIPESIZE - 1 -> Bytes \cup {Junk}]
      /\ Count' = Count + k /\ DataShape'
  BY Parts, BufFacts, PutFacts
<1>2. label \in PCs
  BY DEF PCs, ReadPCs, WritePCs
<1>3. /\ pc' \in [Procs -> PCs] /\ pc'[p] = label
      /\ \A q \in Procs : q # p => /\ Passes(q)
                                   /\ \/ pc'[q] = pc[q]
                                      \/ {pc[q], pc'[q]} \cap {"close_read", "close_write", "kfree"} = {}
                                   /\ pc'[q] = pc[q] \/ (pc[q] = "rasleep" /\ pc'[q] = "read")
                                   /\ (unannounced' = FALSE /\ Count' # Count) => pc'[q] # "rasleep"
  <2>1. CASE WakeAndGoto(p, label, "rasleep", "read") /\ unannounced' = FALSE
    <3>1. /\ pc' \in [Procs -> PCs] /\ pc'[p] = label
          /\ \A q \in Procs : q # p => /\ pc'[q] = IF pc[q] = "rasleep" THEN "read" ELSE pc[q]
                                       /\ Passes(q)
                                       /\ \/ pc'[q] = pc[q]
                                          \/ {pc[q], pc'[q]} \cap {"close_read", "close_write", "kfree"} = {}
      BY <1>2, <2>1, Parts, WakeFacts
    <3>2. \A q \in Procs : q # p => /\ (pc'[q] = pc[q] \/ (pc[q] = "rasleep" /\ pc'[q] = "read"))
                                    /\ pc'[q] # "rasleep"
      BY <3>1
    <3> QED BY <3>1, <3>2
  <2>2. CASE pc' = [pc EXCEPT ![p] = label] /\ (unannounced' = FALSE => k = 0 /\ unannounced = FALSE)
    <3>1. pc' \in [Procs -> PCs] /\ pc'[p] = label /\ \A q \in Procs : q # p => pc'[q] = pc[q]
      BY <1>2, <2>2, Parts
    <3>3. unannounced' = FALSE => Count' = Count
      BY <1>1, <2>2
    <3> QED BY <3>1, <3>3 DEF Passes
  <2> QED BY <2>1, <2>2
<1>5. FInv'
  <2>1. nread' \in 0..WORD - 1 /\ got' = [q \in Procs |-> got'[q]] /\ \A q \in Procs : got'[q] # NoResult => got'[q] \in Seq(Bytes)
    BY Parts
  <2> QED BY <1>1, <1>3, <2>1, CopyStep
<1>6. \A q \in Procs : pc[q] \notin {"rsleep", "wsleep"}
  BY Parts DEF LockShape
<1>7. label = "wsleep" => Count' = PIPESIZE
  BY <1>1, SizeFacts
<1>8. LockShape'
  <2>1. \A q \in Procs : pc'[q] \in {"rsleep", "wsleep"} <=> q = p /\ label = "wsleep"
    BY <1>3, <1>6
  <2>2. lock' <=> \E q \in Procs : pc'[q] \in {"rsleep", "wsleep"}
    BY <2>1
  <2>3. \A q \in Procs : pc'[q] # "rsleep" /\ (pc'[q] = "wsleep" => readopen' /\ Count' = PIPESIZE)
    BY <1>3, <1>6, <1>7
  <2> QED BY <2>1, <2>2, <2>3 DEF LockShape
<1>9. NoLostWakeup'
  <2>1. ASSUME NEW q \in Procs, pc'[q] = "rasleep" PROVE writeopen' /\ (Count' = 0 \/ unannounced')
    <3>1. q # p /\ pc[q] = "rasleep"
      BY <1>3, <2>1
    <3>2. writeopen /\ (Count = 0 \/ unannounced)
      BY <3>1, Parts DEF NoLostWakeup
    <3>3. unannounced' = FALSE => Count' = Count
      BY <1>3, <2>1, <3>1
    <3>4. unannounced' = FALSE => unannounced = FALSE
      <4>1. ~WakeAndGoto(p, label, "rasleep", "read")
        BY <2>1, <3>1 DEF WakeAndGoto
      <4> QED BY <4>1, Parts
    <3> QED BY <3>2, <3>3, <3>4
  <2>2. ASSUME NEW q \in Procs, pc'[q] = "wasleep" PROVE readopen' /\ Count' = PIPESIZE
    <3>1. pc[q] = "wasleep"
      BY <1>3, <2>2
    <3>2. readopen /\ Count = PIPESIZE
      BY <3>1, Parts DEF NoLostWakeup
    <3>3. k = 0
      BY <1>1, <3>2, SizeFacts
    <3> QED BY <1>1, <3>2, <3>3, SizeFacts
  <2> QED BY <2>1, <2>2 DEF NoLostWakeup
<1> QED BY <1>1, <1>5, <1>8, <1>9 DEF IInv

\* The three ways out of pipewrite()'s loop, and how many bytes each stores.
LEMMA WriteSteps ==
  ASSUME IInv, NEW p \in Procs, WriteAll(p) \/ WriteFull(p) \/ WriteFails(p)
  PROVE  /\ IInv' /\ UNCHANGED <<nread, readopen, writeopen, got>> /\ pc[p] = "write"
         /\ \E k \in 0..Space : Put(k)
<1>1. /\ n[p] \in NVals /\ n[p] \in Nat /\ Space \in 0..PIPESIZE /\ Space \in Nat /\ n \in [Procs -> NVals]
  BY Parts, NFacts, BufFacts, SizeFacts
<1>2. CASE WriteAll(p)
  <2>1. /\ pc[p] = "write" /\ lock = FALSE /\ n[p] <= Space /\ Put(n[p]) /\ n' = [n EXCEPT ![p] = 0]
        /\ WakeAndGoto(p, "user", "rasleep", "read") /\ unannounced' = FALSE
        /\ UNCHANGED <<ref, type, ofile, page, nread, readopen, writeopen, lock, killed, exiting, work, got>>
    BY <1>2, Parts DEF WriteAll
  <2>2. n[p] \in 0..Space
    BY <1>1, <2>1
  <2>3. IInv'
    <3>1. n' \in [Procs -> NVals]
      BY <1>1, <2>1, NFacts
    <3>2. lock' \in BOOLEAN /\ ~lock' /\ unannounced' \in BOOLEAN
      BY <2>1
    <3> QED BY <2>1, <2>2, <3>1, <3>2, StoreStep
  <2> QED BY <2>1, <2>2, <2>3
<1>3. Space \in 0..Space
  BY <1>1
<1>4. CASE WriteFull(p)
  <2>1. /\ pc[p] = "write" /\ lock = FALSE /\ n[p] > Space /\ Put(Space) /\ n' = [n EXCEPT ![p] = n[p] - Space]
        /\ WakeAndGoto(p, "wsleep", "rasleep", "read") /\ unannounced' = FALSE /\ readopen /\ lock' = TRUE
        /\ UNCHANGED <<ref, type, ofile, page, nread, readopen, writeopen, killed, exiting, work, got>>
    BY <1>4, Parts DEF WriteFull
  <2>2. n' \in [Procs -> NVals]
    <3> DEFINE b == n[p] - Space
    <3>1. b \in Nat /\ b <= n[p]
      BY <1>1, <2>1
    <3>2. b \in NVals
      BY <1>1, <3>1, NFacts
    <3> QED BY <1>1, <2>1, <3>2
  <2>3. IInv'
    <3>1. lock' \in BOOLEAN /\ lock' /\ unannounced' \in BOOLEAN
      BY <2>1
    <3> QED BY <1>3, <2>1, <2>2, <3>1, StoreStep
  <2> QED BY <1>3, <2>1, <2>3
<1>5. CASE WriteFails(p)
  <2>1. /\ pc[p] = "write" /\ lock = FALSE /\ Put(Space) /\ n' = [n EXCEPT ![p] = 0]
        /\ pc' = [pc EXCEPT ![p] = "user"] /\ unannounced' = (unannounced \/ Space > 0)
        /\ UNCHANGED <<ref, type, ofile, page, nread, readopen, writeopen, lock, killed, exiting, work, got>>
    BY <1>5, Parts DEF WriteFails, Goto
  <2>2. n' \in [Procs -> NVals]
    BY <1>1, <2>1, NFacts
  <2>3. IInv'
    <3>1. lock' \in BOOLEAN /\ ~lock' /\ unannounced' \in BOOLEAN
      BY <2>1, Parts
    <3>2. unannounced' = FALSE => Space = 0 /\ unannounced = FALSE
      <4>1. Space > 0 => unannounced' = TRUE
        BY <2>1
      <4>2. ~(Space > 0) => unannounced' = unannounced
        BY <2>1, Parts
      <4>3. ~(Space > 0) => Space = 0
        BY <1>1
      <4> QED BY <4>1, <4>2, <4>3
    <3> QED BY <1>3, <2>1, <2>2, <3>1, <3>2, StoreStep
  <2> QED BY <1>3, <2>1, <2>3
<1> QED BY <1>2, <1>4, <1>5

\* piperead() takes the bytes it was asked for, or as many as there are, and
\* wakes the writers.
LEMMA ReadBytesStep ==
  ASSUME IInv, NEW p \in Procs, ReadBytes(p)
  PROVE  /\ IInv' /\ Smaller(n[p], Count) \in 0..Count /\ pc[p] = "read"
         /\ nread' = (nread + Smaller(n[p], Count)) % WORD /\ ~MustWait
         /\ got' = [got EXCEPT ![p] = [i \in 1..Smaller(n[p], Count) |-> data[Slot(i)]]]
         /\ UNCHANGED <<nwrite, data, readopen, writeopen>>
<1> DEFINE k == Smaller(n[p], Count)
<1>1. /\ pc[p] = "read" /\ lock = FALSE /\ ~MustWait
      /\ got' = [got EXCEPT ![p] = [i \in 1..k |-> data[Slot(i)]]]
      /\ nread' = (nread + k) % WORD /\ n' = [n EXCEPT ![p] = 0]
      /\ WakeAndGoto(p, "copied", "wasleep", "write")
      /\ UNCHANGED <<exiting, ref, type, ofile, page, nwrite, data, readopen, writeopen, lock,
                     killed, work, unannounced>>
  BY Parts DEF ReadBytes, Slot
<1>2. k \in 0..Count
  <2>1. n[p] \in Nat /\ Count \in Nat
    BY Parts, NFacts, BufFacts, SizeFacts
  <2> DEFINE c == Count
  <2>2. c \in Nat
    BY <2>1
  <2> HIDE DEF c
  <2>3. Smaller(n[p], c) \in 0..c
    BY <2>1, <2>2 DEF Smaller
  <2> QED BY <2>3 DEF c
<1> HIDE DEF k
<1>3. nread' \in 0..WORD - 1 /\ Count' = Count - k /\ DataShape' /\ Count \in 0..PIPESIZE
  BY <1>1, <1>2, Parts, TakeFacts, BufFacts
<1>4. got' = [q \in Procs |-> got'[q]] /\ \A q \in Procs : got'[q] # NoResult => got'[q] \in Seq(Bytes)
  <2> DEFINE s == [i \in 1..k |-> data[Slot(i)]]
  <2>1. k \in Nat /\ \A i \in 1..k : i \in 1..Count
    BY <1>2, <1>3, SizeFacts
  <2>2. \A i \in 1..k : data[Slot(i)] \in Bytes
    BY <2>1, Parts, BufFacts
  <2>3. s \in Seq(Bytes)
    BY <2>1, <2>2
  <2> HIDE DEF s
  <2>4. got' = [got EXCEPT ![p] = s]
    BY <1>1 DEF s
  <2> QED BY <2>3, <2>4, Parts
<1>5. /\ pc' \in [Procs -> PCs] /\ pc'[p] = "copied"
      /\ \A q \in Procs : q # p => /\ pc'[q] = IF pc[q] = "wasleep" THEN "write" ELSE pc[q]
                                   /\ Passes(q)
                                   /\ \/ pc'[q] = pc[q]
                                      \/ {pc[q], pc'[q]} \cap {"close_read", "close_write", "kfree"} = {}
  <2>1. "copied" \in PCs
    BY DEF PCs, ReadPCs
  <2> QED BY <1>1, <2>1, Parts, WakeFacts
<1>6. FInv'
  <2>1. /\ n' \in [Procs -> NVals] /\ lock' \in BOOLEAN /\ unannounced' \in BOOLEAN
        /\ nwrite' \in 0..WORD - 1 /\ data' \in [0..PIPESIZE - 1 -> Bytes \cup {Junk}]
    BY <1>1, Parts, NFacts
  <2>2. /\ pc[p] \in {"read", "write"} /\ "copied" \in {"user", "copied", "wsleep"}
        /\ UNCHANGED <<ref, type, ofile, work, exiting, page, readopen, writeopen, killed>>
    BY <1>1
  <2> QED BY <1>1, <1>3, <1>4, <1>5, <2>1, <2>2, CopyStep
<1>7. LockShape'
  <2>1. \A q \in Procs : pc[q] \notin {"rsleep", "wsleep"}
    BY <1>1, Parts DEF LockShape
  <2>2. \A q \in Procs : pc'[q] \notin {"rsleep", "wsleep"}
    BY <1>5, <2>1
  <2> QED BY <1>1, <2>2 DEF LockShape
<1>8. NoLostWakeup'
  <2>1. ASSUME NEW q \in Procs, pc'[q] = "rasleep" PROVE writeopen' /\ (Count' = 0 \/ unannounced')
    <3>1. pc[q] = "rasleep"
      BY <1>5, <2>1
    <3>2. writeopen /\ (Count = 0 \/ unannounced)
      BY <3>1, Parts DEF NoLostWakeup
    <3>3. Count = 0 => Count' = 0
      <4>1. Count = 0 => k = 0
        BY <1>2
      <4> QED BY <1>3, <4>1
    <3> QED BY <1>1, <3>2, <3>3
  <2>2. \A q \in Procs : pc'[q] # "wasleep"
    BY <1>5
  <2> QED BY <2>1, <2>2 DEF NoLostWakeup
<1> QED BY <1>1, <1>2, <1>3, <1>6, <1>7, <1>8 DEF IInv, k

\* pipeclose() of one end: it wakes who waits for it, and goes on to kfree()
\* when the other end is closed too.
LEMMA PipeCloseStep ==
  ASSUME IInv, NEW p \in Procs, PipeClose(p, "close_read", "read") \/ PipeClose(p, "close_write", "write")
  PROVE  IInv' /\ UNCHANGED <<nread, nwrite, data, got>>
<1> DEFINE label == IF Frees(readopen', writeopen') THEN "kfree" ELSE "close"
<1>1. /\ pc[p] \in {"close_read", "close_write"} /\ lock = FALSE
      /\ UNCHANGED <<exiting, ref, type, ofile, page, nread, nwrite, data, lock, killed, n, work, got>>
  BY Parts DEF PipeClose
<1>2. \/ /\ pc[p] = "close_read" /\ readopen' = FALSE /\ writeopen' = writeopen
         /\ WakeAndGoto(p, label, "wasleep", "write") /\ unannounced' = unannounced
      \/ /\ pc[p] = "close_write" /\ readopen' = readopen /\ writeopen' = FALSE
         /\ WakeAndGoto(p, label, "rasleep", "read") /\ unannounced' = FALSE
  <2>1. CASE PipeClose(p, "close_read", "read")
    BY <2>1, Parts DEF PipeClose, CloseEndWake
  <2>2. CASE PipeClose(p, "close_write", "write")
    BY <2>2, Parts DEF PipeClose, CloseEndWake
  <2> QED BY <2>1, <2>2
<1>3. /\ label \in {"close", "kfree"} /\ label \in PCs /\ (label = "kfree" <=> ~readopen' /\ ~writeopen')
  BY DEF Frees, PCs, ClosePCs
<1> HIDE DEF label
<1>4. /\ pc' \in [Procs -> PCs] /\ pc'[p] = label
      /\ \A q \in Procs : q # p => /\ pc'[q] = pc[q] \/ (pc[q] = "wasleep" /\ pc'[q] = "write")
                                                     \/ (pc[q] = "rasleep" /\ pc'[q] = "read")
                                   /\ Passes(q)
      /\ pc[p] = "close_read" => \A q \in Procs : pc'[q] # "wasleep"
      /\ pc[p] = "close_write" => \A q \in Procs : pc'[q] # "rasleep"
  <2>1. CASE WakeAndGoto(p, label, "wasleep", "write") /\ pc[p] = "close_read"
    <3>1. /\ pc' \in [Procs -> PCs] /\ pc'[p] = label
          /\ \A q \in Procs : q # p => pc'[q] = (IF pc[q] = "wasleep" THEN "write" ELSE pc[q]) /\ Passes(q)
      BY <1>3, <2>1, Parts, WakeFacts
    <3>2. \A q \in Procs : pc'[q] # "wasleep"
      BY <1>3, <3>1
    <3> QED BY <2>1, <3>1, <3>2
  <2>2. CASE WakeAndGoto(p, label, "rasleep", "read") /\ pc[p] = "close_write"
    <3>1. /\ pc' \in [Procs -> PCs] /\ pc'[p] = label
          /\ \A q \in Procs : q # p => pc'[q] = (IF pc[q] = "rasleep" THEN "read" ELSE pc[q]) /\ Passes(q)
      BY <1>3, <2>2, Parts, WakeFacts
    <3>2. \A q \in Procs : pc'[q] # "rasleep"
      BY <1>3, <3>1
    <3> QED BY <2>2, <3>1, <3>2
  <2> QED BY <1>2, <2>1, <2>2
<1>5. Passes(p)
  BY <1>3, <1>4 DEF Passes, AllocPCs, ReadPCs, WritePCs, ClosePCs
<1>6. WorkShape' /\ RefShape' /\ KindShape' /\ UserShape'
  <2>1. \A q \in Procs : Passes(q)
    BY <1>4, <1>5
  <2>2. got' = [q \in Procs |-> got'[q]]
    BY <1>1, Parts
  <2> QED BY <1>1, <2>1, <2>2, Parts, FilesKept
<1>7. TypeRest'
  <2>1. readopen' \in BOOLEAN /\ writeopen' \in BOOLEAN /\ unannounced' \in BOOLEAN
    BY <1>2, Parts
  <2>2. TypeRest
    BY Parts
  <2> QED BY <1>1, <1>4, <2>1, <2>2 DEF TypeRest
<1>8. EndShape'
  <2>1. EndShape
    BY Parts DEF FInv
  <2>2. \A q \in Procs : q # p => /\ pc'[q] = "close_read" <=> pc[q] = "close_read"
                                  /\ pc'[q] = "close_write" <=> pc[q] = "close_write"
                                  /\ pc'[q] = "kfree" <=> pc[q] = "kfree"
    BY <1>4
  <2>3. pc'[p] \notin {"close_read", "close_write"}
    BY <1>3, <1>4
  <2>4. \A q \in Procs : pc[q] # "kfree"
    BY <1>1, <2>1 DEF EndShape
  <2>5. page'
    <3>1. readopen \/ writeopen
      BY <1>1, <2>1 DEF EndShape
    <3> QED BY <1>1, <2>1, <3>1 DEF EndShape
  <2>6. \A q \in Procs : pc'[q] = "kfree" <=> q = p /\ label = "kfree"
    BY <1>4, <2>2, <2>4
  <2>7. page' <=> readopen' \/ writeopen' \/ \E q \in Procs : pc'[q] = "kfree"
    BY <1>3, <2>5, <2>6
  <2>8. \A q, r \in Procs : pc'[q] = pc'[r] /\ pc'[q] \in {"close_read", "close_write", "kfree"} => q = r
    BY <2>1, <2>2, <2>3, <2>6 DEF EndShape
  <2>9. CASE pc[p] = "close_read"
    <3>1. readopen' = FALSE /\ writeopen' = writeopen
      BY <1>2, <2>9
    <3>2. \A f \in Files : type[f] # "read"
      BY <2>1, <2>9 DEF EndShape
    <3>3. \A q \in Procs : pc'[q] # "close_read"
      BY <2>1, <2>2, <2>3, <2>9 DEF EndShape
    <3>4. \A q \in Procs : pc'[q] = "close_write" <=> pc[q] = "close_write"
      BY <2>2, <2>3, <2>9
    <3>5. writeopen' <=> (\E f \in Files : type'[f] = "write") \/ \E q \in Procs : pc'[q] = "close_write"
      BY <1>1, <2>1, <3>1, <3>4 DEF EndShape
    <3> QED BY <1>1, <1>3, <2>1, <2>6, <2>7, <2>8, <3>1, <3>2, <3>3, <3>4, <3>5 DEF EndShape
  <2>10. CASE pc[p] = "close_write"
    <3>1. writeopen' = FALSE /\ readopen' = readopen
      BY <1>2, <2>10
    <3>2. \A f \in Files : type[f] # "write"
      BY <2>1, <2>10 DEF EndShape
    <3>3. \A q \in Procs : pc'[q] # "close_write"
      BY <2>1, <2>2, <2>3, <2>10 DEF EndShape
    <3>4. \A q \in Procs : pc'[q] = "close_read" <=> pc[q] = "close_read"
      BY <2>2, <2>3, <2>10
    <3>5. readopen' <=> (\E f \in Files : type'[f] = "read") \/ \E q \in Procs : pc'[q] = "close_read"
      BY <1>1, <2>1, <3>1, <3>4 DEF EndShape
    <3> QED BY <1>1, <1>3, <2>1, <2>6, <2>7, <2>8, <3>1, <3>2, <3>3, <3>4, <3>5 DEF EndShape
  <2> QED BY <1>1, <2>9, <2>10
<1>9. LockShape'
  <2>1. \A q \in Procs : pc[q] \notin {"rsleep", "wsleep"}
    BY <1>1, Parts DEF LockShape
  <2>2. \A q \in Procs : pc'[q] \notin {"rsleep", "wsleep"}
    BY <1>3, <1>4, <2>1
  <2> QED BY <1>1, <2>2 DEF LockShape
<1>10. Count' = Count /\ DataShape'
  <2>1. Count' = Count
    BY <1>1 DEF Count
  <2> QED BY <1>1, <2>1, Parts DEF DataShape
<1>11. NoLostWakeup'
  <2>1. ASSUME NEW q \in Procs, pc'[q] = "rasleep" PROVE writeopen' /\ (Count' = 0 \/ unannounced')
    <3>1. pc[q] = "rasleep" /\ pc[p] = "close_read"
      BY <1>1, <1>3, <1>4, <2>1
    <3>2. writeopen' = writeopen /\ unannounced' = unannounced
      BY <1>2, <3>1
    <3> QED BY <1>10, <3>1, <3>2, Parts DEF NoLostWakeup
  <2>2. ASSUME NEW q \in Procs, pc'[q] = "wasleep" PROVE readopen' /\ Count' = PIPESIZE
    <3>1. pc[q] = "wasleep" /\ pc[p] = "close_write"
      BY <1>1, <1>3, <1>4, <2>2
    <3>2. readopen' = readopen
      BY <1>2, <3>1
    <3> QED BY <1>10, <3>1, <3>2, Parts DEF NoLostWakeup
  <2> QED BY <2>1, <2>2 DEF NoLostWakeup
<1>12. FInv'
  BY <1>6, <1>7, <1>8, FilesAgain
<1> QED BY <1>1, <1>9, <1>10, <1>11, <1>12 DEF IInv

\* An empty page has nothing to read, and without two open ends nobody waits.
LEMMA EmptyFacts ==
  ASSUME nread' = 0, nwrite' = 0, data' = EmptyPage
  PROVE  /\ Count' = 0 /\ DataShape'
         /\ nread' \in 0..WORD - 1 /\ nwrite' \in 0..WORD - 1 /\ data' \in [0..PIPESIZE - 1 -> Bytes \cup {Junk}]
<1>1. Count' = (0 - 0) % WORD
  BY DEF Count
<1>2. (0 - 0) % WORD = 0
  BY SizeFacts, ModCases
<1>3. Count' = 0
  BY <1>1, <1>2
<1>4. 0 \in 0..WORD - 1 /\ EmptyPage \in [0..PIPESIZE - 1 -> Bytes \cup {Junk}]
  BY SizeFacts DEF EmptyPage
<1>5. DataShape'
  <2>1. Count' <= PIPESIZE
    BY <1>3, SizeFacts
  <2>2. \A i \in 1..Count' : FALSE
    BY <1>3
  <2> QED BY <2>1, <2>2 DEF DataShape
<1> QED BY <1>3, <1>4, <1>5

\* kfree() of the page that both ends have left.
LEMMA PipeFreeStep ==
  ASSUME IInv, NEW p \in Procs, PipeFree(p)
  PROVE  IInv' /\ UNCHANGED <<readopen, writeopen, got>> /\ readopen = FALSE /\ writeopen = FALSE
<1>1. /\ pc[p] = "kfree" /\ page' = FALSE /\ nread' = 0 /\ nwrite' = 0 /\ data' = EmptyPage
      /\ unannounced' = FALSE /\ pc' = [pc EXCEPT ![p] = "close"]
      /\ UNCHANGED <<exiting, ref, type, ofile, readopen, writeopen, lock, killed, n, work, got>>
  BY DEF PipeFree, Goto
<1>2. FInv /\ EndShape /\ LockShape /\ pc \in [Procs -> PCs]
  BY Parts DEF FInv
<1>3. readopen = FALSE /\ writeopen = FALSE /\ \A q \in Procs : pc[q] = "kfree" => q = p
  BY <1>1, <1>2, Parts DEF EndShape
<1>4. \A q \in Procs : pc[q] \notin ReadPCs \cup WritePCs
  BY <1>2, <1>3, NoUsers
<1>5. /\ \A q \in Procs : pc'[q] = IF q = p THEN "close" ELSE pc[q]
      /\ pc' \in [Procs -> PCs]
  BY <1>1, <1>2 DEF PCs, ClosePCs
<1>6. /\ Count' = 0 /\ DataShape'
      /\ nread' \in 0..WORD - 1 /\ nwrite' \in 0..WORD - 1 /\ data' \in [0..PIPESIZE - 1 -> Bytes \cup {Junk}]
  BY <1>1, EmptyFacts
<1>7. TypeRest'
  <2>1. TypeRest
    BY Parts
  <2> QED BY <1>1, <1>5, <1>6, <2>1 DEF TypeRest
<1>8. WorkShape' /\ RefShape' /\ KindShape' /\ UserShape'
  <2>1. \A q \in Procs : Passes(q)
    BY <1>5 DEF Passes, AllocPCs, ClosePCs, ReadPCs, WritePCs
  <2>2. got' = [q \in Procs |-> got'[q]]
    BY <1>1, Parts
  <2> QED BY <1>1, <1>2, <2>1, <2>2, FilesKept
<1>9. EndShape'
  <2>1. \A q \in Procs : /\ pc'[q] = "close_read" <=> pc[q] = "close_read"
                         /\ pc'[q] = "close_write" <=> pc[q] = "close_write"
                         /\ pc'[q] # "kfree"
    BY <1>1, <1>3, <1>5
  <2> QED BY <1>1, <1>2, <1>3, <2>1 DEF EndShape
<1>10. \A q \in Procs : pc'[q] \notin SleepPCs
  BY <1>4, <1>5 DEF SleepPCs, ReadPCs, WritePCs
<1>11. \A q \in Procs : pc[q] \notin SleepPCs
  BY <1>4 DEF SleepPCs, ReadPCs, WritePCs
<1>12. LockShape'
  BY <1>1, <1>2, <1>10, <1>11 DEF LockShape, SleepPCs
<1>13. NoLostWakeup'
  BY <1>10 DEF NoLostWakeup, SleepPCs
<1>14. FInv'
  BY <1>7, <1>8, <1>9, FilesAgain
<1> QED BY <1>1, <1>3, <1>6, <1>12, <1>13, <1>14 DEF IInv

\* A new pipe is empty, and nobody waits for it.
LEMMA PipePageFacts ==
  ASSUME IInv, NEW p \in Procs, PipeAllocPage(p)
  PROVE  /\ IInv' /\ readopen = FALSE /\ writeopen = FALSE /\ readopen' = TRUE /\ writeopen' = TRUE
         /\ Count' = 0 /\ got' = got
<1>1. /\ pc[p] = "alloc_page" /\ page = FALSE /\ readopen' = TRUE /\ writeopen' = TRUE
      /\ nread' = 0 /\ nwrite' = 0 /\ data' = EmptyPage /\ UNCHANGED <<lock, got>>
  BY Parts DEF PipeAllocPage, NewPipe, FdAllocBoth, TypeRest
<1>2. FInv /\ EndShape /\ LockShape /\ pc \in [Procs -> PCs]
  BY Parts DEF FInv
<1>3. readopen = FALSE /\ writeopen = FALSE
  BY <1>1, <1>2, Parts DEF EndShape
<1>4. \A q \in Procs : pc[q] \notin ReadPCs \cup WritePCs
  BY <1>2, <1>3, NoUsers
<1>5. FInv'
  BY <1>2, PipePageStep
<1>6. \A q \in Procs : pc'[q] \in {pc[q], "user", "close"}
  BY <1>2 DEF PipeAllocPage, NewPipe, FdAllocBoth, Goto
<1>7. Count' = 0 /\ DataShape'
  BY <1>1, EmptyFacts
<1>8. \A q \in Procs : pc'[q] \notin SleepPCs /\ pc[q] \notin SleepPCs
  BY <1>4, <1>6 DEF SleepPCs, ReadPCs, WritePCs
<1>9. LockShape'
  BY <1>1, <1>2, <1>8 DEF LockShape, SleepPCs
<1>10. NoLostWakeup'
  BY <1>8 DEF NoLostWakeup, SleepPCs
<1> QED BY <1>1, <1>3, <1>5, <1>7, <1>9, <1>10 DEF IInv

-----------------------------------------------------------------------------
(* The invariant holds *)

\* At boot nothing is open, and only the console is counted.
LEMMA InitFacts == Init => IInv
<1> SUFFICES ASSUME Init PROVE IInv
  OBVIOUS
<1>1. /\ \A f \in Files : ref[f] = Extra(f) /\ type[f] = IF f = Console THEN "inode" ELSE "none"
      /\ \A p \in Procs, fd \in FDs : ofile[p][fd] = NoFile
      /\ \A p \in Procs : pc[p] = "dead" /\ work[p] = <<>> /\ got[p] = NoResult
      /\ page = FALSE /\ readopen = FALSE /\ writeopen = FALSE /\ lock = FALSE /\ exiting = {}
      /\ nread = 0 /\ nwrite = 0
      /\ work = [p \in Procs |-> work[p]] /\ got = [p \in Procs |-> got[p]]
  BY DEF Init, Extra, NoFds
<1>2. ASSUME NEW f \in Files PROVE Names(held, f) = 0
  <2>1. ASSUME NEW s \in Places PROVE held[s] = NoFile
    <3>1. s[1] \in Procs
      BY PlaceCases
    <3>2. Len(work[s[1]]) = 0
      BY <1>1, <3>1
    <3>3. s[2] \notin FDs => ~(1 - s[2] <= 0)
      BY PlaceCases
    <3> QED BY <1>1, <3>1, <3>2, <3>3 DEF held, HeldOf
  <2>2. Naming(held, f) = {}
    BY <2>1, SizeFacts DEF Naming
  <2> QED BY <2>2, FS_EmptySet DEF Names
<1>3. ref \in [Files -> 0..Cardinality(Procs) * (NOFILE + 1) + 1]
  <2> DEFINE c == Cardinality(Procs)
  <2> DEFINE m == NOFILE + 1
  <2>1. c \in Nat /\ m \in Nat
    BY PipeAssumption, SizeFacts, FS_CardinalityType
  <2> HIDE DEF c, m
  <2>2. c * m \in Nat
    BY <2>1
  <2> DEFINE z == c * m
  <2>3. 0 \in 0..z + 1 /\ 1 \in 0..z + 1
    BY <2>2
  <2> HIDE DEF z
  <2>4. ref \in [Files -> 0..z + 1]
    BY <2>3 DEF Init
  <2> QED BY <2>4 DEF z, c, m
<1>4. TypeOK
  <2>1. 0 \in 0..WORD - 1 /\ EmptyPage \in [0..PIPESIZE - 1 -> Bytes \cup {Junk}]
    BY SizeFacts DEF EmptyPage
  <2>2. \A p \in Procs : work[p] \in Seq(Files) /\ (got[p] # NoResult => got[p] \in Seq(Bytes))
    <3>1. <<>> \in Seq(Files)
      OBVIOUS
    <3>2. \A p \in Procs : work[p] = <<>> /\ got[p] = NoResult
      BY <1>1
    <3> QED BY <3>1, <3>2
  <2>3. ofile \in [Procs -> [FDs -> Files \cup {NoFile}]]
    BY DEF Init, NoFds
  <2>4. n \in [Procs -> {0} \cup UNION {0..m : m \in Lengths}] /\ pc \in [Procs -> PCs]
    BY DEF Init, PCs
  <2>5. type \in [Files -> {"none", "inode", "read", "write"}]
    BY DEF Init
  <2>6. data = EmptyPage /\ killed = {} /\ unannounced = FALSE
    BY DEF Init
  <2> QED BY <1>1, <1>3, <2>1, <2>2, <2>3, <2>4, <2>5, <2>6 DEF TypeOK
<1>5. WorkShape
  BY <1>1 DEF WorkShape, AllocPCs, ClosePCs
<1>6. RefShape
  <2>1. \A f \in Files : Extra(f) \in {0, 1}
    BY DEF Extra
  <2> QED BY <1>1, <1>2, <2>1 DEF RefShape
<1>7. KindShape
  BY <1>1 DEF KindShape, AllocPCs, Extra
<1>8. EndShape
  BY <1>1 DEF EndShape
<1>9. UserShape /\ LockShape /\ NoLostWakeup
  BY <1>1 DEF UserShape, ReadPCs, WritePCs, LockShape, NoLostWakeup
<1>10. DataShape
  <2>1. (0 - 0) % WORD = 0
    BY SizeFacts, ModCases
  <2>2. Count = 0
    BY <1>1, <2>1 DEF Count
  <2>3. Count <= PIPESIZE /\ \A i \in 1..Count : FALSE
    BY <2>2, SizeFacts
  <2> QED BY <2>3 DEF DataShape
<1> QED BY <1>4, <1>5, <1>6, <1>7, <1>8, <1>9, <1>10 DEF IInv, FInv

\* Every step is one of these.
LEMMA StepCases ==
  ASSUME Next
  PROVE  \E p \in Procs :
           \/ \/ Start(p) \/ (\E q \in Procs : Fork(p, q)) \/ Exit(p) \/ ExitCloses(p) \/ Reap(p)
              \/ (\E fd \in FDs : Dup(p, fd) \/ Close(p, fd)) \/ FileClose(p)
              \/ PipeAlloc0(p) \/ PipeAlloc1(p)
           \/ \/ Closed(p) \/ PipeAllocBad(p) \/ ReadReturns(p)
              \/ \E m \in Lengths : WriteCall(p, m) \/ ReadCall(p, m)
           \/ Kill(p) \/ Sleep(p, "wsleep", "wasleep") \/ Sleep(p, "rsleep", "rasleep") \/ ReadEmpty(p)
           \/ WriteAll(p) \/ WriteFull(p) \/ WriteFails(p)
           \/ ReadBytes(p)
           \/ PipeClose(p, "close_read", "read") \/ PipeClose(p, "close_write", "write")
           \/ PipeFree(p) \/ PipeAllocPage(p)
<1>1. PICK p \in Procs : Kernel(p) \/ Calls(p) \/ Kill(p)
  BY DEF Next
<1>2. CASE Kernel(p)
  BY <1>2 DEF Kernel
<1>3. CASE Calls(p)
  BY <1>3 DEF Calls
<1> QED BY <1>1, <1>2, <1>3

\* Every step keeps the invariant.
LEMMA InductiveStep == IInv /\ [Next]_vars => IInv'
<1> SUFFICES ASSUME IInv, [Next]_vars PROVE IInv'
  OBVIOUS
<1>1. CASE Next
  BY <1>1, StepCases, FileSteps, EntrySteps, KillStep, SleepStep, ReadEmptyStep, WriteSteps, ReadBytesStep,
     PipeCloseStep, PipeFreeStep, PipePageFacts
<1>2. CASE UNCHANGED vars
  <2>1. UNCHANGED <<ref, type, ofile, page, nread, nwrite, data, readopen, writeopen, lock, killed,
                    exiting, pc, n, work, got, unannounced>>
    BY <1>2 DEF vars, pipe
  <2>2. Count' = Count /\ held' = held
    BY <2>1 DEF Count, held, HeldOf
  <2>3. TypeOK' /\ WorkShape' /\ KindShape' /\ EndShape' /\ UserShape'
    BY <2>1 DEF IInv, FInv, TypeOK, WorkShape, KindShape, EndShape, UserShape, Holds
  <2>4. RefShape'
    BY <2>1, <2>2 DEF IInv, FInv, RefShape, Extra, Names, Naming
  <2>5. LockShape' /\ DataShape' /\ NoLostWakeup'
    BY <2>1, <2>2 DEF IInv, LockShape, DataShape, NoLostWakeup
  <2> QED BY <2>3, <2>4, <2>5 DEF IInv, FInv
<1> QED BY <1>1, <1>2

\* The inductive invariant holds in every reachable state.
LEMMA Inductive == Spec => []IInv
BY InitFacts, InductiveStep, PTL DEF Spec

\* The open-file table, the descriptors, the pipe and the places of the
\* processes keep their types; f->ref in particular stays within its bound.
THEOREM TypeCorrect == Spec => []TypeOK
<1>1. IInv => TypeOK
  BY DEF IInv, FInv
<1> QED BY <1>1, Inductive, PTL

\* The invariant has what PipeInUse says.
LEMMA InUse == IInv => PipeInUse
<1> SUFFICES ASSUME IInv PROVE PipeInUse
  OBVIOUS
<1>1. FInv /\ EndShape /\ KindShape /\ readopen \in BOOLEAN /\ writeopen \in BOOLEAN /\ page \in BOOLEAN
  BY Parts DEF FInv, TypeOK
<1>2. ASSUME NEW f \in Files \ {Console}, ref[f] = 0 PROVE References(f) = 0 /\ type[f] = "none"
  <2> DEFINE A == {s \in Procs \X FDs : ofile[s[1]][s[2]] = f}
  <2> DEFINE B == {p \in Procs : \E i \in DOMAIN work[p] : work[p][i] = f}
  <2>1. A = {}
    <3>1. ASSUME NEW s \in Procs \X FDs, ofile[s[1]][s[2]] = f PROVE FALSE
      <4>1. s[1] \in Procs /\ s[2] \in FDs /\ f # NoFile
        BY SizeFacts
      <4>2. ref[f] >= 1
        BY <1>1, <3>1, <4>1, FileFacts
      <4> QED BY <1>2, <4>2
    <3> QED BY <3>1
  <2>2. B = {}
    <3>1. ASSUME NEW p \in Procs, NEW i \in DOMAIN work[p], work[p][i] = f PROVE FALSE
      <4>1. i \in 1..Len(work[p])
        BY <1>1, Shapes
      <4>2. ref[f] >= 1
        BY <1>1, <3>1, <4>1, FileFacts
      <4> QED BY <1>2, <4>2
    <3> QED BY <3>1
  <2>3. References(f) = Cardinality(A) + Cardinality(B)
    BY DEF References
  <2> HIDE DEF A, B
  <2>4. References(f) = 0
    BY <2>1, <2>2, <2>3, FS_EmptySet
  <2> QED BY <1>1, <1>2, <2>4 DEF KindShape
<1>3. \A p \in Procs, fd \in FDs : ofile[p][fd] # NoFile => type[ofile[p][fd]] # "none"
  BY <1>1 DEF KindShape
<1>4. readopen = ((\E f \in Files : type[f] = "read") \/ \E p \in Procs : pc[p] = "close_read")
  BY <1>1 DEF EndShape
<1>5. writeopen = ((\E f \in Files : type[f] = "write") \/ \E p \in Procs : pc[p] = "close_write")
  BY <1>1 DEF EndShape
<1>6. page = (readopen \/ writeopen \/ \E p \in Procs : pc[p] = "kfree")
  BY <1>1 DEF EndShape
<1>7. \A p \in Procs : /\ pc[p] \in ReadPCs => page /\ readopen
                       /\ pc[p] \in WritePCs => page /\ writeopen
  BY <1>1, NoUsers DEF EndShape
<1> QED BY <1>2, <1>3, <1>4, <1>5, <1>6, <1>7 DEF PipeInUse

\* filealloc(), filedup(), fileclose() and pipeclose(): nothing that is in use
\* is freed, and nothing that is not is kept.
THEOREM PipeInUseHolds == Spec => []PipeInUse
BY InUse, Inductive, PTL

\* sleep() and wakeup() of pipewrite(), piperead() and pipeclose(): who sleeps
\* has something to wait for and somebody to wait for.
THEOREM NoLostWakeupHolds == Spec => []NoLostWakeup
<1>1. IInv => NoLostWakeup
  BY DEF IInv
<1> QED BY <1>1, Inductive, PTL

-----------------------------------------------------------------------------
(* The pipe implements the queue of bytes *)

\* The bytes in the buffer, oldest first.
LEMMA ContentsFacts ==
  ASSUME TypeOK, DataShape
  PROVE  /\ Contents \in Seq(Bytes) /\ Len(Contents) = Count /\ Count \in Nat
         /\ \A i \in 1..Count : Contents[i] = data[Slot(i)]
<1> DEFINE c == Count
<1>1. c \in Nat
  BY BufFacts, SizeFacts
<1>2. Contents = [i \in 1..c |-> data[Slot(i)]] /\ \A i \in 1..c : data[Slot(i)] \in Bytes
  BY BufFacts DEF Contents, Slot
<1> HIDE DEF c
<1>3. Contents \in Seq(Bytes) /\ Len(Contents) = c /\ \A i \in 1..c : Contents[i] = data[Slot(i)]
  BY <1>1, <1>2
<1> QED BY <1>1, <1>3 DEF c

\* What the last lemma says of a state.
Reading ==
    /\ Contents \in Seq(Bytes) /\ Len(Contents) = Count /\ Count \in Nat
    /\ \A i \in 1..Count : Contents[i] = data[Slot(i)]

\* The same of the next state.
LEMMA ContentsAgain == (TypeOK /\ DataShape)' => Reading'
<1>1. TypeOK /\ DataShape => Reading
  BY ContentsFacts DEF Reading
<1> QED BY <1>1, PTL

\* The bytes that pipewrite() stores go behind those there are.
LEMMA PutContents ==
  ASSUME TypeOK, DataShape, NEW k \in 0..Space, Put(k), nread' = nread, TypeOK'
  PROVE  /\ k = 0 => Contents' = Contents
         /\ Len(Contents) + k <= PIPESIZE /\ k \in Nat
         /\ \E bs \in [1..k -> Bytes] : Len(bs) = k /\ Contents' = Contents \o bs
<1> DEFINE c == Count
<1> DEFINE bs == [i \in 1..k |-> (nwrite + (i - 1)) % WORD]
<1> DEFINE s == Contents
<1> DEFINE t == Contents'
<1>1. /\ s \in Seq(Bytes) /\ Len(s) = c /\ c \in Nat
      /\ \A i \in 1..c : s[i] = data[Slot(i)]
  BY ContentsFacts
<1>2. /\ Count' = c + k /\ DataShape'
      /\ \A i \in 1..(c + k) : IF i <= c THEN data'[Slot(i)] = data[Slot(i)]
                                ELSE data'[Slot(i)] \in Bytes /\ data'[Slot(i)] = (nwrite + (i - 1 - c)) % WORD
  BY PutFacts
<1>3. /\ t \in Seq(Bytes) /\ Len(t) = Count'
      /\ \A i \in 1..Count' : t[i] = data'[Slot(i)]
  <2>1. \A i \in 1..Count' : Slot(i)' = Slot(i)
    BY DEF Slot
  <2>2. /\ t \in Seq(Bytes) /\ Len(t) = Count'
        /\ \A i \in 1..Count' : t[i] = data'[Slot(i)']
    BY <1>2, ContentsAgain DEF Reading
  <2> QED BY <2>1, <2>2
<1>4. k \in Nat /\ c + k <= PIPESIZE
  <2>1. c \in 0..PIPESIZE /\ Space = PIPESIZE - c
    BY BufFacts
  <2> HIDE DEF c
  <2> QED BY <2>1, SizeFacts
<1>5. bs \in [1..k -> Bytes] /\ bs \in Seq(Bytes) /\ Len(bs) = k /\ \A i \in 1..k : bs[i] = (nwrite + (i - 1)) % WORD
  <2>1. ASSUME NEW i \in 1..k PROVE (nwrite + (i - 1)) % WORD \in Bytes
    <3> DEFINE x == nwrite + (i - 1)
    <3>1. x \in Int
      BY <1>4, BufFacts, SizeFacts
    <3> HIDE DEF x
    <3>2. x % WORD \in 0..WORD - 1
      BY <3>1, SizeFacts, ModCases
    <3> QED BY <3>2 DEF x, Bytes
  <2>2. bs \in [1..k -> Bytes]
    BY <2>1
  <2> QED BY <1>4, <2>2
<1> HIDE DEF c, s, t, bs
<1>6. /\ s \o bs \in Seq(Bytes) /\ Len(s \o bs) = c + k
      /\ \A i \in 1..(c + k) : (s \o bs)[i] = IF i <= c THEN s[i] ELSE bs[i - c]
  BY <1>1, <1>4, <1>5, ConcatProperties
<1>7. ASSUME NEW i \in 1..(c + k) PROVE t[i] = (s \o bs)[i]
  <2>1. t[i] = data'[Slot(i)]
    BY <1>2, <1>3
  <2>2. CASE i <= c
    BY <1>1, <1>2, <1>6, <2>1, <2>2
  <2>3. CASE ~(i <= c)
    <3>1. i - c \in 1..k /\ (i - c) - 1 = i - 1 - c
      BY <1>1, <1>4, <2>3
    <3>2. bs[i - c] = (nwrite + ((i - c) - 1)) % WORD
      BY <1>5, <3>1
    <3>3. data'[Slot(i)] = (nwrite + (i - 1 - c)) % WORD
      BY <1>2, <2>3
    <3>4. (s \o bs)[i] = bs[i - c]
      BY <1>6, <2>3
    <3> QED BY <2>1, <3>1, <3>2, <3>3, <3>4
  <2> QED BY <2>2, <2>3
<1>8. t = s \o bs
  <2>1. Len(t) = c + k
    BY <1>2, <1>3
  <2> QED BY <1>3, <1>6, <1>7, <2>1, SeqEqual
<1>9. k = 0 => t = s
  <2>1. k = 0 => Len(t) = Len(s) /\ \A i \in 1..Len(t) : t[i] = s[i]
    BY <1>1, <1>2, <1>3
  <2> QED BY <1>1, <1>3, <2>1, SeqEqual
<1>10. Len(s) + k <= PIPESIZE
  BY <1>1, <1>4
<1> QED BY <1>4, <1>5, <1>8, <1>9, <1>10 DEF s, t

\* The bytes that piperead() takes are the oldest ones, and the others stay.
LEMMA TakeContents ==
  ASSUME TypeOK, DataShape, NEW k \in 0..Count, nread' = (nread + k) % WORD, UNCHANGED <<nwrite, data>>, TypeOK'
  PROVE  /\ [i \in 1..k |-> data[Slot(i)]] = SubSeq(Contents, 1, k)
         /\ Contents' = SubSeq(Contents, k + 1, Len(Contents))
         /\ Len(Contents) = Count /\ k \in Nat /\ (k = 0 => Contents' = Contents)
         /\ Count = 0 => Contents = <<>> /\ Contents' = <<>>
<1> DEFINE c == Count
<1> DEFINE s == Contents
<1> DEFINE t == Contents'
<1> DEFINE g == [i \in 1..k |-> data[Slot(i)]]
<1>1. /\ s \in Seq(Bytes) /\ Len(s) = c /\ c \in Nat /\ k \in 0..c
      /\ \A i \in 1..c : s[i] = data[Slot(i)]
  BY ContentsFacts
<1>2. /\ Count' = c - k /\ DataShape'
      /\ \A i \in 1..(c - k) : data'[(nread' + i - 1) % PIPESIZE] = data[Slot(k + i)]
  BY TakeFacts
<1>3. /\ t \in Seq(Bytes) /\ Len(t) = Count'
      /\ \A i \in 1..Count' : t[i] = data'[(nread' + i - 1) % PIPESIZE]
  <2>1. \A i \in 1..Count' : Slot(i)' = (nread' + i - 1) % PIPESIZE
    BY DEF Slot
  <2>2. /\ t \in Seq(Bytes) /\ Len(t) = Count'
        /\ \A i \in 1..Count' : t[i] = data'[Slot(i)']
    BY <1>2, ContentsAgain DEF Reading
  <2> QED BY <2>1, <2>2
<1> HIDE DEF c, s, t
<1>4. k \in Nat /\ k <= c
  BY <1>1
<1>5. /\ g \in Seq(Bytes) /\ Len(g) = k /\ \A i \in 1..k : g[i] = s[i]
  <2>1. \A i \in 1..k : i \in 1..c
    BY <1>1, <1>4
  <2>2. \A i \in 1..k : data[Slot(i)] = s[i] /\ s[i] \in Bytes
    BY <1>1, <2>1, ElementOfSeq
  <2> QED BY <1>4, <2>2
<1> HIDE DEF g
<1>6. g = SubSeq(s, 1, k)
  <2>1. \A i \in 1..k : s[i] \in Bytes
    BY <1>1, <1>4, ElementOfSeq
  <2>2. /\ SubSeq(s, 1, k) \in Seq(Bytes) /\ Len(SubSeq(s, 1, k)) = k
        /\ \A i \in 1..k : SubSeq(s, 1, k)[i] = s[i]
    BY <1>4, <2>1, SubSeqProperties
  <2> QED BY <1>5, <2>2, SeqEqual
<1>7. t = SubSeq(s, k + 1, c)
  <2>1. \A i \in (k + 1)..c : s[i] \in Bytes
    BY <1>1, <1>4, ElementOfSeq
  <2> DEFINE u == SubSeq(s, k + 1, c)
  <2>2. k + 1 \in Int /\ c \in Int /\ c - (k + 1) + 1 = c - k /\ (c - k = 0 \/ k + 1 <= c)
    BY <1>1, <1>4
  <2>3. u \in Seq(Bytes) /\ Len(u) = c - k
    <3>1. u \in Seq(Bytes) /\ Len(u) = IF k + 1 <= c THEN c - (k + 1) + 1 ELSE 0
      BY <2>1, <2>2, SubSeqProperties
    <3> QED BY <1>1, <1>4, <3>1
  <2>4. \A i \in 1..(c - k) : u[i] = s[(k + 1) + i - 1]
    <3>1. \A i \in 1..(c - (k + 1) + 1) : u[i] = s[(k + 1) + i - 1]
      BY <2>1, <2>2, SubSeqProperties
    <3> QED BY <2>2, <3>1
  <2> HIDE DEF u
  <2>5. ASSUME NEW i \in 1..(c - k) PROVE t[i] = u[i]
    <3>1. t[i] = data[Slot(k + i)]
      BY <1>2, <1>3
    <3>2. (k + 1) + i - 1 = k + i /\ k + i \in 1..c
      BY <1>1, <1>4
    <3>3. u[i] = s[k + i]
      BY <2>4, <3>2
    <3> QED BY <1>1, <3>1, <3>2, <3>3
  <2>6. Len(t) = c - k
    BY <1>2, <1>3
  <2>7. t = u
    BY <1>3, <2>3, <2>5, <2>6, SeqEqual
  <2> QED BY <2>7 DEF u
<1>8. k = 0 => t = s
  <2>1. k = 0 => SubSeq(s, k + 1, c) = s
    BY <1>1, SubSeqFull
  <2> QED BY <1>7, <2>1
<1>9. c = 0 => s = <<>> /\ t = <<>>
  <2>1. c = 0 => Len(s) = 0 /\ Len(t) = 0
    <3>1. c = 0 => k = 0
      BY <1>4
    <3>2. Len(t) = c - k
      BY <1>2, <1>3
    <3>3. Len(s) = c
      BY <1>1
    <3>4. c = 0 => Len(t) = 0
      <4>1. ASSUME c = 0 PROVE Len(t) = 0
        <5>1. Len(t) = 0 - 0
          BY <3>1, <3>2, <4>1
        <5> QED BY <5>1
      <4> QED BY <4>1
    <3> QED BY <3>3, <3>4
  <2> QED BY <1>1, <1>3, <2>1, EmptySeq
<1> QED BY <1>1, <1>4, <1>6, <1>7, <1>8, <1>9 DEF c, s, t, g

\* A reader that waits or is about to look has asked for at least one byte: a
\* read() of none cannot pass for end of file.
AskShape == \A p \in Procs : pc[p] \in {"read", "rsleep", "rasleep"} => n[p] >= 1

\* Only a new call asks, and only the caller's own steps change what it asked.
LEMMA Asks ==
  ASSUME IInv, AskShape, [Next]_vars
  PROVE  AskShape'
<1> DEFINE Asking == {"read", "rsleep", "rasleep"}
<1>1. pc \in [Procs -> PCs] /\ n \in [Procs -> NVals]
  BY Parts
<1>2. ASSUME \A q \in Procs : (pc'[q] \in Asking => pc[q] \in Asking), n' = n PROVE AskShape'
  BY <1>2 DEF AskShape
<1>3. ASSUME NEW p \in Procs, n' = [n EXCEPT ![p] = n'[p]], pc'[p] \notin Asking,
             \A q \in Procs : (pc'[q] \in Asking => pc[q] \in Asking)
      PROVE  AskShape'
  BY <1>1, <1>3 DEF AskShape
<1>4. ASSUME NEW p \in Procs, NEW label, pc' = [pc EXCEPT ![p] = label]
      PROVE  /\ pc'[p] = label
             /\ (label \notin Asking \/ pc[p] \in Asking) => \A q \in Procs : (pc'[q] \in Asking => pc[q] \in Asking)
  BY <1>1, <1>4
<1>5. ASSUME NEW p \in Procs, NEW label \in {"user", "wsleep", "copied", "close", "kfree"}, NEW s, NEW a,
             WakeAndGoto(p, label, s, a), (s = "rasleep" /\ a = "read") \/ (s = "wasleep" /\ a = "write")
      PROVE  pc'[p] \notin Asking /\ \A q \in Procs : (pc'[q] \in Asking => pc[q] \in Asking)
  BY <1>1, <1>5 DEF WakeAndGoto
<1>6. CASE UNCHANGED vars
  <2>1. pc' = pc /\ n' = n
    BY <1>6 DEF vars
  <2> QED BY <2>1 DEF AskShape
<1>7. ASSUME NEW p \in Procs,
             \/ Start(p) \/ (\E q \in Procs : Fork(p, q)) \/ Exit(p) \/ ExitCloses(p) \/ Reap(p)
             \/ (\E fd \in FDs : Dup(p, fd) \/ Close(p, fd)) \/ FileClose(p)
             \/ PipeAlloc0(p) \/ PipeAlloc1(p)
             \/ Closed(p) \/ PipeAllocBad(p) \/ ReadReturns(p)
             \/ Kill(p) \/ Sleep(p, "wsleep", "wasleep") \/ Sleep(p, "rsleep", "rasleep")
             \/ PipeFree(p) \/ PipeAllocPage(p)
             \/ PipeClose(p, "close_read", "read") \/ PipeClose(p, "close_write", "write")
      PROVE  AskShape'
  <2>1. n' = n
    BY <1>7 DEF Start, Fork, Exit, ExitCloses, Reap, Dup, Close, FileClose, PipeAlloc0, PipeAlloc1, Closed,
       PipeAllocBad, ReadReturns, Kill, Sleep, PipeFree, PipeAllocPage, NewPipe, FdAllocBoth, PipeClose
  <2>2. CASE Start(p) \/ Exit(p) \/ Reap(p) \/ \E fd \in FDs : Close(p, fd)
    BY <1>1, <1>2, <2>1, <2>2 DEF Start, Exit, Reap, Close, Goto
  <2>3. CASE \E q \in Procs : Fork(p, q)
    BY <1>1, <1>2, <2>1, <2>3 DEF Fork, Goto
  <2>4. CASE ExitCloses(p) \/ \E fd \in FDs : Dup(p, fd)
    BY <1>2, <2>1, <2>4 DEF ExitCloses, Dup
  <2>5. CASE FileClose(p)
    <3>1. \A q \in Procs : q # p => pc'[q] = pc[q]
      BY <1>1, <2>5 DEF FileClose, Goto
    <3>2. pc'[p] \in {"close", "close_read", "close_write"}
      BY <1>1, <2>5 DEF FileClose, Goto
    <3> QED BY <1>2, <2>1, <3>1, <3>2
  <2>6. CASE PipeAlloc0(p) \/ PipeAlloc1(p) \/ PipeFree(p)
    BY <1>1, <1>2, <2>1, <2>6 DEF PipeAlloc0, PipeAlloc1, PipeFree, Goto
  <2>7. CASE Closed(p) \/ PipeAllocBad(p) \/ ReadReturns(p)
    BY <1>1, <1>2, <2>1, <2>7 DEF Closed, PipeAllocBad, ReadReturns, Goto
  <2>8. CASE Kill(p)
    <3>1. /\ \A q \in Procs : q # p => pc'[q] = pc[q]
          /\ pc'[p] = "read" => pc[p] \in {"rasleep", "read"}
          /\ pc'[p] \in {"rsleep", "rasleep"} => pc[p] = pc'[p]
      BY <1>1, <2>8 DEF Kill, Goto
    <3> QED BY <1>2, <2>1, <3>1
  <2>9. CASE Sleep(p, "wsleep", "wasleep") \/ Sleep(p, "rsleep", "rasleep")
    BY <1>1, <1>2, <2>1, <2>9 DEF Sleep, Goto
  <2>10. CASE PipeAllocPage(p)
    <3>1. \A q \in Procs : pc'[q] \in {pc[q], "user", "close"}
      BY <1>1, <2>10 DEF PipeAllocPage, NewPipe, FdAllocBoth, Goto
    <3> QED BY <1>2, <2>1, <3>1
  <2>11. CASE PipeClose(p, "close_read", "read") \/ PipeClose(p, "close_write", "write")
    <3> DEFINE label == IF Frees(readopen', writeopen') THEN "kfree" ELSE "close"
    <3>1. WakeAndGoto(p, label, "wasleep", "write") \/ WakeAndGoto(p, label, "rasleep", "read")
      <4>1. CASE PipeClose(p, "close_read", "read")
        BY <4>1 DEF PipeClose, CloseEndWake
      <4>2. CASE PipeClose(p, "close_write", "write")
        BY <4>2 DEF PipeClose, CloseEndWake
      <4> QED BY <2>11, <4>1, <4>2
    <3>2. label \in {"close", "kfree"}
      OBVIOUS
    <3> HIDE DEF label
    <3>3. \A q \in Procs : (pc'[q] \in Asking => pc[q] \in Asking)
      BY <1>5, <3>1, <3>2
    <3> QED BY <1>2, <2>1, <3>3
  <2> QED BY <1>7, <2>2, <2>3, <2>4, <2>5, <2>6, <2>7, <2>8, <2>9, <2>10, <2>11
<1>8. ASSUME NEW p \in Procs, WriteAll(p) \/ WriteFull(p) \/ WriteFails(p) \/ ReadBytes(p) PROVE AskShape'
  <2>1. n' = [n EXCEPT ![p] = n'[p]]
    BY <1>1, <1>8 DEF WriteAll, WriteFull, WriteFails, ReadBytes
  <2>2. CASE WriteFails(p)
    <3>1. pc' = [pc EXCEPT ![p] = "user"]
      BY <2>2 DEF WriteFails, Goto
    <3>2. pc'[p] = "user" /\ \A q \in Procs : (pc'[q] \in Asking => pc[q] \in Asking)
      BY <1>4, <3>1
    <3> QED BY <1>3, <2>1, <3>2
  <2>3. CASE WriteAll(p) \/ WriteFull(p) \/ ReadBytes(p)
    <3>1. PICK label \in {"user", "wsleep", "copied"} : WakeAndGoto(p, label, "wasleep", "write") \/ WakeAndGoto(p, label, "rasleep", "read")
      BY <2>3 DEF WriteAll, WriteFull, ReadBytes
    <3>2. pc'[p] \notin Asking /\ \A q \in Procs : (pc'[q] \in Asking => pc[q] \in Asking)
      BY <1>5, <3>1
    <3> QED BY <1>3, <2>1, <3>2
  <2> QED BY <1>8, <2>2, <2>3
<1>9. ASSUME NEW p \in Procs, ReadEmpty(p) PROVE AskShape'
  <2>1. CASE p \in killed
    <3>1. pc' = [pc EXCEPT ![p] = "user"] /\ n' = [n EXCEPT ![p] = n'[p]]
      BY <1>1, <1>9, <2>1 DEF ReadEmpty, Goto
    <3>2. pc'[p] = "user" /\ \A q \in Procs : (pc'[q] \in Asking => pc[q] \in Asking)
      BY <1>4, <3>1
    <3> QED BY <1>3, <3>1, <3>2
  <2>2. CASE p \notin killed
    <3>1. pc' = [pc EXCEPT ![p] = "rsleep"] /\ n' = n /\ pc[p] = "read"
      BY <1>9, <2>2 DEF ReadEmpty, Goto
    <3> QED BY <1>2, <1>4, <3>1
  <2> QED BY <2>1, <2>2
<1>10. ASSUME NEW p \in Procs, NEW m \in Lengths, WriteCall(p, m) \/ ReadCall(p, m) PROVE AskShape'
  <2>1. m >= 1
    BY PipeAssumption
  <2>2. /\ n' = [n EXCEPT ![p] = m] /\ \A q \in Procs : q # p => pc'[q] = pc[q]
    BY <1>1, <1>10 DEF WriteCall, ReadCall, Goto
  <2> QED BY <1>1, <2>1, <2>2 DEF AskShape
<1> QED BY <1>6, <1>7, <1>8, <1>9, <1>10, StepCases

\* What the queue shows: after the last end is closed, nothing.
Shown == IF readopen \/ writeopen THEN Contents ELSE <<>>

\* Steps that move no byte and close no end are invisible.
LEMMA Invisible ==
  ASSUME UNCHANGED <<nread, nwrite, data, readopen, writeopen>>
  PROVE  UNCHANGED <<Shown, readopen, writeopen>>
BY DEF Shown, Contents, Count

\* pipewrite() appends what it stores.
LEMMA RefineWrite ==
  ASSUME IInv, IInv', NEW p \in Procs, WriteAll(p) \/ WriteFull(p) \/ WriteFails(p)
  PROVE  Queue!Next \/ UNCHANGED <<Shown, readopen, writeopen, got>>
<1>1. /\ UNCHANGED <<nread, readopen, writeopen, got>> /\ pc[p] = "write"
      /\ \E k \in 0..Space : Put(k)
  BY WriteSteps
<1>2. PICK k \in 0..Space : Put(k)
  BY <1>1
<1>3. writeopen
  BY <1>1, Parts, NoUsers DEF WritePCs
<1>4. TypeOK /\ DataShape /\ TypeOK'
  BY Parts DEF IInv, FInv
<1>5. /\ k = 0 => Contents' = Contents
      /\ Len(Contents) + k <= PIPESIZE /\ k \in Nat
      /\ \E bs \in [1..k -> Bytes] : Len(bs) = k /\ Contents' = Contents \o bs
  BY <1>1, <1>2, <1>4, PutContents
<1>6. Shown = Contents /\ Shown' = Contents'
  BY <1>1, <1>3 DEF Shown
<1>7. CASE k = 0
  BY <1>1, <1>5, <1>6, <1>7
<1>8. CASE k # 0
  <2>1. PICK bs \in [1..k -> Bytes] : Len(bs) = k /\ Contents' = Contents \o bs
    BY <1>5
  <2>2. Shown' = Shown \o bs /\ Len(Shown) + Len(bs) <= PIPESIZE
    BY <1>5, <1>6, <2>1
  <2>3. Queue!Write(bs)
    BY <1>1, <1>3, <2>2 DEF Queue!Write, Shown
  <2>4. k \in 1..PIPESIZE
    <3> DEFINE x == Len(Contents)
    <3>1. x \in Nat /\ x + k <= PIPESIZE /\ k \in Nat
      BY <1>4, <1>5, ContentsFacts
    <3> HIDE DEF x
    <3> QED BY <1>8, <3>1, SizeFacts
  <2>5. bs \in UNION {[1..m -> Bytes] : m \in 1..PIPESIZE}
    BY <2>4
  <2> QED BY <2>3, <2>5 DEF Queue!Next
<1> QED BY <1>7, <1>8

\* piperead() takes a prefix, or says end of file when no more can come.
LEMMA RefineRead ==
  ASSUME IInv, IInv', AskShape, NEW p \in Procs, ReadBytes(p)
  PROVE  Queue!Next \/ UNCHANGED <<Shown, readopen, writeopen, got>>
<1> DEFINE k == Smaller(n[p], Count)
<1>1. /\ k \in 0..Count /\ pc[p] = "read" /\ nread' = (nread + k) % WORD /\ ~MustWait
      /\ got' = [got EXCEPT ![p] = [i \in 1..k |-> data[Slot(i)]]]
      /\ UNCHANGED <<nwrite, data, readopen, writeopen>>
  BY ReadBytesStep
<1>2. n[p] >= 1 /\ n[p] \in Nat
  BY <1>1, Parts, NFacts DEF AskShape
<1>3. readopen
  BY <1>1, Parts, NoUsers DEF ReadPCs
<1>4. TypeOK /\ DataShape /\ TypeOK'
  BY Parts DEF IInv, FInv
<1>5. k = 0 => Count = 0
  <2> DEFINE c == Count
  <2>1. c \in Nat
    BY <1>4, BufFacts, SizeFacts
  <2> HIDE DEF c
  <2>2. Smaller(n[p], c) = 0 => c = 0
    BY <1>2, <2>1 DEF Smaller
  <2> QED BY <2>2 DEF c
<1> HIDE DEF k
<1>6. /\ [i \in 1..k |-> data[Slot(i)]] = SubSeq(Contents, 1, k)
      /\ Contents' = SubSeq(Contents, k + 1, Len(Contents))
      /\ Len(Contents) = Count /\ k \in Nat /\ (k = 0 => Contents' = Contents)
      /\ Count = 0 => Contents = <<>> /\ Contents' = <<>>
  BY <1>1, <1>4, TakeContents
<1>7. Shown = Contents /\ Shown' = Contents'
  BY <1>1, <1>3 DEF Shown
<1>8. got' = [got EXCEPT ![p] = SubSeq(Contents, 1, k)]
  BY <1>1, <1>6
<1>9. CASE k = 0
  <2>1. Count = 0 /\ Contents = <<>> /\ Contents' = <<>> /\ ~writeopen
    BY <1>1, <1>5, <1>6, <1>9 DEF MustWait
  <2>2. got' = [got EXCEPT ![p] = <<>>]
    <3>1. SubSeq(Contents, 1, k) = <<>>
      BY <1>9, SubSeqEmpty
    <3> QED BY <1>8, <3>1
  <2>3. Queue!EndOfFile(p)
    BY <1>1, <1>3, <1>7, <2>1, <2>2 DEF Queue!EndOfFile, Shown
  <2> QED BY <2>3 DEF Queue!Next
<1>10. CASE k # 0
  <2> DEFINE c == Count
  <2>1. c \in 0..PIPESIZE /\ k \in 0..c
    BY <1>1, <1>4, BufFacts
  <2> HIDE DEF c
  <2>2. k \in 1..c /\ k \in 1..PIPESIZE
    BY <1>6, <1>10, <2>1, SizeFacts
  <2>3. k \in 1..Len(Shown)
    BY <1>6, <1>7, <2>2 DEF c
  <2>4. Queue!Read(p, k)
    BY <1>1, <1>3, <1>6, <1>7, <1>8, <2>3 DEF Queue!Read, Shown
  <2> QED BY <2>2, <2>4 DEF Queue!Next
<1> QED BY <1>9, <1>10

\* sys_pipe() makes the queue, pipeclose() closes an end of it, kfree() after
\* the second one shows nothing new.
LEMMA RefineEnds ==
  ASSUME IInv, IInv', NEW p \in Procs,
         \/ PipeAllocPage(p) \/ PipeFree(p)
         \/ PipeClose(p, "close_read", "read") \/ PipeClose(p, "close_write", "write")
  PROVE  Queue!Next \/ UNCHANGED <<Shown, readopen, writeopen, got>>
<1>1. CASE PipeAllocPage(p)
  <2>1. /\ readopen = FALSE /\ writeopen = FALSE /\ readopen' = TRUE /\ writeopen' = TRUE
        /\ Count' = 0 /\ got' = got
    BY <1>1, PipePageFacts
  <2>2. Shown = <<>> /\ Shown' = <<>>
    <3>1. Contents' = [i \in 1..0 |-> data'[(nread' + i - 1) % PIPESIZE]]
      BY <2>1 DEF Contents
    <3>2. Contents' = <<>>
      BY <3>1
    <3> QED BY <2>1, <3>2 DEF Shown
  <2>3. Queue!Create
    BY <2>1, <2>2 DEF Queue!Create, Shown
  <2> QED BY <2>3 DEF Queue!Next
<1>2. CASE PipeFree(p)
  <2>1. UNCHANGED <<readopen, writeopen, got>> /\ readopen = FALSE /\ writeopen = FALSE
    BY <1>2, PipeFreeStep
  <2> QED BY <2>1 DEF Shown
<1>3. CASE PipeClose(p, "close_read", "read")
  <2>1. UNCHANGED <<nread, nwrite, data, got>>
    BY <1>3, PipeCloseStep
  <2>2. pc[p] = "close_read" /\ readopen' = FALSE /\ writeopen' = writeopen
    BY <1>3, Parts DEF PipeClose
  <2>3. readopen
    BY <2>2, Parts DEF FInv, EndShape
  <2>4. Shown = Contents /\ Contents' = Contents
    BY <2>1, <2>3 DEF Shown, Contents, Count
  <2>5. Queue!CloseRead
    BY <2>1, <2>2, <2>3, <2>4 DEF Queue!CloseRead, Shown
  <2> QED BY <2>5 DEF Queue!Next
<1>4. CASE PipeClose(p, "close_write", "write")
  <2>1. UNCHANGED <<nread, nwrite, data, got>>
    BY <1>4, PipeCloseStep
  <2>2. pc[p] = "close_write" /\ writeopen' = FALSE /\ readopen' = readopen
    BY <1>4, Parts DEF PipeClose
  <2>3. writeopen
    BY <2>2, Parts DEF FInv, EndShape
  <2>4. Shown = Contents /\ Contents' = Contents
    BY <2>1, <2>3 DEF Shown, Contents, Count
  <2>5. Queue!CloseWrite
    BY <2>1, <2>2, <2>3, <2>4 DEF Queue!CloseWrite, Shown
  <2> QED BY <2>5 DEF Queue!Next
<1> QED BY <1>1, <1>2, <1>3, <1>4

\* The other steps of calls.
LEMMA RefineRest ==
  ASSUME IInv, IInv', NEW p \in Procs,
         \/ Closed(p) \/ PipeAllocBad(p) \/ ReadReturns(p)
         \/ \E m \in Lengths : WriteCall(p, m) \/ ReadCall(p, m)
  PROVE  Queue!Next \/ UNCHANGED <<Shown, readopen, writeopen, got>>
<1>1. UNCHANGED <<Shown, readopen, writeopen>>
  BY EntrySteps, Invisible
<1>2. CASE ReadReturns(p)
  <2>1. got' = [got EXCEPT ![p] = NoResult]
    BY <1>2 DEF ReadReturns
  <2>2. Queue!Consume(p)
    BY <1>1, <2>1 DEF Queue!Consume, Shown
  <2> QED BY <2>2 DEF Queue!Next
<1>3. CASE ~ReadReturns(p)
  <2>1. got' = got
    BY <1>3 DEF Closed, PipeAllocBad, WriteCall, ReadCall
  <2> QED BY <1>1, <2>1
<1> QED BY <1>2, <1>3

\* Through every reuse of the page and every wrap of the counters, bytes come
\* out of piperead() once and in the order pipewrite() stored them, and read()
\* returns 0 only at end of file.
THEOREM Refinement == Spec => ImplementsByteQueue
<1>1. Init => Queue!Init
  <2> SUFFICES ASSUME Init PROVE Queue!Init
    OBVIOUS
  <2>1. readopen = FALSE /\ writeopen = FALSE /\ got = [p \in Procs |-> NoResult]
    BY DEF Init
  <2> QED BY <2>1 DEF Queue!Init
<1>2. Init => AskShape
  BY DEF Init, AskShape
<1>3. IInv /\ AskShape /\ [Next]_vars => AskShape'
  BY Asks
<1>4. ASSUME IInv, IInv', AskShape, [Next]_vars
      PROVE  Queue!Next \/ UNCHANGED <<Shown, readopen, writeopen, got>>
  <2>1. CASE UNCHANGED vars
    <3>1. UNCHANGED <<nread, nwrite, data, readopen, writeopen, got>>
      BY <2>1 DEF vars, pipe
    <3> QED BY <3>1, Invisible
  <2>2. ASSUME NEW p \in Procs,
               \/ \/ Start(p) \/ (\E q \in Procs : Fork(p, q)) \/ Exit(p) \/ ExitCloses(p) \/ Reap(p)
                  \/ (\E fd \in FDs : Dup(p, fd) \/ Close(p, fd)) \/ FileClose(p)
                  \/ PipeAlloc0(p) \/ PipeAlloc1(p)
               \/ Kill(p) \/ Sleep(p, "wsleep", "wasleep") \/ Sleep(p, "rsleep", "rasleep") \/ ReadEmpty(p)
        PROVE  UNCHANGED <<Shown, readopen, writeopen, got>>
    <3>1. UNCHANGED <<nread, nwrite, data, readopen, writeopen, got>>
      BY <1>4, <2>2, FileSteps, KillStep, SleepStep, ReadEmptyStep
    <3> QED BY <3>1, Invisible
  <2>3. CASE Next
    BY <1>4, <2>2, <2>3, StepCases, RefineWrite, RefineRead, RefineEnds, RefineRest
  <2> QED BY <1>4, <2>1, <2>3
<1>5. (Queue!Next \/ UNCHANGED <<Shown, readopen, writeopen, got>>)
          => [Queue!Next]_<<IF readopen \/ writeopen THEN Contents ELSE <<>>, readopen, writeopen, got>>
  BY DEF Shown
<1> QED BY <1>1, <1>2, <1>3, <1>4, <1>5, Inductive, PTL DEF Spec, ImplementsByteQueue, Queue!Spec
=============================================================================
