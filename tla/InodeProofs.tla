----------------------------- MODULE InodeProofs -----------------------------
(***************************************************************************)
(* What iget(), ilock(), iput() and the system calls of sysfile.c promise: *)
(* link counts, directory entries, the bitmap and icache agree at every    *)
(* step until a panic, and nothing but a full table ever panics: icache,   *)
(* the inodes of the disk, or its blocks.                                  *)
(***************************************************************************)
EXTENDS Inode, TLAPS, FiniteSetTheorems, WellFoundedInduction

-----------------------------------------------------------------------------
(* The inductive invariant *)

CreatePCs == {"create_ilock", "create"}
UnlinkPCs == {"unlink_ilock", "unlink"}
LinkPCs == {"link_ilock", "link", "dirlink"}
IpPCs == {"open_ilock", "open", "unlinked", "unlink_bad", "bad"}
         \cup CreatePCs \cup UnlinkPCs \cup LinkPCs
IlockPCs == {"open_ilock", "create_ilock", "unlink_ilock", "link_ilock"}
WritePCs == {"write_ilock", "write", "write_update"}
FreePCs == {"itrunc", "itrunc_update", "ifree"}
DropPCs == {"irelease", "idrop"}

\* Where a thread holds the sleep lock of ip[t], and where that of put[t].
IpLocked == {"open", "create", "unlink", "unlinked", "link", "bad", "write", "write_update"}
PutLocked == FreePCs \cup {"irelease"}

\* Who holds a reference: a call that works on the inode, an iput() that has yet
\* to drop it, an open file.  In iput(), ip[t] counts in a failed dirlink() only.
HasIp(t) == pc[t] \in IpPCs \/ (pc[t] \in PutPCs /\ root = t)
HasPut(t) == pc[t] \in PutPCs
IpUsers(e) == {t \in Threads : HasIp(t) /\ ip[t] = e}
PutUsers(e) == {t \in Threads : HasPut(t) /\ put[t] = e}
FdUsers(e) == {t \in Threads : fd[t] = e}

\* Somebody will still test whether he is the last user of entry e.
Live(e) == IpUsers(e) # {} \/ FdUsers(e) # {} \/ \E u \in PutUsers(e) : pc[u] \notin DropPCs

\* TypeOK, with the bound on the reference counts left to RefInv.
TypeInv ==
    /\ dinode \in [Inums -> [type : {"none", "file"}, nlink : 0..MaxLink, addr : Blocks \cup {None}]]
    /\ bitmap \subseteq Blocks
    /\ dir \in [Names -> Inums \cup {None}]
    /\ inum \in [Slots -> Inums \cup {None}]
    /\ ref \in [Slots -> Nat]
    /\ valid \subseteq Slots
    /\ inode \in [Slots -> [type : {"none", "file"}, nlink : 0..MaxLink, addr : Blocks \cup {None}]]
    /\ locked \in [Slots -> Threads \cup {None}]
    /\ root \in Threads \cup {None}
    /\ pc \in [Threads -> PCs]
    /\ ip \in [Threads -> Slots \cup {NoSlot}] /\ put \in [Threads -> Slots \cup {NoSlot}]
    /\ name \in [Threads -> Names \cup {None}]
    /\ fd \in [Threads -> Slots \cup {NoSlot}]
    /\ leaked \subseteq Inums

\* The local variables of a call are set where they are used.
ThreadInv == \A t \in Threads :
    /\ pc[t] # "panic"
    /\ HasIp(t) => ip[t] # NoSlot
    /\ HasPut(t) => put[t] # NoSlot
    /\ pc[t] \in WritePCs => ip[t] # NoSlot /\ ip[t] = fd[t]
    /\ pc[t] \in {"open_ilock", "open"} \cup CreatePCs => fd[t] = NoSlot
    /\ pc[t] \in LinkPCs => name[t] \in Names

\* What the lock of the root keeps true of the entry its holder looked at.
RootInv == \A t \in Threads :
    /\ root = t => /\ pc[t] \in CreatePCs \cup UnlinkPCs \cup DropPCs \cup {"iput"}
                   /\ name[t] \in Names
    /\ pc[t] \in CreatePCs => root = t /\ dir[name[t]] = None
    /\ pc[t] \in UnlinkPCs => root = t /\ dir[name[t]] = inum[ip[t]]
    /\ pc[t] \in PutPCs /\ root = t => dir[name[t]] = inum[put[t]]

\* A sleep lock is held where the code is between ilock() and iunlock().
LockInv == \A t \in Threads, e \in Slots :
    locked[e] = t <=> \/ pc[t] \in IpLocked /\ ip[t] = e
                      \/ pc[t] \in PutLocked /\ put[t] = e

\* ref counts the references.
RefInv == \A e \in Slots :
    ref[e] = Cardinality(IpUsers(e)) + Cardinality(PutUsers(e)) + Cardinality(FdUsers(e))

\* An inode has one entry.
EntryInv == \A e \in Slots : ref[e] > 0 =>
    /\ inum[e] \in Inums
    /\ \A f \in Slots : ref[f] > 0 /\ inum[f] = inum[e] => f = e

\* A valid copy is what is on disk, but for a block between a change and its
\* iupdate(); only an allocated inode has one.
CopyInv == \A e \in valid : ref[e] > 0 =>
    /\ dinode[inum[e]].type = "file"
    /\ inode[e].type = "file" /\ inode[e].nlink = dinode[inum[e]].nlink
    /\ Updating(e) = {} => inode[e].addr = dinode[inum[e]].addr

\* Who can meet an entry that is not valid: calls before their ilock(), and
\* iput() after the inode is freed or in a failed dirlink().
ValidInv == \A e \in Slots \ valid, t \in Threads :
    /\ fd[t] # e
    /\ HasIp(t) /\ ip[t] = e => pc[t] \in IlockPCs
    /\ HasPut(t) /\ put[t] = e => pc[t] \in DropPCs \/ root = t

\* A free inode has no links, no block and nobody who works on it.
NoneInv == \A i \in Inums : dinode[i].type = "none" =>
    /\ dinode[i].nlink = 0 /\ dinode[i].addr = None
    /\ \A e \in Slots : ref[e] > 0 /\ inum[e] = i => ~Live(e)

\* create() is alone with its inode until the entry is made.
CreateInv == \A t \in Threads : pc[t] \in CreatePCs =>
    /\ dinode[inum[ip[t]]].type = "file" /\ dinode[inum[ip[t]]].nlink = 0
    /\ IpUsers(ip[t]) = {t} /\ FdUsers(ip[t]) = {}
    /\ \A u \in PutUsers(ip[t]) : pc[u] \in DropPCs

\* So is the iput() that frees the inode.
FreeInv == \A t \in Threads : pc[t] \in FreePCs =>
    /\ ref[put[t]] = 1 /\ dinode[inum[put[t]]].nlink = 0
    /\ pc[t] # "itrunc" => inode[put[t]].addr = None

\* An allocated inode without links has a user who will see to it, or is leaked.
LastInv == \A i \in Inums : dinode[i].type = "file" /\ dinode[i].nlink = 0 /\ i \notin leaked =>
    \E e \in Slots : ref[e] > 0 /\ inum[e] = i /\ Live(e)

Entries(i) == {n \in Names : dir[n] = i}

\* A link count is the number of entries and of the calls that are half way.
LinkInv == \A i \in Inums :
    dinode[i].nlink = Cardinality(Entries(i)) + Cardinality(Uncounted(i))

\* The block of an inode, as the holder of a valid entry or the disk knows it.
BlockInv ==
    /\ bitmap = {Block(i) : i \in Inums} \ {None}
    /\ \A i, j \in Inums : i # j /\ Block(i) # None => Block(i) # Block(j)

IInv == /\ TypeInv /\ ThreadInv /\ RootInv /\ LockInv /\ RefInv /\ EntryInv /\ CopyInv
        /\ ValidInv /\ NoneInv /\ CreateInv /\ FreeInv /\ LastInv /\ LinkInv /\ BlockInv

-----------------------------------------------------------------------------
(* Lemmas about the state *)

\* Threads are finitely many, so are the users of an entry.
LEMMA UsersFinite ==
  ASSUME NEW e \in Slots
  PROVE  /\ IsFiniteSet(IpUsers(e)) /\ Cardinality(IpUsers(e)) \in Nat
         /\ IsFiniteSet(PutUsers(e)) /\ Cardinality(PutUsers(e)) \in Nat
         /\ IsFiniteSet(FdUsers(e)) /\ Cardinality(FdUsers(e)) \in Nat
<1>1. /\ IpUsers(e) \subseteq Threads /\ PutUsers(e) \subseteq Threads
      /\ FdUsers(e) \subseteq Threads
  BY DEF IpUsers, PutUsers, FdUsers
<1>2. IsFiniteSet(IpUsers(e)) /\ IsFiniteSet(PutUsers(e)) /\ IsFiniteSet(FdUsers(e))
  BY <1>1, InodeAssumption, FS_Subset
<1> QED BY <1>2, FS_CardinalityType

\* A finite set with an element has a positive cardinality, and one with two
\* has more than one.
LEMMA Elements ==
  ASSUME NEW S, IsFiniteSet(S), NEW x \in S
  PROVE  /\ Cardinality(S) \in Nat /\ Cardinality(S) >= 1
         /\ Cardinality(S) = 1 => S = {x}
<1>1. IsFiniteSet(S \ {x}) /\ Cardinality(S \ {x}) = Cardinality(S) - 1
  BY FS_RemoveElement
<1>2. Cardinality(S) \in Nat /\ Cardinality(S \ {x}) \in Nat
  BY <1>1, FS_CardinalityType
<1>3. Cardinality(S \ {x}) = 0 => S \ {x} = {}
  BY <1>1, FS_EmptySet
<1> QED BY <1>1, <1>2, <1>3

\* An entry without references has no users, and the only reference to an entry
\* that an iput() drops is its own.
LEMMA UserFacts ==
  ASSUME TypeInv, RefInv, NEW e \in Slots
  PROVE  /\ ref[e] = 0 => IpUsers(e) = {} /\ PutUsers(e) = {} /\ FdUsers(e) = {}
         /\ ref[e] = 1 => \A t \in PutUsers(e) :
                             PutUsers(e) = {t} /\ IpUsers(e) = {} /\ FdUsers(e) = {}
<1> DEFINE a == Cardinality(IpUsers(e))
           b == Cardinality(PutUsers(e))
           c == Cardinality(FdUsers(e))
<1>1. ref[e] = a + b + c /\ a \in Nat /\ b \in Nat /\ c \in Nat
  BY UsersFinite DEF RefInv
<1>2. /\ a = 0 => IpUsers(e) = {}
      /\ b = 0 => PutUsers(e) = {}
      /\ c = 0 => FdUsers(e) = {}
  BY UsersFinite, FS_EmptySet
<1>3. ASSUME ref[e] = 0
      PROVE  IpUsers(e) = {} /\ PutUsers(e) = {} /\ FdUsers(e) = {}
  <2>1. a = 0 /\ b = 0 /\ c = 0
    BY <1>1, <1>3
  <2> QED BY <2>1, <1>2
<1>4. ASSUME ref[e] = 1, NEW t \in PutUsers(e)
      PROVE  PutUsers(e) = {t} /\ IpUsers(e) = {} /\ FdUsers(e) = {}
  <2>1. b >= 1 /\ (b = 1 => PutUsers(e) = {t})
    BY UsersFinite, Elements
  <2>2. a = 0 /\ b = 1 /\ c = 0
    BY <1>1, <1>4, <2>1
  <2> QED BY <2>1, <2>2, <1>2
<1> QED BY <1>3, <1>4

\* Every variable that names an entry holds a reference to it.
LEMMA Referenced ==
  ASSUME TypeInv, ThreadInv, RefInv, NEW t \in Threads
  PROVE  /\ HasIp(t) => ip[t] \in Slots /\ ref[ip[t]] > 0
         /\ HasPut(t) => put[t] \in Slots /\ ref[put[t]] > 0
         /\ fd[t] # NoSlot => fd[t] \in Slots /\ ref[fd[t]] > 0
         /\ pc[t] \in WritePCs => ip[t] \in Slots /\ ref[ip[t]] > 0
<1>1. ASSUME HasIp(t) PROVE ip[t] \in Slots /\ ref[ip[t]] > 0
  <2>1. ip[t] \in Slots
    BY <1>1 DEF TypeInv, ThreadInv
  <2>2. t \in IpUsers(ip[t])
    BY <1>1 DEF IpUsers
  <2> QED BY <2>1, <2>2, UserFacts DEF TypeInv
<1>2. ASSUME HasPut(t) PROVE put[t] \in Slots /\ ref[put[t]] > 0
  <2>1. put[t] \in Slots
    BY <1>2 DEF TypeInv, ThreadInv
  <2>2. t \in PutUsers(put[t])
    BY <1>2 DEF PutUsers
  <2> QED BY <2>1, <2>2, UserFacts DEF TypeInv
<1>3. ASSUME fd[t] # NoSlot PROVE fd[t] \in Slots /\ ref[fd[t]] > 0
  <2>1. fd[t] \in Slots
    BY <1>3 DEF TypeInv
  <2>2. t \in FdUsers(fd[t])
    BY DEF FdUsers
  <2> QED BY <2>1, <2>2, UserFacts DEF TypeInv
<1>4. pc[t] \in WritePCs => ip[t] = fd[t] /\ fd[t] # NoSlot
  BY DEF ThreadInv
<1> QED BY <1>1, <1>2, <1>3, <1>4

\* A thread that holds a lock has a valid copy, but at the end of an iput().
LEMMA LockedValid ==
  ASSUME TypeInv, ThreadInv, RootInv, RefInv, ValidInv, NEW t \in Threads
  PROVE  /\ pc[t] \in IpLocked => ip[t] \in Slots \cap valid /\ ref[ip[t]] > 0
         /\ pc[t] \in FreePCs => put[t] \in Slots \cap valid /\ ref[put[t]] > 0 /\ root # t
<1>1. ASSUME pc[t] \in IpLocked PROVE ip[t] \in Slots \cap valid /\ ref[ip[t]] > 0
  <2>1. (HasIp(t) \/ pc[t] \in WritePCs) /\ pc[t] \notin IlockPCs
    BY <1>1 DEF HasIp, IpLocked, IpPCs, CreatePCs, UnlinkPCs, LinkPCs, WritePCs, IlockPCs
  <2>2. ip[t] \in Slots /\ ref[ip[t]] > 0
    BY <2>1, Referenced
  <2>3. pc[t] \in WritePCs => ip[t] = fd[t]
    BY DEF ThreadInv
  <2> QED BY <2>1, <2>2, <2>3 DEF ValidInv
<1>2. ASSUME pc[t] \in FreePCs
      PROVE  put[t] \in Slots \cap valid /\ ref[put[t]] > 0 /\ root # t
  <2>1. HasPut(t) /\ pc[t] \notin DropPCs
    BY <1>2 DEF HasPut, PutPCs, FreePCs, DropPCs
  <2>2. root # t
    BY <1>2 DEF RootInv, FreePCs, DropPCs, CreatePCs, UnlinkPCs
  <2> QED BY <2>1, <2>2, Referenced DEF ValidInv
<1> QED BY <1>1, <1>2

\* Only the holder of its lock updates an entry.
LEMMA UpdatingLocked ==
  ASSUME LockInv, NEW e \in Slots, NEW u \in Updating(e)
  PROVE  u \in Threads /\ locked[e] = u
  BY DEF Updating, LockInv, IpLocked, PutLocked, FreePCs

\* The block of a cached inode is its entry's, if that is valid.
LEMMA BlockOf ==
  ASSUME TypeInv, EntryInv, NEW e \in Slots, ref[e] > 0
  PROVE  Block(inum[e]) = IF e \in valid THEN inode[e].addr ELSE dinode[inum[e]].addr
<1>1. Cached(inum[e]) = {e}
  BY DEF EntryInv, Cached
<1> QED BY <1>1 DEF Block

\* The block of an inode that is not cached is what the disk says.
LEMMA BlockUncached ==
  ASSUME NEW i \in Inums, Cached(i) = {}
  PROVE  Block(i) = dinode[i].addr
  BY DEF Block

\* There is a first free entry, if there is any.
LEMMA FirstUnused ==
  ASSUME Unused # {}
  PROVE  (CHOOSE e \in Unused : \A u \in Unused : e <= u) \in Unused
<1>1. Unused \subseteq Nat
  BY InodeAssumption DEF Unused, Slots
<1> DEFINE R == OpToRel(<, Nat)
<1>2. IsWellFoundedOn(R, Nat)
  BY NatLessThanWellFounded
<1>3. \A u, e \in Nat : u < e => <<u, e>> \in R
  BY DEF OpToRel
<1> HIDE DEF R
<1>4. PICK e \in Unused : \A u \in Unused : ~ (<<u, e>> \in R)
  BY <1>1, <1>2, WFMin
<1>5. ASSUME NEW u \in Unused PROVE e <= u
  <2>1. u \in Nat /\ e \in Nat /\ ~ (u < e)
    BY <1>1, <1>3, <1>4
  <2> QED BY <2>1
<1> QED BY <1>5

\* iget() returns the inode's entry, or a free one when it has none, and panics
\* when there is neither.
LEMMA IgetFacts ==
  ASSUME NEW i \in Inums
  PROVE  /\ IgetSlot(i) # NoSlot =>
               /\ IgetSlot(i) \in Slots
               /\ Cached(i) # {} => ref[IgetSlot(i)] > 0 /\ inum[IgetSlot(i)] = i
               /\ Cached(i) = {} => ref[IgetSlot(i)] = 0
         /\ IgetSlot(i) = NoSlot => Cached(i) = {} /\ Unused = {}
<1>0. \A e \in Slots : e # NoSlot
  BY InodeAssumption DEF Slots, NoSlot
<1>1. CASE Cached(i) # {}
  <2>1. IgetSlot(i) \in Cached(i)
    BY <1>1 DEF IgetSlot
  <2> QED BY <1>0, <1>1, <2>1 DEF Cached
<1>2. CASE Cached(i) = {} /\ Unused # {}
  <2>1. IgetSlot(i) \in Unused
    BY <1>2, FirstUnused DEF IgetSlot
  <2> QED BY <1>0, <1>2, <2>1 DEF Unused
<1>3. CASE Cached(i) = {} /\ Unused = {}
  BY <1>3 DEF IgetSlot
<1> QED BY <1>1, <1>2, <1>3
-----------------------------------------------------------------------------
(* What a step does to the users of the entries *)

IpSame == \A f \in Slots : IpUsers(f)' = IpUsers(f)
IpGains(t, e) ==
    /\ t \notin IpUsers(e)
    /\ \A f \in Slots : IpUsers(f)' = IF f = e THEN IpUsers(f) \cup {t} ELSE IpUsers(f)
IpLoses(t, e) ==
    /\ t \in IpUsers(e)
    /\ \A f \in Slots : IpUsers(f)' = IF f = e THEN IpUsers(f) \ {t} ELSE IpUsers(f)

PutSame == \A f \in Slots : PutUsers(f)' = PutUsers(f)
PutGains(t, e) ==
    /\ t \notin PutUsers(e)
    /\ \A f \in Slots : PutUsers(f)' = IF f = e THEN PutUsers(f) \cup {t} ELSE PutUsers(f)
PutLoses(t, e) ==
    /\ t \in PutUsers(e)
    /\ \A f \in Slots : PutUsers(f)' = IF f = e THEN PutUsers(f) \ {t} ELSE PutUsers(f)

FdSame == \A f \in Slots : FdUsers(f)' = FdUsers(f)
FdGains(t, e) ==
    /\ t \notin FdUsers(e)
    /\ \A f \in Slots : FdUsers(f)' = IF f = e THEN FdUsers(f) \cup {t} ELSE FdUsers(f)
FdLoses(t, e) ==
    /\ t \in FdUsers(e)
    /\ \A f \in Slots : FdUsers(f)' = IF f = e THEN FdUsers(f) \ {t} ELSE FdUsers(f)

\* A step of t changes no local variable of another thread; the root's lock
\* passes between t and nobody.
Others(t) == \A u \in Threads \ {t} :
    /\ pc'[u] = pc[u] /\ ip'[u] = ip[u] /\ put'[u] = put[u]
    /\ name'[u] = name[u] /\ fd'[u] = fd[u]
    /\ root' = u <=> root = u

\* iget() of inode i, which t's next step is about, returned entry e.
Got(e, i) ==
    /\ e \in Slots /\ i \in Inums
    /\ inum' = [inum EXCEPT ![e] = i]
    /\ ref' = [ref EXCEPT ![e] = @ + 1]
    /\ ref[e] > 0 => inum[e] = i /\ valid' = valid
    /\ ref[e] = 0 => Cached(i) = {} /\ valid' = valid \ {e}

\* ilock() is called from six places.
IlockOf(from, to) ==
    \/ from = "open_ilock" /\ to = "open"
    \/ from = "create_ilock" /\ to = "create"
    \/ from = "unlink_ilock" /\ to = "unlink"
    \/ from = "link_ilock" /\ to = "link"
    \/ from = "unlink_bad" /\ to = "bad"
    \/ from = "write_ilock" /\ to = "write"
IlockStep(t) == \E from, to \in PCs : IlockOf(from, to) /\ Ilock(t, from, to)

\* The steps by which a thread keeps the references it has, those by which it
\* gets one in ip[t], the panics of a full disk, and the others.
WorkStep(t) ==
    \/ IlockStep(t)
    \/ IputLock(t) \/ Itrunc(t) \/ ItruncUpdate(t) \/ Ifree(t) \/ IputRelease(t)
    \/ CreateEntry(t) \/ WriteCall(t) \/ WriteUpdate(t) \/ UnlinkEntry(t) \/ AddLink(t)
    \/ \E b \in Blocks : Balloc(t, b)
FindStep(t) ==
    \/ \E n \in Names : OpenFound(t, n) \/ UnlinkFound(t, n)
    \/ \E old, new \in Names : LinkFound(t, old, new)
    \/ \E n \in Names, i \in Inums : CreateNew(t, n, i)
StopStep(t) == BallocFails(t) \/ \E n \in Names : IallocFails(t, n)
PassStep(t) ==
    \/ OpenFile(t) \/ OpenFails(t) \/ Close(t) \/ DropLink(t) \/ Dirlink(t) \/ IputDrop(t)

\* There are no other steps.
LEMMA StepKinds ==
  ASSUME NEW t \in Threads, Step(t)
  PROVE  WorkStep(t) \/ FindStep(t) \/ PassStep(t) \/ StopStep(t)
<1>1. ASSUME NEW from, NEW to, IlockOf(from, to), Ilock(t, from, to) PROVE IlockStep(t)
  BY <1>1 DEF IlockStep, IlockOf, PCs
<1> QED BY <1>1 DEF Step, IlockOf, WorkStep, FindStep, PassStep, StopStep

\* A full disk stops the machine.
LEMMA StopPanics ==
  ASSUME pc \in [Threads -> PCs], NEW t \in Threads, StopStep(t)
  PROVE  pc[t] # "panic" /\ pc' = [pc EXCEPT ![t] = "panic"]
<1> QED BY DEF StopStep, BallocFails, IallocFails, Goto

\* The step of an iget() that does not panic.
LEMMA IgetStep ==
  ASSUME TypeInv, NEW t \in Threads, NEW i \in Inums, NEW local, NEW localp, NEW label,
         Iget(t, i, local, localp, label), NoFsPanic'
  PROVE  \E e \in Slots :
            /\ Got(e, i) /\ localp = [local EXCEPT ![t] = e]
            /\ pc' = [pc EXCEPT ![t] = label]
<1> DEFINE e == IgetSlot(i)
<1>1. e # NoSlot
  BY DEF Iget, Goto, NoFsPanic, TypeInv
<1>2. /\ e \in Slots
      /\ Cached(i) # {} => ref[e] > 0 /\ inum[e] = i
      /\ Cached(i) = {} => ref[e] = 0
  BY <1>1, IgetFacts
<1>3. /\ inum' = [inum EXCEPT ![e] = i]
      /\ ref' = [ref EXCEPT ![e] = @ + 1]
      /\ valid' = IF Cached(i) = {} THEN valid \ {e} ELSE valid
      /\ localp = [local EXCEPT ![t] = e]
      /\ pc' = [pc EXCEPT ![t] = label]
  BY <1>1 DEF Iget, Goto, Count
<1>4. Got(e, i)
  BY <1>2, <1>3 DEF Got, TypeInv
<1> HIDE DEF e
<1> QED BY <1>2, <1>3, <1>4

\* A work step changes no variable that names an entry, but ip[t] at the start
\* of a write; and so everybody keeps his references.
LEMMA WorkFrame ==
  ASSUME TypeInv, ThreadInv, RootInv, NEW t \in Threads, WorkStep(t), NoFsPanic'
  PROVE  /\ Others(t) /\ UNCHANGED <<inum, ref, put, name, fd>>
         /\ IpSame /\ PutSame /\ FdSame
<1> DEFINE Frame == Others(t) /\ UNCHANGED <<inum, ref, put, name, fd>>
           Keeps == /\ HasIp(t)' <=> HasIp(t)
                    /\ HasPut(t)' <=> HasPut(t)
                    /\ HasIp(t) => ip'[t] = ip[t]
<1>0. /\ pc \in [Threads -> PCs] /\ ip \in [Threads -> Slots \cup {NoSlot}]
      /\ None \notin Threads
  BY InodeAssumption DEF TypeInv
<1> USE <1>0 DEF Goto, NoFsPanic, Others, HasIp, HasPut,
            PutPCs, IpPCs, CreatePCs, UnlinkPCs, LinkPCs
<1>1. ASSUME IlockStep(t) PROVE Frame /\ Keeps
  <2>1. PICK from \in PCs, to \in PCs : IlockOf(from, to) /\ Ilock(t, from, to)
    BY <1>1 DEF IlockStep
  <2>2. pc' = [pc EXCEPT ![t] = to] /\ pc[t] = from
    BY <2>1 DEF Ilock
  <2>3. Frame
    BY <2>1, <2>2 DEF Ilock
  <2>4. Keeps
    BY <2>1, <2>2 DEF Ilock, IlockOf
  <2> QED BY <2>3, <2>4
<1>2. ASSUME IputLock(t) PROVE Frame /\ Keeps
  BY <1>2 DEF IputLock
<1>3. ASSUME Itrunc(t) PROVE Frame /\ Keeps
  <2>1. pc' = [pc EXCEPT ![t] = "itrunc_update"] /\ pc[t] = "itrunc"
    BY <1>3 DEF Itrunc
  <2>2. UNCHANGED <<inum, ref, root, ip, put, name, fd>>
    BY <1>3 DEF Itrunc
  <2> QED BY <2>1, <2>2
<1>4. ASSUME ItruncUpdate(t) PROVE Frame /\ Keeps
  BY <1>4 DEF ItruncUpdate, Update
<1>5. ASSUME Ifree(t) PROVE Frame /\ Keeps
  BY <1>5 DEF Ifree, Update
<1>6. ASSUME IputRelease(t) PROVE Frame /\ Keeps
  BY <1>6 DEF IputRelease, Unlock
<1>7. ASSUME CreateEntry(t) PROVE Frame /\ Keeps
  <2>1. pc[t] = "create" /\ root = t
    BY <1>7 DEF CreateEntry, RootInv
  <2>2. pc' = [pc EXCEPT ![t] = "open"] /\ root' = None
    BY <1>7 DEF CreateEntry
  <2>3. UNCHANGED <<inum, ref, ip, put, name, fd>>
    BY <1>7 DEF CreateEntry
  <2> QED BY <2>1, <2>2, <2>3
<1>8. ASSUME WriteCall(t) PROVE Frame /\ Keeps
  BY <1>8 DEF WriteCall, cache
<1>9. ASSUME WriteUpdate(t) PROVE Frame /\ Keeps
  BY <1>9 DEF WriteUpdate, Update, Unlock
<1>10. ASSUME UnlinkEntry(t) PROVE Frame /\ Keeps
  <2>1. pc[t] = "unlink" /\ root = t
    BY <1>10 DEF UnlinkEntry, RootInv
  <2>2. pc' = [pc EXCEPT ![t] = "unlinked"] /\ root' = None
    BY <1>10 DEF UnlinkEntry
  <2>3. UNCHANGED <<inum, ref, ip, put, name, fd>>
    BY <1>10 DEF UnlinkEntry, cache
  <2> QED BY <2>1, <2>2, <2>3
<1>11. ASSUME AddLink(t) PROVE Frame /\ Keeps
  BY <1>11 DEF AddLink, Update, Unlock
<1>12. ASSUME NEW b \in Blocks, Balloc(t, b) PROVE Frame /\ Keeps
  BY <1>12 DEF Balloc
<1>13. Frame /\ Keeps
  BY <1>1, <1>2, <1>3, <1>4, <1>5, <1>6, <1>7, <1>8, <1>9, <1>10, <1>11, <1>12 DEF WorkStep
<1>14. IpSame /\ PutSame /\ FdSame
  BY <1>13 DEF IpSame, PutSame, FdSame, IpUsers, PutUsers, FdUsers
<1> QED BY <1>13, <1>14

\* What a call that finds or creates a file does: it gets entry e of inode i.
Finds(t, e, i, label) ==
    /\ pc[t] = "idle" /\ root = None
    /\ Got(e, i) /\ ip' = [ip EXCEPT ![t] = e] /\ pc' = [pc EXCEPT ![t] = label]
    /\ UNCHANGED <<bitmap, dir, inode, locked, put, fd, leaked>>

\* namei() finds the entry of the root.
FindsEntry(t, e, i, label, n) ==
    /\ Finds(t, e, i, label)
    /\ n \in Names /\ dir[n] = i /\ dinode' = dinode
    /\ \/ label = "open_ilock" /\ fd[t] = NoSlot /\ UNCHANGED <<root, name>>
       \/ label = "unlink_ilock" /\ root' = t /\ name' = [name EXCEPT ![t] = n]
       \/ /\ label = "link_ilock" /\ root' = root
          /\ \E new \in Names : name' = [name EXCEPT ![t] = new]

\* ialloc() finds a free inode.
FindsFree(t, e, i, label, n) ==
    /\ Finds(t, e, i, label)
    /\ n \in Names /\ dir[n] = None /\ fd[t] = NoSlot /\ dinode[i].type = "none"
    /\ label = "create_ilock" /\ root' = t /\ name' = [name EXCEPT ![t] = n]
    /\ dinode' = [dinode EXCEPT ![i] = [type |-> "file", nlink |-> 0, addr |-> None]]

\* There is no other way to find one.
LEMMA FindKinds ==
  ASSUME TypeInv, NEW t \in Threads, FindStep(t), NoFsPanic'
  PROVE  \E e \in Slots, i \in Inums, n \in Names, label \in IlockPCs :
            FindsEntry(t, e, i, label, n) \/ FindsFree(t, e, i, label, n)
<1> DEFINE Goal == \E e \in Slots, i \in Inums, n \in Names, label \in IlockPCs :
                      FindsEntry(t, e, i, label, n) \/ FindsFree(t, e, i, label, n)
<1>0. dir \in [Names -> Inums \cup {None}]
  BY DEF TypeInv
<1>1. ASSUME NEW n \in Names, OpenFound(t, n) PROVE Goal
  <2>1. dir[n] \in Inums
    BY <1>0, <1>1 DEF OpenFound
  <2>2. PICK e \in Slots : /\ Got(e, dir[n]) /\ ip' = [ip EXCEPT ![t] = e]
                           /\ pc' = [pc EXCEPT ![t] = "open_ilock"]
    BY <1>1, <2>1, IgetStep DEF OpenFound
  <2>3. FindsEntry(t, e, dir[n], "open_ilock", n)
    BY <1>1, <2>2 DEF OpenFound, FindsEntry, Finds
  <2> QED BY <2>1, <2>3 DEF IlockPCs
<1>2. ASSUME NEW n \in Names, UnlinkFound(t, n) PROVE Goal
  <2>1. dir[n] \in Inums
    BY <1>0, <1>2 DEF UnlinkFound
  <2>2. PICK e \in Slots : /\ Got(e, dir[n]) /\ ip' = [ip EXCEPT ![t] = e]
                           /\ pc' = [pc EXCEPT ![t] = "unlink_ilock"]
    BY <1>2, <2>1, IgetStep DEF UnlinkFound
  <2>3. FindsEntry(t, e, dir[n], "unlink_ilock", n)
    BY <1>2, <2>2 DEF UnlinkFound, FindsEntry, Finds
  <2> QED BY <2>1, <2>3 DEF IlockPCs
<1>3. ASSUME NEW old \in Names, NEW new \in Names, LinkFound(t, old, new) PROVE Goal
  <2>1. dir[old] \in Inums
    BY <1>0, <1>3 DEF LinkFound
  <2>2. PICK e \in Slots : /\ Got(e, dir[old]) /\ ip' = [ip EXCEPT ![t] = e]
                           /\ pc' = [pc EXCEPT ![t] = "link_ilock"]
    BY <1>3, <2>1, IgetStep DEF LinkFound
  <2>3. FindsEntry(t, e, dir[old], "link_ilock", old)
    BY <1>3, <2>2 DEF LinkFound, FindsEntry, Finds
  <2> QED BY <2>1, <2>3 DEF IlockPCs
<1>4. ASSUME NEW n \in Names, NEW i \in Inums, CreateNew(t, n, i) PROVE Goal
  <2>1. PICK e \in Slots : /\ Got(e, i) /\ ip' = [ip EXCEPT ![t] = e]
                           /\ pc' = [pc EXCEPT ![t] = "create_ilock"]
    BY <1>4, IgetStep DEF CreateNew
  <2>2. FindsFree(t, e, i, "create_ilock", n)
    BY <1>4, <2>1 DEF CreateNew, FindsFree, Finds
  <2> QED BY <2>2 DEF IlockPCs
<1> QED BY <1>1, <1>2, <1>3, <1>4 DEF FindStep

\* The caller gets a reference in ip[t]; nobody else's changes.
LEMMA FindFrame ==
  ASSUME TypeInv, NEW t \in Threads, NEW e \in Slots, NEW i \in Inums, NEW n \in Names,
         NEW label \in IlockPCs, FindsEntry(t, e, i, label, n) \/ FindsFree(t, e, i, label, n)
  PROVE  /\ Others(t) /\ IpGains(t, e) /\ PutSame /\ FdSame
         /\ root' = IF label \in CreatePCs \cup UnlinkPCs THEN t ELSE None
         /\ label \in CreatePCs \cup UnlinkPCs => name'[t] = n
         /\ name' \in [Threads -> Names \cup {None}]
         /\ label \in LinkPCs => name'[t] \in Names
         /\ label \in {"open_ilock", "create_ilock"} => fd[t] = NoSlot
         /\ label \in CreatePCs <=> FindsFree(t, e, i, label, n)
<1>0. /\ pc \in [Threads -> PCs] /\ ip \in [Threads -> Slots \cup {NoSlot}]
      /\ name \in [Threads -> Names \cup {None}] /\ None \notin Threads
  BY InodeAssumption DEF TypeInv
<1> USE <1>0
<1>1. Finds(t, e, i, label)
  BY DEF FindsEntry, FindsFree
<1>2. /\ label \in CreatePCs <=> FindsFree(t, e, i, label, n)
      /\ root' = IF label \in CreatePCs \cup UnlinkPCs THEN t ELSE None
      /\ label \in CreatePCs \cup UnlinkPCs => name'[t] = n
      /\ name' \in [Threads -> Names \cup {None}]
      /\ label \in LinkPCs => name'[t] \in Names
      /\ label \in {"open_ilock", "create_ilock"} => fd[t] = NoSlot
      /\ \A u \in Threads \ {t} : name'[u] = name[u]
  BY <1>1 DEF FindsEntry, FindsFree, Finds, CreatePCs, UnlinkPCs, LinkPCs
<1>3. Others(t)
  BY <1>1, <1>2 DEF Finds, Others
<1>4. ~HasIp(t) /\ ~HasPut(t) /\ HasIp(t)' /\ ~HasPut(t)'
  BY <1>1 DEF Finds, HasIp, HasPut, IpPCs, PutPCs, CreatePCs, UnlinkPCs, LinkPCs, IlockPCs
<1>5. \A u \in Threads \ {t} : (HasIp(u)' <=> HasIp(u)) /\ (HasPut(u)' <=> HasPut(u))
  BY <1>3 DEF Others, HasIp, HasPut
<1>6. ip' = [ip EXCEPT ![t] = e] /\ put' = put /\ fd' = fd
  BY <1>1 DEF Finds
<1>7. IpGains(t, e) /\ PutSame /\ FdSame
  BY <1>4, <1>5, <1>6 DEF IpGains, PutSame, FdSame, IpUsers, PutUsers, FdUsers
<1> QED BY <1>2, <1>3, <1>7

\* dirlink() that makes the entry, and dirlink() that finds one: it looks the
\* inode up and puts it.
DirlinkMakes(t) == Dirlink(t) /\ dir[name[t]] = None
DirlinkFinds(t, e) ==
    /\ pc[t] = "dirlink" /\ root = None /\ root' = t
    /\ Got(e, dir[name[t]])
    /\ put' = [put EXCEPT ![t] = e] /\ pc' = [pc EXCEPT ![t] = "iput"]
    /\ UNCHANGED <<dinode, bitmap, dir, inode, locked, ip, name, fd, leaked>>

\* A dirlink() that does not panic is one or the other.
LEMMA DirlinkKinds ==
  ASSUME TypeInv, ThreadInv, NEW t \in Threads, Dirlink(t), NoFsPanic'
  PROVE  DirlinkMakes(t) \/ \E e \in Slots : DirlinkFinds(t, e)
<1> SUFFICES ASSUME dir[name[t]] # None PROVE \E e \in Slots : DirlinkFinds(t, e)
  BY DEF DirlinkMakes
<1>1. name[t] \in Names
  BY DEF Dirlink, ThreadInv, LinkPCs
<1>2. dir[name[t]] \in Inums
  BY <1>1 DEF TypeInv
<1>3. PICK e \in Slots : /\ Got(e, dir[name[t]]) /\ put' = [put EXCEPT ![t] = e]
                         /\ pc' = [pc EXCEPT ![t] = "iput"]
  BY <1>2, IgetStep DEF Dirlink
<1> QED BY <1>2, <1>3 DEF Dirlink, DirlinkFinds

\* The call puts the inode it worked on, or closes the file.
PutsIp(t) == OpenFails(t) \/ DropLink(t) \/ DirlinkMakes(t)

\* The reference in ip[t] becomes the one that iput() drops.
LEMMA PutsIpFrame ==
  ASSUME TypeInv, ThreadInv, RootInv, NEW t \in Threads, PutsIp(t)
  PROVE  /\ Others(t) /\ UNCHANGED <<inum, ref, valid, ip, name, fd, root>>
         /\ pc[t] \in {"open", "unlinked", "bad", "dirlink"} /\ root # t /\ ip[t] \in Slots
         /\ pc' = [pc EXCEPT ![t] = "iput"] /\ put' = [put EXCEPT ![t] = ip[t]]
         /\ IpLoses(t, ip[t]) /\ PutGains(t, ip[t]) /\ FdSame
<1>0. /\ pc \in [Threads -> PCs] /\ put \in [Threads -> Slots \cup {NoSlot}]
      /\ ip \in [Threads -> Slots \cup {NoSlot}]
  BY DEF TypeInv
<1> USE <1>0
<1>1. /\ UNCHANGED <<inum, ref, valid, ip, name, fd, root>>
      /\ pc[t] \in {"open", "unlinked", "bad", "dirlink"}
      /\ pc' = [pc EXCEPT ![t] = "iput"] /\ put' = [put EXCEPT ![t] = ip[t]]
  BY DEF PutsIp, OpenFails, DropLink, DirlinkMakes, Dirlink, PutIp, Goto, Update
<1>2. root # t
  BY <1>1 DEF RootInv, CreatePCs, UnlinkPCs, DropPCs
<1>3. Others(t)
  BY <1>1 DEF Others
<1>4. HasIp(t) /\ ~HasPut(t) /\ ~HasIp(t)' /\ HasPut(t)'
  BY <1>1, <1>2 DEF HasIp, HasPut, IpPCs, PutPCs, CreatePCs, UnlinkPCs, LinkPCs
<1>5. \A u \in Threads \ {t} : (HasIp(u)' <=> HasIp(u)) /\ (HasPut(u)' <=> HasPut(u))
  BY <1>3 DEF Others, HasIp, HasPut
<1>6. IpLoses(t, ip[t]) /\ PutGains(t, ip[t]) /\ FdSame
  BY <1>1, <1>4, <1>5
     DEF IpLoses, PutGains, FdSame, IpUsers, PutUsers, FdUsers
<1>7. ip[t] \in Slots
  BY <1>4 DEF ThreadInv
<1> QED BY <1>1, <1>2, <1>3, <1>6, <1>7

\* The reference in ip[t] becomes the open file's.
LEMMA OpenFileFrame ==
  ASSUME TypeInv, ThreadInv, RootInv, NEW t \in Threads, OpenFile(t)
  PROVE  /\ Others(t) /\ ip[t] \in Slots
         /\ IpLoses(t, ip[t]) /\ PutSame /\ FdGains(t, ip[t])
<1>0. /\ pc \in [Threads -> PCs] /\ fd \in [Threads -> Slots \cup {NoSlot}]
      /\ ip \in [Threads -> Slots \cup {NoSlot}] /\ name \in [Threads -> Names \cup {None}]
  BY DEF TypeInv
<1> USE <1>0
<1>1. /\ UNCHANGED <<root, put>>
      /\ pc[t] = "open" /\ pc' = [pc EXCEPT ![t] = "idle"]
      /\ fd' = [fd EXCEPT ![t] = ip[t]] /\ ip' = [ip EXCEPT ![t] = NoSlot]
      /\ name' = [name EXCEPT ![t] = None]
  BY DEF OpenFile, Goto
<1>2. fd[t] = NoSlot
  BY <1>1 DEF ThreadInv
<1>3. Others(t)
  BY <1>1 DEF Others
<1>4. HasIp(t) /\ ~HasPut(t) /\ ~HasIp(t)' /\ ~HasPut(t)'
  BY <1>1 DEF HasIp, HasPut, IpPCs, PutPCs, CreatePCs, UnlinkPCs, LinkPCs
<1>5. \A u \in Threads \ {t} : (HasIp(u)' <=> HasIp(u)) /\ (HasPut(u)' <=> HasPut(u))
  BY <1>3 DEF Others, HasIp, HasPut
<1>6. ip[t] \in Slots /\ ip[t] # NoSlot
  BY <1>4 DEF ThreadInv
<1>7. \A u \in Threads \ {t} : ip'[u] = ip[u] /\ put'[u] = put[u] /\ fd'[u] = fd[u]
  BY <1>3 DEF Others
<1>8. IpLoses(t, ip[t]) /\ PutSame
  BY <1>4, <1>5, <1>7 DEF IpLoses, PutSame, IpUsers, PutUsers
<1>9. FdGains(t, ip[t])
  <2>1. fd'[t] = ip[t]
    BY <1>1
  <2>2. \A f \in Slots : f # NoSlot
    BY InodeAssumption DEF Slots, NoSlot
  <2> QED BY <1>2, <1>6, <1>7, <2>1, <2>2 DEF FdGains, FdUsers
<1> QED BY <1>3, <1>6, <1>8, <1>9

\* The open file's reference becomes the one that iput() drops.
LEMMA CloseFrame ==
  ASSUME TypeInv, RootInv, NEW t \in Threads, Close(t)
  PROVE  /\ Others(t) /\ fd[t] \in Slots /\ root # t
         /\ IpSame /\ PutGains(t, fd[t]) /\ FdLoses(t, fd[t])
<1>0. /\ pc \in [Threads -> PCs] /\ fd \in [Threads -> Slots \cup {NoSlot}]
      /\ put \in [Threads -> Slots \cup {NoSlot}]
  BY DEF TypeInv
<1> USE <1>0
<1>1. /\ UNCHANGED <<root, ip, name>>
      /\ pc[t] = "idle" /\ pc' = [pc EXCEPT ![t] = "iput"] /\ fd[t] # NoSlot
      /\ fd' = [fd EXCEPT ![t] = NoSlot] /\ put' = [put EXCEPT ![t] = fd[t]]
  BY DEF Close, Goto
<1>2. root # t
  BY <1>1 DEF RootInv, CreatePCs, UnlinkPCs, DropPCs
<1>3. Others(t)
  BY <1>1 DEF Others
<1>4. ~HasIp(t) /\ ~HasPut(t) /\ ~HasIp(t)' /\ HasPut(t)'
  BY <1>1, <1>2 DEF HasIp, HasPut, IpPCs, PutPCs, CreatePCs, UnlinkPCs, LinkPCs
<1>5. \A u \in Threads \ {t} : (HasIp(u)' <=> HasIp(u)) /\ (HasPut(u)' <=> HasPut(u))
  BY <1>3 DEF Others, HasIp, HasPut
<1>6. IpSame /\ PutGains(t, fd[t])
  BY <1>1, <1>4, <1>5 DEF IpSame, PutGains, IpUsers, PutUsers
<1>7. FdLoses(t, fd[t])
  <2>1. \A f \in Slots : f # NoSlot
    BY InodeAssumption DEF Slots, NoSlot
  <2> QED BY <1>1, <2>1 DEF FdLoses, FdUsers
<1> QED BY <1>1, <1>2, <1>3, <1>6, <1>7

\* A failed dirlink() has two references.
LEMMA DirlinkFindsFrame ==
  ASSUME TypeInv, ThreadInv, NEW t \in Threads, NEW e \in Slots, DirlinkFinds(t, e)
  PROVE  Others(t) /\ IpSame /\ PutGains(t, e) /\ FdSame
<1>0. /\ pc \in [Threads -> PCs] /\ put \in [Threads -> Slots \cup {NoSlot}]
      /\ None \notin Threads
  BY InodeAssumption DEF TypeInv
<1> USE <1>0
<1>1. /\ UNCHANGED <<ip, name, fd>> /\ root = None /\ root' = t
      /\ pc[t] = "dirlink" /\ pc' = [pc EXCEPT ![t] = "iput"]
      /\ put' = [put EXCEPT ![t] = e]
  BY DEF DirlinkFinds
<1>2. Others(t)
  BY <1>1 DEF Others
<1>3. HasIp(t) /\ ~HasPut(t) /\ HasIp(t)' /\ HasPut(t)'
  BY <1>1 DEF HasIp, HasPut, IpPCs, PutPCs, CreatePCs, UnlinkPCs, LinkPCs
<1>4. \A u \in Threads \ {t} : (HasIp(u)' <=> HasIp(u)) /\ (HasPut(u)' <=> HasPut(u))
  BY <1>2 DEF Others, HasIp, HasPut
<1> QED BY <1>1, <1>2, <1>3, <1>4
        DEF IpSame, PutGains, FdSame, IpUsers, PutUsers, FdUsers

\* iput() drops the reference it had.
LEMMA IputDropFrame ==
  ASSUME TypeInv, ThreadInv, NEW t \in Threads, IputDrop(t)
  PROVE  /\ Others(t) /\ put[t] \in Slots
         /\ IpSame /\ PutLoses(t, put[t]) /\ FdSame
<1>0. /\ pc \in [Threads -> PCs] /\ put \in [Threads -> Slots \cup {NoSlot}]
      /\ ip \in [Threads -> Slots \cup {NoSlot}] /\ name \in [Threads -> Names \cup {None}]
      /\ None \notin Threads
  BY InodeAssumption DEF TypeInv
<1> USE <1>0
<1>1. pc[t] = "idrop" /\ put' = [put EXCEPT ![t] = NoSlot] /\ fd' = fd
  BY DEF IputDrop
<1>2. CASE root = t
  <2>1. pc' = [pc EXCEPT ![t] = "unlink_bad"] /\ root' = None /\ UNCHANGED <<ip, name>>
    BY <1>2 DEF IputDrop, Goto
  <2>2. Others(t)
    BY <1>1, <1>2, <2>1 DEF Others
  <2>3. HasIp(t) /\ HasPut(t) /\ HasIp(t)' /\ ~HasPut(t)'
    BY <1>1, <1>2, <2>1 DEF HasIp, HasPut, IpPCs, PutPCs, CreatePCs, UnlinkPCs, LinkPCs
  <2>4. \A u \in Threads \ {t} : (HasIp(u)' <=> HasIp(u)) /\ (HasPut(u)' <=> HasPut(u))
    BY <2>2 DEF Others, HasIp, HasPut
  <2>5. put[t] \in Slots
    BY <2>3 DEF ThreadInv
  <2> QED BY <1>1, <2>1, <2>2, <2>3, <2>4, <2>5
          DEF IpSame, PutLoses, FdSame, IpUsers, PutUsers, FdUsers
<1>3. CASE root # t
  <2>1. /\ pc' = [pc EXCEPT ![t] = "idle"] /\ root' = root
        /\ ip' = [ip EXCEPT ![t] = NoSlot] /\ name' = [name EXCEPT ![t] = None]
    BY <1>3 DEF IputDrop, Goto
  <2>2. Others(t)
    BY <1>1, <1>3, <2>1 DEF Others
  <2>3. ~HasIp(t) /\ HasPut(t) /\ ~HasIp(t)' /\ ~HasPut(t)'
    BY <1>1, <1>3, <2>1 DEF HasIp, HasPut, IpPCs, PutPCs, CreatePCs, UnlinkPCs, LinkPCs
  <2>4. \A u \in Threads \ {t} : (HasIp(u)' <=> HasIp(u)) /\ (HasPut(u)' <=> HasPut(u))
    BY <2>2 DEF Others, HasIp, HasPut
  <2>5. put[t] \in Slots
    BY <2>3 DEF ThreadInv
  <2> QED BY <1>1, <2>1, <2>2, <2>3, <2>4, <2>5
          DEF IpSame, PutLoses, FdSame, IpUsers, PutUsers, FdUsers
<1> QED BY <1>2, <1>3

\* All the kinds of steps.
LEMMA StepCases ==
  ASSUME TypeInv, ThreadInv, NEW t \in Threads, Step(t), NoFsPanic'
  PROVE  \/ WorkStep(t)
         \/ \E e \in Slots, i \in Inums, n \in Names, label \in IlockPCs :
               FindsEntry(t, e, i, label, n) \/ FindsFree(t, e, i, label, n)
         \/ OpenFile(t) \/ PutsIp(t) \/ Close(t) \/ IputDrop(t)
         \/ \E e \in Slots : DirlinkFinds(t, e)
<1>1. WorkStep(t) \/ FindStep(t) \/ PassStep(t)
  BY StepKinds, StopPanics DEF TypeInv, NoFsPanic
<1>2. FindStep(t) => \E e \in Slots, i \in Inums, n \in Names, label \in IlockPCs :
                        FindsEntry(t, e, i, label, n) \/ FindsFree(t, e, i, label, n)
  BY FindKinds
<1>3. Dirlink(t) => DirlinkMakes(t) \/ \E e \in Slots : DirlinkFinds(t, e)
  BY DirlinkKinds
<1> QED BY <1>1, <1>2, <1>3 DEF PassStep, PutsIp

-----------------------------------------------------------------------------
(* References *)

\* A set of users that gains or loses a thread counts one more or one less.
LEMMA CountChange ==
  ASSUME NEW S, IsFiniteSet(S), NEW t
  PROVE  /\ Cardinality(S) \in Nat
         /\ t \notin S => Cardinality(S \cup {t}) = Cardinality(S) + 1
         /\ t \in S => Cardinality(S \ {t}) = Cardinality(S) - 1
  BY FS_AddElement, FS_RemoveElement, FS_CardinalityType

\* How many users an entry has after a step.
LEMMA IpCount ==
  ASSUME NEW t, NEW e, NEW f \in Slots
  PROVE  /\ IpSame => Cardinality(IpUsers(f))' = Cardinality(IpUsers(f))
         /\ IpGains(t, e) => Cardinality(IpUsers(f))'
                                = Cardinality(IpUsers(f)) + (IF f = e THEN 1 ELSE 0)
         /\ IpLoses(t, e) => Cardinality(IpUsers(f))'
                                = Cardinality(IpUsers(f)) - (IF f = e THEN 1 ELSE 0)
<1>1. IsFiniteSet(IpUsers(f)) /\ Cardinality(IpUsers(f)) \in Nat
  BY UsersFinite
<1>2. /\ t \notin IpUsers(f) => Cardinality(IpUsers(f) \cup {t}) = Cardinality(IpUsers(f)) + 1
      /\ t \in IpUsers(f) => Cardinality(IpUsers(f) \ {t}) = Cardinality(IpUsers(f)) - 1
  BY <1>1, CountChange
<1>3. IpSame => IpUsers(f)' = IpUsers(f)
  BY DEF IpSame
<1>4. IpGains(t, e) => IF f = e THEN t \notin IpUsers(f) /\ IpUsers(f)' = IpUsers(f) \cup {t}
                                 ELSE IpUsers(f)' = IpUsers(f)
  BY DEF IpGains
<1>5. IpLoses(t, e) => IF f = e THEN t \in IpUsers(f) /\ IpUsers(f)' = IpUsers(f) \ {t}
                                 ELSE IpUsers(f)' = IpUsers(f)
  BY DEF IpLoses
<1>6. IpSame => Cardinality(IpUsers(f))' = Cardinality(IpUsers(f))
  BY <1>3
<1>7. ASSUME IpGains(t, e) PROVE Cardinality(IpUsers(f))' = Cardinality(IpUsers(f)) + (IF f = e THEN 1 ELSE 0)
  <2>1. CASE f = e
    <3>1. IpUsers(f)' = IpUsers(f) \cup {t}
      BY <1>4, <1>7, <2>1
    <3>2. Cardinality(IpUsers(f) \cup {t}) = Cardinality(IpUsers(f)) + 1
      BY <1>2, <1>4, <1>7, <2>1
    <3> QED BY <2>1, <3>1, <3>2
  <2>2. CASE f # e
    <3>1. IpUsers(f)' = IpUsers(f)
      BY <1>4, <1>7, <2>2
    <3>2. Cardinality(IpUsers(f))' = Cardinality(IpUsers(f))
      BY <3>1
    <3> QED BY <1>1, <2>2, <3>2
  <2> QED BY <2>1, <2>2
<1>8. ASSUME IpLoses(t, e) PROVE Cardinality(IpUsers(f))' = Cardinality(IpUsers(f)) - (IF f = e THEN 1 ELSE 0)
  <2>1. CASE f = e
    <3>1. IpUsers(f)' = IpUsers(f) \ {t}
      BY <1>5, <1>8, <2>1
    <3>2. Cardinality(IpUsers(f) \ {t}) = Cardinality(IpUsers(f)) - 1
      BY <1>2, <1>5, <1>8, <2>1
    <3> QED BY <2>1, <3>1, <3>2
  <2>2. CASE f # e
    <3>1. IpUsers(f)' = IpUsers(f)
      BY <1>5, <1>8, <2>2
    <3>2. Cardinality(IpUsers(f))' = Cardinality(IpUsers(f))
      BY <3>1
    <3> QED BY <1>1, <2>2, <3>2
  <2> QED BY <2>1, <2>2
<1> QED BY <1>6, <1>7, <1>8

\* The same of the calls of iput(),
LEMMA PutCount ==
  ASSUME NEW t, NEW e, NEW f \in Slots
  PROVE  /\ PutSame => Cardinality(PutUsers(f))' = Cardinality(PutUsers(f))
         /\ PutGains(t, e) => Cardinality(PutUsers(f))'
                                 = Cardinality(PutUsers(f)) + (IF f = e THEN 1 ELSE 0)
         /\ PutLoses(t, e) => Cardinality(PutUsers(f))'
                                 = Cardinality(PutUsers(f)) - (IF f = e THEN 1 ELSE 0)
<1>1. IsFiniteSet(PutUsers(f)) /\ Cardinality(PutUsers(f)) \in Nat
  BY UsersFinite
<1>2. /\ t \notin PutUsers(f) => Cardinality(PutUsers(f) \cup {t}) = Cardinality(PutUsers(f)) + 1
      /\ t \in PutUsers(f) => Cardinality(PutUsers(f) \ {t}) = Cardinality(PutUsers(f)) - 1
  BY <1>1, CountChange
<1>3. PutSame => PutUsers(f)' = PutUsers(f)
  BY DEF PutSame
<1>4. PutGains(t, e) => IF f = e THEN t \notin PutUsers(f) /\ PutUsers(f)' = PutUsers(f) \cup {t}
                                 ELSE PutUsers(f)' = PutUsers(f)
  BY DEF PutGains
<1>5. PutLoses(t, e) => IF f = e THEN t \in PutUsers(f) /\ PutUsers(f)' = PutUsers(f) \ {t}
                                 ELSE PutUsers(f)' = PutUsers(f)
  BY DEF PutLoses
<1>6. PutSame => Cardinality(PutUsers(f))' = Cardinality(PutUsers(f))
  BY <1>3
<1>7. ASSUME PutGains(t, e) PROVE Cardinality(PutUsers(f))' = Cardinality(PutUsers(f)) + (IF f = e THEN 1 ELSE 0)
  <2>1. CASE f = e
    <3>1. PutUsers(f)' = PutUsers(f) \cup {t}
      BY <1>4, <1>7, <2>1
    <3>2. Cardinality(PutUsers(f) \cup {t}) = Cardinality(PutUsers(f)) + 1
      BY <1>2, <1>4, <1>7, <2>1
    <3> QED BY <2>1, <3>1, <3>2
  <2>2. CASE f # e
    <3>1. PutUsers(f)' = PutUsers(f)
      BY <1>4, <1>7, <2>2
    <3>2. Cardinality(PutUsers(f))' = Cardinality(PutUsers(f))
      BY <3>1
    <3> QED BY <1>1, <2>2, <3>2
  <2> QED BY <2>1, <2>2
<1>8. ASSUME PutLoses(t, e) PROVE Cardinality(PutUsers(f))' = Cardinality(PutUsers(f)) - (IF f = e THEN 1 ELSE 0)
  <2>1. CASE f = e
    <3>1. PutUsers(f)' = PutUsers(f) \ {t}
      BY <1>5, <1>8, <2>1
    <3>2. Cardinality(PutUsers(f) \ {t}) = Cardinality(PutUsers(f)) - 1
      BY <1>2, <1>5, <1>8, <2>1
    <3> QED BY <2>1, <3>1, <3>2
  <2>2. CASE f # e
    <3>1. PutUsers(f)' = PutUsers(f)
      BY <1>5, <1>8, <2>2
    <3>2. Cardinality(PutUsers(f))' = Cardinality(PutUsers(f))
      BY <3>1
    <3> QED BY <1>1, <2>2, <3>2
  <2> QED BY <2>1, <2>2
<1> QED BY <1>6, <1>7, <1>8

\* and of the open files.
LEMMA FdCount ==
  ASSUME NEW t, NEW e, NEW f \in Slots
  PROVE  /\ FdSame => Cardinality(FdUsers(f))' = Cardinality(FdUsers(f))
         /\ FdGains(t, e) => Cardinality(FdUsers(f))'
                                = Cardinality(FdUsers(f)) + (IF f = e THEN 1 ELSE 0)
         /\ FdLoses(t, e) => Cardinality(FdUsers(f))'
                                = Cardinality(FdUsers(f)) - (IF f = e THEN 1 ELSE 0)
<1>1. IsFiniteSet(FdUsers(f)) /\ Cardinality(FdUsers(f)) \in Nat
  BY UsersFinite
<1>2. /\ t \notin FdUsers(f) => Cardinality(FdUsers(f) \cup {t}) = Cardinality(FdUsers(f)) + 1
      /\ t \in FdUsers(f) => Cardinality(FdUsers(f) \ {t}) = Cardinality(FdUsers(f)) - 1
  BY <1>1, CountChange
<1>3. FdSame => FdUsers(f)' = FdUsers(f)
  BY DEF FdSame
<1>4. FdGains(t, e) => IF f = e THEN t \notin FdUsers(f) /\ FdUsers(f)' = FdUsers(f) \cup {t}
                                 ELSE FdUsers(f)' = FdUsers(f)
  BY DEF FdGains
<1>5. FdLoses(t, e) => IF f = e THEN t \in FdUsers(f) /\ FdUsers(f)' = FdUsers(f) \ {t}
                                 ELSE FdUsers(f)' = FdUsers(f)
  BY DEF FdLoses
<1>6. FdSame => Cardinality(FdUsers(f))' = Cardinality(FdUsers(f))
  BY <1>3
<1>7. ASSUME FdGains(t, e) PROVE Cardinality(FdUsers(f))' = Cardinality(FdUsers(f)) + (IF f = e THEN 1 ELSE 0)
  <2>1. CASE f = e
    <3>1. FdUsers(f)' = FdUsers(f) \cup {t}
      BY <1>4, <1>7, <2>1
    <3>2. Cardinality(FdUsers(f) \cup {t}) = Cardinality(FdUsers(f)) + 1
      BY <1>2, <1>4, <1>7, <2>1
    <3> QED BY <2>1, <3>1, <3>2
  <2>2. CASE f # e
    <3>1. FdUsers(f)' = FdUsers(f)
      BY <1>4, <1>7, <2>2
    <3>2. Cardinality(FdUsers(f))' = Cardinality(FdUsers(f))
      BY <3>1
    <3> QED BY <1>1, <2>2, <3>2
  <2> QED BY <2>1, <2>2
<1>8. ASSUME FdLoses(t, e) PROVE Cardinality(FdUsers(f))' = Cardinality(FdUsers(f)) - (IF f = e THEN 1 ELSE 0)
  <2>1. CASE f = e
    <3>1. FdUsers(f)' = FdUsers(f) \ {t}
      BY <1>5, <1>8, <2>1
    <3>2. Cardinality(FdUsers(f) \ {t}) = Cardinality(FdUsers(f)) - 1
      BY <1>2, <1>5, <1>8, <2>1
    <3> QED BY <2>1, <3>1, <3>2
  <2>2. CASE f # e
    <3>1. FdUsers(f)' = FdUsers(f)
      BY <1>5, <1>8, <2>2
    <3>2. Cardinality(FdUsers(f))' = Cardinality(FdUsers(f))
      BY <3>1
    <3> QED BY <1>1, <2>2, <3>2
  <2> QED BY <2>1, <2>2
<1> QED BY <1>6, <1>7, <1>8

\* Every step counts the references it makes and drops.
LEMMA RefStep ==
  ASSUME TypeInv, ThreadInv, RootInv, RefInv, NEW t \in Threads, Step(t), NoFsPanic'
  PROVE  RefInv'
<1> SUFFICES ASSUME NEW f \in Slots
             PROVE  ref'[f] = Cardinality(IpUsers(f))' + Cardinality(PutUsers(f))'
                              + Cardinality(FdUsers(f))'
  BY DEF RefInv
<1>0. /\ ref \in [Slots -> Nat]
      /\ ref[f] = Cardinality(IpUsers(f)) + Cardinality(PutUsers(f)) + Cardinality(FdUsers(f))
      /\ Cardinality(IpUsers(f)) \in Nat /\ Cardinality(PutUsers(f)) \in Nat
      /\ Cardinality(FdUsers(f)) \in Nat
  BY UsersFinite DEF TypeInv, RefInv
<1> USE <1>0
<1>1. CASE WorkStep(t)
  <2>1. ref' = ref /\ IpSame /\ PutSame /\ FdSame
    BY <1>1, WorkFrame
  <2>2. Cardinality(IpUsers(f))' = Cardinality(IpUsers(f))
    BY <2>1, IpCount
  <2>3. Cardinality(PutUsers(f))' = Cardinality(PutUsers(f))
    BY <2>1, PutCount
  <2>4. Cardinality(FdUsers(f))' = Cardinality(FdUsers(f))
    BY <2>1, FdCount
  <2> QED BY <2>1, <2>2, <2>3, <2>4
<1>2. ASSUME NEW e \in Slots, NEW i \in Inums, NEW n \in Names, NEW label \in IlockPCs,
             FindsEntry(t, e, i, label, n) \/ FindsFree(t, e, i, label, n)
      PROVE  ref'[f] = Cardinality(IpUsers(f))' + Cardinality(PutUsers(f))'
                       + Cardinality(FdUsers(f))'
  <2>1. ref' = [ref EXCEPT ![e] = @ + 1]
    BY <1>2 DEF FindsEntry, FindsFree, Finds, Got
  <2>2. IpGains(t, e) /\ PutSame /\ FdSame
    BY <1>2, FindFrame
  <2>3. Cardinality(IpUsers(f))' = Cardinality(IpUsers(f)) + (IF f = e THEN 1 ELSE 0)
    BY <2>2, IpCount
  <2>4. Cardinality(PutUsers(f))' = Cardinality(PutUsers(f))
    BY <2>2, PutCount
  <2>5. Cardinality(FdUsers(f))' = Cardinality(FdUsers(f))
    BY <2>2, FdCount
  <2> QED BY <2>1, <2>3, <2>4, <2>5
<1>3. CASE OpenFile(t)
  <2>1. IpLoses(t, ip[t]) /\ PutSame /\ FdGains(t, ip[t])
    BY <1>3, OpenFileFrame
  <2>2. ref' = ref
    BY <1>3 DEF OpenFile
  <2> DEFINE e == ip[t]
  <2> HIDE DEF e
  <2>3. IpLoses(t, e) /\ FdGains(t, e)
    BY <2>1 DEF e
  <2>4. Cardinality(IpUsers(f))' = Cardinality(IpUsers(f)) - (IF f = e THEN 1 ELSE 0)
    BY <2>1, <2>3, IpCount
  <2>5. Cardinality(PutUsers(f))' = Cardinality(PutUsers(f))
    BY <2>1, <2>3, PutCount
  <2>6. Cardinality(FdUsers(f))' = Cardinality(FdUsers(f)) + (IF f = e THEN 1 ELSE 0)
    BY <2>1, <2>3, FdCount
  <2> QED BY <2>2, <2>4, <2>5, <2>6
<1>4. CASE PutsIp(t)
  <2>1. IpLoses(t, ip[t]) /\ PutGains(t, ip[t]) /\ FdSame /\ ref' = ref
    BY <1>4, PutsIpFrame
  <2> DEFINE e == ip[t]
  <2> HIDE DEF e
  <2>2. IpLoses(t, e) /\ PutGains(t, e)
    BY <2>1 DEF e
  <2>3. Cardinality(IpUsers(f))' = Cardinality(IpUsers(f)) - (IF f = e THEN 1 ELSE 0)
    BY <2>1, <2>2, IpCount
  <2>4. Cardinality(PutUsers(f))' = Cardinality(PutUsers(f)) + (IF f = e THEN 1 ELSE 0)
    BY <2>1, <2>2, PutCount
  <2>5. Cardinality(FdUsers(f))' = Cardinality(FdUsers(f))
    BY <2>1, <2>2, FdCount
  <2> QED BY <2>1, <2>3, <2>4, <2>5
<1>5. CASE Close(t)
  <2>1. IpSame /\ PutGains(t, fd[t]) /\ FdLoses(t, fd[t])
    BY <1>5, CloseFrame
  <2>2. ref' = ref
    BY <1>5 DEF Close, cache
  <2> DEFINE e == fd[t]
  <2> HIDE DEF e
  <2>3. PutGains(t, e) /\ FdLoses(t, e)
    BY <2>1 DEF e
  <2>4. Cardinality(IpUsers(f))' = Cardinality(IpUsers(f))
    BY <2>1, <2>3, IpCount
  <2>5. Cardinality(PutUsers(f))' = Cardinality(PutUsers(f)) + (IF f = e THEN 1 ELSE 0)
    BY <2>1, <2>3, PutCount
  <2>6. Cardinality(FdUsers(f))' = Cardinality(FdUsers(f)) - (IF f = e THEN 1 ELSE 0)
    BY <2>1, <2>3, FdCount
  <2> QED BY <2>2, <2>4, <2>5, <2>6
<1>6. CASE IputDrop(t)
  <2>1. IpSame /\ PutLoses(t, put[t]) /\ FdSame
    BY <1>6, IputDropFrame
  <2>2. ref' = [ref EXCEPT ![put[t]] = @ - 1]
    BY <1>6 DEF IputDrop
  <2> DEFINE e == put[t]
  <2> HIDE DEF e
  <2>3. PutLoses(t, e) /\ ref' = [ref EXCEPT ![e] = @ - 1]
    BY <2>1, <2>2 DEF e
  <2>4. Cardinality(IpUsers(f))' = Cardinality(IpUsers(f))
    BY <2>1, <2>3, IpCount
  <2>5. Cardinality(PutUsers(f))' = Cardinality(PutUsers(f)) - (IF f = e THEN 1 ELSE 0)
    BY <2>1, <2>3, PutCount
  <2>6. Cardinality(FdUsers(f))' = Cardinality(FdUsers(f))
    BY <2>1, <2>3, FdCount
  <2> QED BY <2>3, <2>4, <2>5, <2>6
<1>7. ASSUME NEW e \in Slots, DirlinkFinds(t, e)
      PROVE  ref'[f] = Cardinality(IpUsers(f))' + Cardinality(PutUsers(f))'
                       + Cardinality(FdUsers(f))'
  <2>1. ref' = [ref EXCEPT ![e] = @ + 1]
    BY <1>7 DEF DirlinkFinds, Got
  <2>2. IpSame /\ PutGains(t, e) /\ FdSame
    BY <1>7, DirlinkFindsFrame
  <2>3. Cardinality(IpUsers(f))' = Cardinality(IpUsers(f))
    BY <2>2, IpCount
  <2>4. Cardinality(PutUsers(f))' = Cardinality(PutUsers(f)) + (IF f = e THEN 1 ELSE 0)
    BY <2>2, PutCount
  <2>5. Cardinality(FdUsers(f))' = Cardinality(FdUsers(f))
    BY <2>2, FdCount
  <2> QED BY <2>1, <2>3, <2>4, <2>5
<1> QED BY StepCases, <1>1, <1>2, <1>3, <1>4, <1>5, <1>6, <1>7

-----------------------------------------------------------------------------
(* Entries *)

\* Only iget() gives an entry to an inode, and only a free entry.
LEMMA EntryStep ==
  ASSUME TypeInv, ThreadInv, RootInv, RefInv, EntryInv, NEW t \in Threads, Step(t), NoFsPanic'
  PROVE  /\ EntryInv'
         /\ \A f \in Slots : ref[f] > 0 => inum'[f] = inum[f]
<1> DEFINE Goal == EntryInv' /\ \A f \in Slots : ref[f] > 0 => inum'[f] = inum[f]
<1>0. ref \in [Slots -> Nat] /\ inum \in [Slots -> Inums \cup {None}]
  BY DEF TypeInv
<1> USE <1>0
<1>1. ASSUME UNCHANGED <<inum, ref>> PROVE Goal
  BY <1>1 DEF EntryInv
<1>2. ASSUME NEW e \in Slots, NEW i \in Inums, Got(e, i) PROVE Goal
  BY <1>2 DEF EntryInv, Got, Cached
<1>3. CASE IputDrop(t)
  <2>1. inum' = inum /\ ref' = [ref EXCEPT ![put[t]] = @ - 1]
    BY <1>3 DEF IputDrop
  <2> QED BY <2>1 DEF EntryInv
<1>4. CASE WorkStep(t)
  BY <1>1, <1>4, WorkFrame
<1>5. CASE OpenFile(t) \/ Close(t)
  BY <1>1, <1>5 DEF OpenFile, Close, cache
<1>6. CASE PutsIp(t)
  BY <1>1, <1>6, PutsIpFrame
<1>7. ASSUME NEW e \in Slots, NEW i \in Inums, NEW n \in Names, NEW label \in IlockPCs,
             FindsEntry(t, e, i, label, n) \/ FindsFree(t, e, i, label, n)
      PROVE  Goal
  BY <1>2, <1>7 DEF FindsEntry, FindsFree, Finds
<1>8. ASSUME NEW e \in Slots, DirlinkFinds(t, e) PROVE Goal
  <2>1. Got(e, dir[name[t]]) /\ dir[name[t]] \in Inums
    BY <1>8 DEF DirlinkFinds, Got
  <2> QED BY <1>2, <2>1
<1> QED BY StepCases, <1>3, <1>4, <1>5, <1>6, <1>7, <1>8

-----------------------------------------------------------------------------
(* The local variables, the locks and the root *)

\* A link count that is 0 has neither an entry nor a call half way.
LEMMA LinkCounts ==
  ASSUME TypeInv, LinkInv, NEW i \in Inums
  PROVE  /\ IsFiniteSet(Entries(i)) /\ IsFiniteSet(Uncounted(i))
         /\ (\E n \in Names : dir[n] = i) => dinode[i].nlink > 0
         /\ Uncounted(i) # {} => dinode[i].nlink > 0
         /\ dinode[i].nlink \in Nat
<1>1. IsFiniteSet(Entries(i)) /\ IsFiniteSet(Uncounted(i))
  <2>1. Entries(i) \subseteq Names /\ Uncounted(i) \subseteq Threads
    BY DEF Entries, Uncounted
  <2> QED BY <2>1, InodeAssumption, FS_Subset
<1>2. Cardinality(Entries(i)) \in Nat /\ Cardinality(Uncounted(i)) \in Nat
  BY <1>1, FS_CardinalityType
<1>3. dinode[i].nlink = Cardinality(Entries(i)) + Cardinality(Uncounted(i))
  BY DEF LinkInv
<1>4. (\E n \in Names : dir[n] = i) => Cardinality(Entries(i)) >= 1
  <2> SUFFICES ASSUME NEW n \in Names, dir[n] = i PROVE Cardinality(Entries(i)) >= 1
    OBVIOUS
  <2>1. n \in Entries(i)
    BY DEF Entries
  <2> QED BY <1>1, <2>1, Elements
<1>5. Uncounted(i) # {} => Cardinality(Uncounted(i)) >= 1
  BY <1>1, Elements
<1> QED BY <1>1, <1>2, <1>3, <1>4, <1>5

\* The holder of the lock of a valid entry sees what is on disk, except where it
\* is updating.
LEMMA CopyOf ==
  ASSUME TypeInv, ThreadInv, RootInv, LockInv, RefInv, ValidInv, EntryInv, CopyInv,
         NEW t \in Threads
  PROVE  /\ pc[t] \in IpLocked =>
               /\ ip[t] \in Slots \cap valid /\ inum[ip[t]] \in Inums
               /\ inode[ip[t]].type = "file" /\ dinode[inum[ip[t]]].type = "file"
               /\ inode[ip[t]].nlink = dinode[inum[ip[t]]].nlink
               /\ pc[t] # "write_update" => inode[ip[t]].addr = dinode[inum[ip[t]]].addr
         /\ pc[t] \in FreePCs =>
               /\ put[t] \in Slots \cap valid /\ inum[put[t]] \in Inums
               /\ inode[put[t]].type = "file" /\ dinode[inum[put[t]]].type = "file"
               /\ inode[put[t]].nlink = dinode[inum[put[t]]].nlink
               /\ pc[t] # "itrunc_update" => inode[put[t]].addr = dinode[inum[put[t]]].addr
<1>1. ASSUME pc[t] \in IpLocked
      PROVE  /\ ip[t] \in Slots \cap valid /\ ref[ip[t]] > 0
             /\ pc[t] # "write_update" => Updating(ip[t]) = {}
  <2>1. ip[t] \in Slots \cap valid /\ ref[ip[t]] > 0 /\ locked[ip[t]] = t
    BY <1>1, LockedValid DEF LockInv
  <2>2. \A u \in Updating(ip[t]) : u = t
    BY <2>1, UpdatingLocked
  <2>3. pc[t] # "write_update" => t \notin Updating(ip[t])
    BY <1>1 DEF Updating, IpLocked
  <2> QED BY <2>1, <2>2, <2>3
<1>2. ASSUME pc[t] \in FreePCs
      PROVE  /\ put[t] \in Slots \cap valid /\ ref[put[t]] > 0
             /\ pc[t] # "itrunc_update" => Updating(put[t]) = {}
  <2>1. put[t] \in Slots \cap valid /\ ref[put[t]] > 0 /\ locked[put[t]] = t
    BY <1>2, LockedValid DEF LockInv, PutLocked
  <2>2. \A u \in Updating(put[t]) : u = t
    BY <2>1, UpdatingLocked
  <2>3. pc[t] # "itrunc_update" => t \notin Updating(put[t])
    BY <1>2 DEF Updating, FreePCs
  <2> QED BY <2>1, <2>2, <2>3
<1> QED BY <1>1, <1>2 DEF CopyInv, EntryInv

\* No step leaves the types; a link count neither falls below 0 nor passes MaxLink.
LEMMA TypeStep ==
  ASSUME IInv, NEW t \in Threads, Step(t), NoFsPanic'
  PROVE  TypeInv'
<1> DEFINE Copy == [type : {"none", "file"}, nlink : 0..MaxLink, addr : Blocks \cup {None}]
           Calls == /\ pc' \in [Threads -> PCs] /\ ip' \in [Threads -> Slots \cup {NoSlot}]
                    /\ put' \in [Threads -> Slots \cup {NoSlot}]
                    /\ name' \in [Threads -> Names \cup {None}]
                    /\ fd' \in [Threads -> Slots \cup {NoSlot}]
                    /\ root' \in Threads \cup {None}
           Table == /\ inum' \in [Slots -> Inums \cup {None}] /\ ref' \in [Slots -> Nat]
                    /\ valid' \subseteq Slots /\ inode' \in [Slots -> Copy]
                    /\ locked' \in [Slots -> Threads \cup {None}]
           Disk == /\ dinode' \in [Inums -> Copy] /\ bitmap' \subseteq Blocks
                   /\ dir' \in [Names -> Inums \cup {None}] /\ leaked' \subseteq Inums
<1>0. /\ pc \in [Threads -> PCs] /\ ip \in [Threads -> Slots \cup {NoSlot}]
      /\ put \in [Threads -> Slots \cup {NoSlot}]
      /\ name \in [Threads -> Names \cup {None}]
      /\ fd \in [Threads -> Slots \cup {NoSlot}] /\ root \in Threads \cup {None}
      /\ inum \in [Slots -> Inums \cup {None}] /\ ref \in [Slots -> Nat] /\ valid \subseteq Slots
      /\ inode \in [Slots -> Copy] /\ locked \in [Slots -> Threads \cup {None}]
      /\ dinode \in [Inums -> Copy] /\ bitmap \subseteq Blocks
      /\ dir \in [Names -> Inums \cup {None}] /\ leaked \subseteq Inums
      /\ MaxLink \in Nat \ {0}
  BY InodeAssumption DEF IInv, TypeInv
<1> USE <1>0 DEF Goto, Unlock, PutIp
<1>1. \A c \in Copy : /\ [c EXCEPT !.addr = None] \in Copy
                      /\ \A b \in Blocks : [c EXCEPT !.addr = b] \in Copy
                      /\ [c EXCEPT !.type = "none"] \in Copy
                      /\ [c EXCEPT !.nlink = 1] \in Copy
                      /\ c.nlink < MaxLink => [c EXCEPT !.nlink = @ + 1] \in Copy
                      /\ c.nlink > 0 => [c EXCEPT !.nlink = @ - 1] \in Copy
  OBVIOUS
<1> HIDE DEF Copy
<1>2. \A e, new : Update(e, new) /\ new \in Copy =>
                     dinode' \in [Inums -> Copy] /\ inode' \in [Slots -> Copy]
  BY DEF Update
<1>3. ASSUME IlockStep(t) PROVE Calls /\ Table /\ Disk
  <2>1. PICK from \in PCs, to \in PCs : IlockOf(from, to) /\ Ilock(t, from, to)
    BY <1>3 DEF IlockStep
  <2>2. inum[ip[t]] \in Inums /\ ip[t] \in Slots
    <3>1. HasIp(t) \/ pc[t] \in WritePCs
      BY <2>1 DEF IlockOf, Ilock, HasIp, IpPCs, CreatePCs, UnlinkPCs, LinkPCs, WritePCs
    <3> QED BY <3>1, Referenced DEF IInv, EntryInv
  <2> QED BY <2>1, <2>2 DEF Ilock, PCs
<1>4. ASSUME IputLock(t) PROVE Calls /\ Table /\ Disk
  <2>1. inum[put[t]] \in Inums /\ put[t] \in Slots
    <3>1. HasPut(t)
      BY <1>4 DEF IputLock, HasPut, PutPCs
    <3> QED BY <3>1, Referenced DEF IInv, EntryInv
  <2> QED BY <1>4, <2>1 DEF IputLock, PCs, PutPCs
<1>5. ASSUME Itrunc(t) PROVE Calls /\ Table /\ Disk
  <2>1. [inode EXCEPT ![put[t]].addr = None] \in [Slots -> Copy]
    BY <1>1
  <2> QED BY <1>5, <2>1 DEF Itrunc, PCs, PutPCs
<1>6. ASSUME ItruncUpdate(t) PROVE Calls /\ Table /\ Disk
  <2>1. inode[put[t]] \in Copy
    BY <1>6, CopyOf DEF IInv, ItruncUpdate, FreePCs
  <2> QED BY <1>2, <1>6, <2>1 DEF ItruncUpdate, PCs, PutPCs
<1>7. ASSUME Ifree(t) PROVE Calls /\ Table /\ Disk
  <2>1. inode[put[t]] \in Copy
    BY <1>7, CopyOf DEF IInv, Ifree, FreePCs
  <2> QED BY <1>1, <1>2, <1>7, <2>1 DEF Ifree, PCs, PutPCs
<1>8. ASSUME IputRelease(t) PROVE Calls /\ Table /\ Disk
  BY <1>8 DEF IputRelease, PCs, PutPCs
<1>9. ASSUME CreateEntry(t) PROVE Calls /\ Table /\ Disk
  <2>1. inode[ip[t]] \in Copy
    BY <1>9, CopyOf DEF IInv, CreateEntry, IpLocked
  <2> QED BY <1>1, <1>2, <1>9, <2>1, CopyOf DEF IInv, CreateEntry, PCs, IpLocked
<1>10. ASSUME WriteCall(t) PROVE Calls /\ Table /\ Disk
  BY <1>10 DEF WriteCall, cache, PCs
<1>11. ASSUME WriteUpdate(t) PROVE Calls /\ Table /\ Disk
  <2>1. inode[ip[t]] \in Copy
    BY <1>11, CopyOf DEF IInv, WriteUpdate, IpLocked
  <2> QED BY <1>2, <1>11, <2>1 DEF WriteUpdate, PCs
<1>12. ASSUME UnlinkEntry(t) PROVE Calls /\ Table /\ Disk
  BY <1>12 DEF UnlinkEntry, cache, PCs
<1>13. ASSUME AddLink(t) PROVE Calls /\ Table /\ Disk
  <2>1. inode[ip[t]] \in Copy
    BY <1>13, CopyOf DEF IInv, AddLink, IpLocked
  <2> QED BY <1>1, <1>2, <1>13, <2>1 DEF AddLink, PCs
<1>14. ASSUME NEW b \in Blocks, Balloc(t, b) PROVE Calls /\ Table /\ Disk
  <2>1. [inode EXCEPT ![ip[t]].addr = b] \in [Slots -> Copy]
    BY <1>1
  <2> QED BY <1>14, <2>1 DEF Balloc, PCs
<1>15. ASSUME NEW e \in Slots, NEW i \in Inums, NEW n \in Names, NEW label \in IlockPCs,
              FindsEntry(t, e, i, label, n) \/ FindsFree(t, e, i, label, n)
       PROVE  Calls /\ Table /\ Disk
  <2>1. /\ Finds(t, e, i, label) /\ label \in PCs
        /\ root' \in Threads \cup {None} /\ name' \in [Threads -> Names \cup {None}]
    BY <1>15, FindFrame DEF FindsEntry, FindsFree, IlockPCs, PCs, IInv
  <2>2. [type |-> "file", nlink |-> 0, addr |-> None] \in Copy
    BY DEF Copy
  <2>3. dinode' \in [Inums -> Copy]
    BY <1>15, <2>2 DEF FindsEntry, FindsFree
  <2> QED BY <2>1, <2>3 DEF Finds, Got
<1>16. ASSUME OpenFile(t) PROVE Calls /\ Table /\ Disk
  BY <1>16 DEF OpenFile, PCs
<1>17. ASSUME OpenFails(t) PROVE Calls /\ Table /\ Disk
  BY <1>17 DEF OpenFails, PCs, PutPCs
<1>18. ASSUME DropLink(t) PROVE Calls /\ Table /\ Disk
  <2>1. ip[t] \in Slots /\ inum[ip[t]] \in Inums /\ inode[ip[t]].nlink = dinode[inum[ip[t]]].nlink
    BY <1>18, CopyOf DEF IInv, DropLink, IpLocked
  <2>2. t \in Uncounted(inum[ip[t]])
    BY <1>18, <2>1 DEF DropLink, Uncounted, Slots, NoSlot
  <2>3. inode[ip[t]].nlink > 0 /\ inode[ip[t]] \in Copy
    BY <2>1, <2>2, LinkCounts DEF IInv
  <2>4. [inode[ip[t]] EXCEPT !.nlink = @ - 1] \in Copy
    BY <1>1, <2>3
  <2> QED BY <1>2, <1>18, <2>4 DEF DropLink, PCs, PutPCs
<1>19. ASSUME DirlinkMakes(t) PROVE Calls /\ Table /\ Disk
  <2>1. inum[ip[t]] \in Inums
    <3>1. HasIp(t)
      BY <1>19 DEF DirlinkMakes, Dirlink, HasIp, IpPCs, LinkPCs
    <3> QED BY <3>1, Referenced DEF IInv, EntryInv
  <2> QED BY <1>19, <2>1 DEF DirlinkMakes, Dirlink, PCs, PutPCs
<1>20. ASSUME NEW e \in Slots, DirlinkFinds(t, e) PROVE Calls /\ Table /\ Disk
  BY <1>20 DEF DirlinkFinds, Got, PCs, PutPCs
<1>21. ASSUME Close(t) PROVE Calls /\ Table /\ Disk
  BY <1>21 DEF Close, cache, PCs, PutPCs
<1>22. ASSUME IputDrop(t) PROVE Calls /\ Table /\ Disk
  <2>1. put[t] \in Slots /\ ref[put[t]] > 0
    BY <1>22, Referenced DEF IInv, IputDrop, HasPut, PutPCs
  <2> QED BY <1>22, <2>1 DEF IputDrop, PCs
<1>23. Calls /\ Table /\ Disk
  BY StepCases, <1>3, <1>4, <1>5, <1>6, <1>7, <1>8, <1>9, <1>10, <1>11, <1>12, <1>13, <1>14,
     <1>15, <1>16, <1>17, <1>18, <1>19, <1>20, <1>21, <1>22
     DEF IInv, WorkStep, PutsIp
<1> QED BY <1>23 DEF TypeInv, Copy

\* No step changes another thread's local variables.
LEMMA StepOthers ==
  ASSUME TypeInv, ThreadInv, RootInv, NEW t \in Threads, Step(t), NoFsPanic'
  PROVE  Others(t)
<1>1. ASSUME NEW e \in Slots, NEW i \in Inums, NEW n \in Names, NEW label \in IlockPCs,
             FindsEntry(t, e, i, label, n) \/ FindsFree(t, e, i, label, n)
      PROVE  Others(t)
  BY <1>1, FindFrame
<1>2. ASSUME NEW e \in Slots, DirlinkFinds(t, e) PROVE Others(t)
  BY <1>2, DirlinkFindsFrame
<1> QED BY StepCases, WorkFrame, OpenFileFrame, PutsIpFrame, CloseFrame, IputDropFrame, <1>1, <1>2

\* Every call sets the variables it goes on with.
LEMMA ThreadStep ==
  ASSUME IInv, NEW t \in Threads, Step(t), NoFsPanic'
  PROVE  ThreadInv'
<1> DEFINE Set(u) == /\ HasIp(u) => ip[u] # NoSlot
                     /\ HasPut(u) => put[u] # NoSlot
                     /\ pc[u] \in WritePCs => ip[u] # NoSlot /\ ip[u] = fd[u]
                     /\ pc[u] \in {"open_ilock", "open"} \cup CreatePCs => fd[u] = NoSlot
                     /\ pc[u] \in LinkPCs => name[u] \in Names
<1>0. /\ pc \in [Threads -> PCs] /\ ip \in [Threads -> Slots \cup {NoSlot}]
      /\ put \in [Threads -> Slots \cup {NoSlot}] /\ fd \in [Threads -> Slots \cup {NoSlot}]
      /\ \A e \in Slots : e # NoSlot
  BY InodeAssumption DEF IInv, TypeInv, Slots, NoSlot
<1> USE <1>0
<1>1. Others(t)
  BY StepOthers DEF IInv
<1>2. ASSUME NEW u \in Threads \ {t} PROVE Set(u)'
  <2>1. Set(u)
    BY DEF IInv, ThreadInv
  <2> QED BY <1>1, <2>1 DEF Others, HasIp, HasPut
<1>3. Set(t)
  BY DEF IInv, ThreadInv
<1>4. ASSUME WorkStep(t) PROVE Set(t)'
  <2>1. UNCHANGED <<put, name, fd>>
    BY <1>4, WorkFrame DEF IInv
  <2> USE DEF HasIp, HasPut, IpPCs, PutPCs, CreatePCs, UnlinkPCs, LinkPCs, WritePCs, Goto
  <2>2. ASSUME IlockStep(t) PROVE Set(t)'
    <3>1. PICK from \in PCs, to \in PCs : IlockOf(from, to) /\ Ilock(t, from, to)
      BY <2>2 DEF IlockStep
    <3>2. pc[t] = from /\ pc'[t] = to /\ UNCHANGED <<ip, root>>
      <4>1. pc'[t] # "panic"
        BY DEF NoFsPanic
      <4> QED BY <3>1, <4>1 DEF Ilock
    <3> QED BY <1>3, <2>1, <3>1, <3>2 DEF IlockOf
  <2>3. ASSUME IputLock(t) \/ Itrunc(t) \/ ItruncUpdate(t) \/ Ifree(t) \/ IputRelease(t)
        PROVE  Set(t)'
    <3>1. pc[t] \in PutPCs /\ pc'[t] \in PutPCs /\ UNCHANGED <<ip, root>>
      <4>1. pc'[t] # "panic"
        BY DEF NoFsPanic
      <4> QED BY <2>3, <4>1 DEF IputLock, Itrunc, ItruncUpdate, Ifree, IputRelease
    <3> QED BY <1>3, <2>1, <3>1
  <2>4. ASSUME CreateEntry(t) PROVE Set(t)'
    BY <1>3, <2>1, <2>4 DEF CreateEntry
  <2>5. ASSUME WriteCall(t) PROVE Set(t)'
    BY <1>3, <2>1, <2>5 DEF WriteCall
  <2>6. ASSUME WriteUpdate(t) PROVE Set(t)'
    BY <1>3, <2>1, <2>6 DEF WriteUpdate
  <2>7. ASSUME UnlinkEntry(t) PROVE Set(t)'
    <3>1. pc[t] = "unlink" /\ pc'[t] = "unlinked" /\ ip' = ip
      <4>1. pc'[t] # "panic"
        BY DEF NoFsPanic
      <4> QED BY <2>7, <4>1 DEF UnlinkEntry
    <3> QED BY <1>3, <2>1, <3>1
  <2>8. ASSUME AddLink(t) PROVE Set(t)'
    BY <1>3, <2>1, <2>8 DEF AddLink
  <2>9. ASSUME NEW b \in Blocks, Balloc(t, b) PROVE Set(t)'
    BY <1>3, <2>1, <2>9 DEF Balloc
  <2> HIDE DEF Set
  <2> QED BY <1>4, <2>2, <2>3, <2>4, <2>5, <2>6, <2>7, <2>8, <2>9 DEF WorkStep
<1>5. ASSUME NEW e \in Slots, NEW i \in Inums, NEW n \in Names, NEW label \in IlockPCs,
             FindsEntry(t, e, i, label, n) \/ FindsFree(t, e, i, label, n)
      PROVE  Set(t)'
  <2>1. /\ Finds(t, e, i, label)
        /\ label \in {"open_ilock", "create_ilock"} => fd[t] = NoSlot
        /\ label \in LinkPCs => name'[t] \in Names
    BY <1>5, FindFrame DEF IInv, FindsEntry, FindsFree
  <2>2. pc'[t] = label /\ ip'[t] = e /\ fd' = fd
    BY <2>1 DEF Finds
  <2> QED BY <2>1, <2>2
          DEF HasIp, HasPut, IpPCs, PutPCs, CreatePCs, UnlinkPCs, LinkPCs, WritePCs, IlockPCs
<1>6. ASSUME OpenFile(t) PROVE Set(t)'
  BY <1>6 DEF OpenFile, Goto, HasIp, HasPut, IpPCs, PutPCs, CreatePCs, UnlinkPCs, LinkPCs, WritePCs
<1>7. ASSUME PutsIp(t) PROVE Set(t)'
  <2>1. root' # t /\ pc'[t] = "iput" /\ put'[t] = ip[t] /\ ip[t] \in Slots
    BY <1>7, PutsIpFrame DEF IInv
  <2> QED BY <2>1 DEF HasIp, HasPut, IpPCs, PutPCs, CreatePCs, UnlinkPCs, LinkPCs, WritePCs
<1>8. ASSUME Close(t) PROVE Set(t)'
  <2>1. root' # t /\ pc'[t] = "iput" /\ put'[t] = fd[t] /\ fd[t] \in Slots
    BY <1>8, CloseFrame DEF IInv, Close, Goto
  <2> QED BY <2>1 DEF HasIp, HasPut, IpPCs, PutPCs, CreatePCs, UnlinkPCs, LinkPCs, WritePCs
<1>9. ASSUME IputDrop(t) PROVE Set(t)'
  <2>1. \/ pc'[t] = "idle"
        \/ pc'[t] = "unlink_bad" /\ ip' = ip /\ root = t
    BY <1>9 DEF IputDrop, Goto
  <2>2. pc[t] = "idrop"
    BY <1>9 DEF IputDrop
  <2> QED BY <1>3, <2>1, <2>2
          DEF HasIp, HasPut, IpPCs, PutPCs, CreatePCs, UnlinkPCs, LinkPCs, WritePCs
<1>10. ASSUME NEW e \in Slots, DirlinkFinds(t, e) PROVE Set(t)'
  <2>1. /\ pc[t] = "dirlink" /\ pc'[t] = "iput" /\ put'[t] = e /\ ip' = ip
    BY <1>10 DEF DirlinkFinds
  <2> QED BY <1>3, <2>1
          DEF HasIp, HasPut, IpPCs, PutPCs, CreatePCs, UnlinkPCs, LinkPCs, WritePCs
<1> HIDE DEF Set
<1>11. Set(t)'
  BY StepCases, <1>4, <1>5, <1>6, <1>7, <1>8, <1>9, <1>10 DEF IInv
<1>12. \A u \in Threads : Set(u)'
  BY <1>2, <1>11
<1> QED BY <1>12 DEF ThreadInv, NoFsPanic, Set

\* Where thread u holds the sleep lock of entry e.
Holds(u, e) == \/ pc[u] \in IpLocked /\ ip[u] = e
               \/ pc[u] \in PutLocked /\ put[u] = e

\* A step that keeps, takes or drops the lock of an entry.
LEMMA LockKept ==
  ASSUME LockInv, NEW t \in Threads, Others(t), locked' = locked,
         \A e \in Slots : Holds(t, e)' <=> Holds(t, e)
  PROVE  LockInv'
<1> SUFFICES ASSUME NEW u \in Threads, NEW e \in Slots PROVE (locked[e] = u <=> Holds(u, e))'
  BY DEF LockInv, Holds
<1>1. u # t => (Holds(u, e)' <=> Holds(u, e))
  BY DEF Others, Holds
<1>2. locked[e] = u <=> Holds(u, e)
  BY DEF LockInv, Holds
<1> QED BY <1>1, <1>2

\* A step of t that takes a sleep lock, as the code says it does,
LEMMA LockTaken ==
  ASSUME TypeInv, LockInv, NEW t \in Threads, Others(t), NEW d \in Slots, locked[d] = None,
         locked' = [locked EXCEPT ![d] = t], \A e \in Slots : Holds(t, e)' <=> e = d,
         \A e \in Slots : ~Holds(t, e)
  PROVE  LockInv'
<1> SUFFICES ASSUME NEW u \in Threads, NEW e \in Slots PROVE (locked[e] = u <=> Holds(u, e))'
  BY DEF LockInv, Holds
<1>1. u # t => (Holds(u, e)' <=> Holds(u, e))
  BY DEF Others, Holds
<1>2. locked[e] = u <=> Holds(u, e)
  BY DEF LockInv, Holds
<1>3. locked'[e] = IF e = d THEN t ELSE locked[e]
  BY DEF TypeInv
<1>4. u # None
  BY InodeAssumption
<1> QED BY <1>1, <1>2, <1>3, <1>4

\* and one that gives it back.
LEMMA LockDropped ==
  ASSUME TypeInv, LockInv, NEW t \in Threads, Others(t), NEW d \in Slots, Holds(t, d),
         locked' = [locked EXCEPT ![d] = None], \A e \in Slots : ~Holds(t, e)'
  PROVE  LockInv'
<1> SUFFICES ASSUME NEW u \in Threads, NEW e \in Slots PROVE (locked[e] = u <=> Holds(u, e))'
  BY DEF LockInv, Holds
<1>1. u # t => (Holds(u, e)' <=> Holds(u, e))
  BY DEF Others, Holds
<1>2. (locked[e] = u <=> Holds(u, e)) /\ locked[d] = t
  BY DEF LockInv, Holds
<1>3. (locked[e] = t <=> Holds(t, e))
  BY DEF LockInv, Holds
<1>4. locked'[e] = IF e = d THEN None ELSE locked[e]
  BY DEF TypeInv
<1>5. u # None
  BY InodeAssumption
<1>6. e # d => ~Holds(t, e)
  BY <1>2, <1>3 DEF Holds, IpLocked, PutLocked, FreePCs
<1> QED BY <1>1, <1>2, <1>3, <1>4, <1>5, <1>6

\* Sleep locks are taken and dropped where the code says so.
LEMMA LockStep ==
  ASSUME IInv, NEW t \in Threads, Step(t), NoFsPanic'
  PROVE  LockInv'
<1>0. /\ pc \in [Threads -> PCs] /\ ip \in [Threads -> Slots \cup {NoSlot}]
      /\ put \in [Threads -> Slots \cup {NoSlot}] /\ pc'[t] # "panic"
      /\ TypeInv /\ LockInv
  BY DEF IInv, TypeInv, NoFsPanic
<1>1. Others(t)
  BY StepOthers DEF IInv
<1> USE <1>0, <1>1 DEF Holds, IpLocked, PutLocked, FreePCs, Goto, Unlock
<1>2. ASSUME IlockStep(t) PROVE LockInv'
  <2>1. PICK from \in PCs, to \in PCs : IlockOf(from, to) /\ Ilock(t, from, to)
    BY <1>2 DEF IlockStep
  <2>2. pc[t] = from /\ pc'[t] = to /\ ip'[t] = ip[t]
        /\ locked[ip[t]] = None /\ locked' = [locked EXCEPT ![ip[t]] = t]
    BY <2>1 DEF Ilock
  <2>3. ip[t] \in Slots
    <3>1. HasIp(t) \/ pc[t] \in WritePCs
      BY <2>1, <2>2 DEF IlockOf, HasIp, IpPCs, CreatePCs, UnlinkPCs, LinkPCs, WritePCs
    <3> QED BY <3>1, Referenced DEF IInv
  <2>4. \A e \in Slots : (Holds(t, e)' <=> e = ip[t]) /\ ~Holds(t, e)
    BY <2>1, <2>2 DEF IlockOf
  <2> DEFINE d == ip[t]
  <2> HIDE DEF Holds, d
  <2> QED BY <2>2, <2>3, <2>4, LockTaken DEF d
<1>3. ASSUME IputLock(t) PROVE LockInv'
  <2>1. /\ pc[t] = "iput" /\ pc'[t] \in PutLocked /\ put'[t] = put[t]
        /\ locked[put[t]] = None /\ locked' = [locked EXCEPT ![put[t]] = t]
    BY <1>3 DEF IputLock
  <2>2. put[t] \in Slots
    <3>1. HasPut(t)
      BY <2>1 DEF HasPut, PutPCs
    <3> QED BY <3>1, Referenced DEF IInv
  <2>3. \A e \in Slots : (Holds(t, e)' <=> e = put[t]) /\ ~Holds(t, e)
    BY <2>1
  <2> HIDE DEF Holds
  <2> QED BY <2>1, <2>2, <2>3, LockTaken
<1>4. ASSUME Itrunc(t) \/ ItruncUpdate(t) \/ Ifree(t) PROVE LockInv'
  <2>1. /\ pc[t] \in PutLocked /\ pc'[t] \in PutLocked /\ put'[t] = put[t] /\ locked' = locked
    BY <1>4 DEF Itrunc, ItruncUpdate, Ifree
  <2>2. \A e \in Slots : Holds(t, e)' <=> Holds(t, e)
    BY <2>1
  <2> QED BY <2>1, <2>2, LockKept
<1>5. ASSUME IputRelease(t) PROVE LockInv'
  <2>1. pc[t] = "irelease" /\ pc'[t] = "idrop" /\ locked' = [locked EXCEPT ![put[t]] = None]
    BY <1>5 DEF IputRelease
  <2>2. put[t] \in Slots
    <3>1. HasPut(t)
      BY <2>1 DEF HasPut, PutPCs
    <3> QED BY <3>1, Referenced DEF IInv
  <2>3. Holds(t, put[t]) /\ \A e \in Slots : ~Holds(t, e)'
    BY <2>1
  <2> HIDE DEF Holds
  <2> QED BY <2>1, <2>2, <2>3, LockDropped
<1>6. ASSUME CreateEntry(t) \/ UnlinkEntry(t) \/ \E b \in Blocks : Balloc(t, b) PROVE LockInv'
  <2>1. /\ pc[t] \in {"create", "unlink", "write"} /\ pc'[t] \in {"open", "unlinked", "write_update"}
        /\ ip'[t] = ip[t] /\ locked' = locked
    BY <1>6 DEF CreateEntry, UnlinkEntry, Balloc, cache
  <2>2. \A e \in Slots : Holds(t, e)' <=> Holds(t, e)
    BY <2>1
  <2> QED BY <2>1, <2>2, LockKept
<1>7. ASSUME WriteUpdate(t) \/ AddLink(t) \/ OpenFile(t) \/ OpenFails(t) \/ DropLink(t)
      PROVE  LockInv'
  <2>1. /\ pc[t] \in {"write", "write_update", "link", "open", "unlinked", "bad"}
        /\ pc'[t] \in {"idle", "dirlink", "iput"} /\ locked' = [locked EXCEPT ![ip[t]] = None]
    BY <1>7 DEF WriteUpdate, AddLink, OpenFile, OpenFails, DropLink, PutIp
  <2>2. ip[t] \in Slots
    BY <2>1, CopyOf DEF IInv
  <2>3. Holds(t, ip[t]) /\ \A e \in Slots : ~Holds(t, e)'
    BY <2>1
  <2> HIDE DEF Holds
  <2> QED BY <2>1, <2>2, <2>3, LockDropped
<1>8. ASSUME pc[t] \in {"idle", "dirlink", "idrop"},
             pc'[t] \in IlockPCs \cup {"write_ilock", "iput", "idle", "unlink_bad"},
             locked' = locked
      PROVE  LockInv'
  <2>1. \A e \in Slots : Holds(t, e)' <=> Holds(t, e)
    BY <1>8 DEF IlockPCs
  <2> QED BY <1>8, <2>1, LockKept
<1>9. ASSUME WriteCall(t) \/ Close(t) \/ DirlinkMakes(t) \/ IputDrop(t) PROVE LockInv'
  <2>1. /\ pc[t] \in {"idle", "dirlink", "idrop"}
        /\ pc'[t] \in {"write_ilock", "iput", "idle", "unlink_bad"} /\ locked' = locked
    BY <1>9 DEF WriteCall, Close, DirlinkMakes, Dirlink, IputDrop, PutIp, cache
  <2> QED BY <1>8, <2>1
<1>10. ASSUME NEW e \in Slots, NEW i \in Inums, NEW n \in Names, NEW label \in IlockPCs,
              FindsEntry(t, e, i, label, n) \/ FindsFree(t, e, i, label, n)
       PROVE  LockInv'
  <2>1. pc[t] = "idle" /\ pc'[t] \in IlockPCs /\ locked' = locked
    BY <1>10 DEF FindsEntry, FindsFree, Finds
  <2> QED BY <1>8, <2>1
<1>11. ASSUME NEW e \in Slots, DirlinkFinds(t, e) PROVE LockInv'
  <2>1. pc[t] = "dirlink" /\ pc'[t] = "iput" /\ locked' = locked
    BY <1>11 DEF DirlinkFinds
  <2> QED BY <1>8, <2>1
<1> HIDE <1>0, <1>1
<1> QED BY StepCases, <1>2, <1>3, <1>4, <1>5, <1>6, <1>7, <1>9, <1>10, <1>11
        DEF IInv, WorkStep, PutsIp

\* Only who has the root, or takes it when it is free, changes the directory.
LEMMA DirKept ==
  ASSUME RootInv, NEW t \in Threads, Step(t), root # None, root # t
  PROVE  dir' = dir
<1>1. ASSUME NEW from, NEW to, Ilock(t, from, to) PROVE dir' = dir
  BY <1>1 DEF Ilock
<1>2. ~CreateEntry(t) /\ ~UnlinkEntry(t)
  BY DEF CreateEntry, UnlinkEntry, RootInv, CreatePCs, UnlinkPCs
<1>3. IputLock(t) \/ Itrunc(t) \/ ItruncUpdate(t) \/ Ifree(t) \/ IputRelease(t) \/ IputDrop(t)
      => dir' = dir
  BY DEF IputLock, Itrunc, ItruncUpdate, Ifree, IputRelease, IputDrop
<1>4. OpenFile(t) \/ OpenFails(t) \/ Close(t) \/ WriteCall(t) \/ WriteUpdate(t)
      \/ DropLink(t) \/ AddLink(t) \/ (\E b \in Blocks : Balloc(t, b)) => dir' = dir
  BY DEF OpenFile, OpenFails, Close, WriteCall, WriteUpdate, DropLink, AddLink, Balloc
<1>5. ~Dirlink(t) /\ (\A n \in Names : ~OpenFound(t, n) /\ ~UnlinkFound(t, n))
  BY DEF Dirlink, OpenFound, UnlinkFound
<1>7. BallocFails(t) \/ (\E n \in Names : IallocFails(t, n)) => dir' = dir
  BY DEF BallocFails, IallocFails
<1>6. /\ \A n \in Names, i \in Inums : ~CreateNew(t, n, i)
      /\ \A old, new \in Names : ~LinkFound(t, old, new)
  BY DEF CreateNew, LinkFound
<1> QED BY <1>1, <1>2, <1>3, <1>4, <1>5, <1>6, <1>7 DEF Step

\* Nothing happens to the entry of the directory that the root's holder looked at.
LEMMA RootStep ==
  ASSUME IInv, NEW t \in Threads, Step(t), NoFsPanic'
  PROVE  RootInv'
<1> DEFINE R(u) == /\ root = u => /\ pc[u] \in CreatePCs \cup UnlinkPCs \cup DropPCs \cup {"iput"}
                                  /\ name[u] \in Names
                   /\ pc[u] \in CreatePCs => root = u /\ dir[name[u]] = None
                   /\ pc[u] \in UnlinkPCs => root = u /\ dir[name[u]] = inum[ip[u]]
                   /\ pc[u] \in PutPCs /\ root = u => dir[name[u]] = inum[put[u]]
<1>0. /\ pc \in [Threads -> PCs] /\ ip \in [Threads -> Slots \cup {NoSlot}]
      /\ put \in [Threads -> Slots \cup {NoSlot}] /\ name \in [Threads -> Names \cup {None}]
      /\ root \in Threads \cup {None} /\ pc'[t] # "panic" /\ None \notin Threads
      /\ ref \in [Slots -> Nat] /\ inum \in [Slots -> Inums \cup {None}]
      /\ dir \in [Names -> Inums \cup {None}]
  BY InodeAssumption DEF IInv, TypeInv, NoFsPanic
<1>1. Others(t) /\ \A f \in Slots : ref[f] > 0 => inum'[f] = inum[f]
  BY StepOthers, EntryStep DEF IInv
<1>2. ASSUME NEW u \in Threads \ {t} PROVE R(u)'
  <2>1. R(u)
    BY DEF IInv, RootInv
  <2>2. root = u => dir' = dir
    BY <1>0, DirKept DEF IInv
  <2>3. /\ pc[u] \in UnlinkPCs => inum'[ip[u]] = inum[ip[u]]
        /\ pc[u] \in PutPCs => inum'[put[u]] = inum[put[u]]
    BY <1>1, Referenced DEF IInv, HasIp, HasPut, IpPCs
  <2> QED BY <1>1, <2>1, <2>2, <2>3 DEF Others
<1>3. R(t)
  BY DEF IInv, RootInv
<1> USE <1>0 DEF Goto, CreatePCs, UnlinkPCs, DropPCs, PutPCs
<1>4. ASSUME IlockStep(t) PROVE R(t)'
  <2>1. PICK from \in PCs, to \in PCs : IlockOf(from, to) /\ Ilock(t, from, to)
    BY <1>4 DEF IlockStep
  <2>2. pc[t] = from /\ pc'[t] = to /\ UNCHANGED <<ip, name, dir, inum, root>>
    BY <2>1 DEF Ilock
  <2> QED BY <1>3, <2>1, <2>2 DEF IlockOf
<1>5. ASSUME IputLock(t) PROVE R(t)'
  <2>1. pc[t] = "iput" /\ UNCHANGED <<put, name, dir, inum, root>>
    BY <1>5 DEF IputLock
  <2>2. pc'[t] = IF LastUse(put[t]) THEN "itrunc" ELSE "irelease"
    BY <1>5 DEF IputLock
  <2>3. root = t => ~LastUse(put[t])
    <3> SUFFICES ASSUME root = t, put[t] \in valid PROVE inode[put[t]].nlink # 0
      BY DEF LastUse
    <3>1. put[t] \in Slots /\ ref[put[t]] > 0 /\ inum[put[t]] \in Inums
      BY <2>1, Referenced DEF IInv, HasPut, EntryInv
    <3>2. name[t] \in Names /\ dir[name[t]] = inum[put[t]]
      BY <1>3, <2>1
    <3>3. dinode[inum[put[t]]].nlink > 0
      BY <3>1, <3>2, LinkCounts DEF IInv
    <3> QED BY <3>1, <3>3 DEF IInv, CopyInv
  <2> QED BY <1>3, <2>1, <2>2, <2>3
<1>6. ASSUME Itrunc(t) \/ ItruncUpdate(t) \/ Ifree(t) PROVE R(t)'
  <2>1. /\ pc[t] \in FreePCs /\ pc'[t] \in FreePCs \cup {"irelease"} /\ root' = root
    BY <1>6 DEF Itrunc, ItruncUpdate, Ifree, FreePCs
  <2>2. root # t
    BY <1>3, <2>1 DEF FreePCs
  <2> QED BY <1>3, <2>1, <2>2 DEF FreePCs
<1>7. ASSUME IputRelease(t) PROVE R(t)'
  <2>1. pc[t] = "irelease" /\ pc'[t] = "idrop" /\ UNCHANGED <<put, name, dir, inum, root>>
    BY <1>7 DEF IputRelease
  <2> QED BY <1>3, <2>1
<1>8. ASSUME CreateEntry(t) \/ UnlinkEntry(t) PROVE R(t)'
  <2>1. pc'[t] \in {"open", "unlinked"} /\ root' = None
    BY <1>8 DEF CreateEntry, UnlinkEntry
  <2> QED BY <2>1
<1>9. ASSUME WriteCall(t) \/ WriteUpdate(t) \/ AddLink(t) \/ OpenFile(t) \/ PutsIp(t) \/ Close(t)
             \/ \E b \in Blocks : Balloc(t, b)
      PROVE  R(t)'
  <2>1. /\ pc[t] \in {"idle", "write", "write_update", "link", "open", "unlinked", "bad", "dirlink"}
        /\ pc'[t] \in {"idle", "write_ilock", "write_update", "dirlink", "iput"} /\ root' = root
    BY <1>9 DEF WriteCall, WriteUpdate, AddLink, OpenFile, PutsIp, OpenFails, DropLink,
                DirlinkMakes, Dirlink, Close, Balloc, PutIp
  <2>2. root # t
    BY <1>3, <2>1
  <2> QED BY <2>1, <2>2
<1>10. ASSUME IputDrop(t) PROVE R(t)'
  <2>1. pc'[t] \in {"idle", "unlink_bad"} /\ root' # t
    BY <1>10 DEF IputDrop
  <2> QED BY <2>1
<1>11. ASSUME NEW e \in Slots, NEW i \in Inums, NEW n \in Names, NEW label \in IlockPCs,
              FindsEntry(t, e, i, label, n)
       PROVE  R(t)'
  <2>1. /\ pc'[t] = label /\ ip'[t] = e /\ inum'[e] = i /\ dir' = dir /\ dir[n] = i
        /\ root' = IF label \in CreatePCs \cup UnlinkPCs THEN t ELSE None
        /\ label \in CreatePCs \cup UnlinkPCs => name'[t] = n
        /\ label \notin CreatePCs
    BY <1>11, FindFrame DEF IInv, FindsEntry, Finds, Got
  <2> QED BY <2>1 DEF IlockPCs
<1>12. ASSUME NEW e \in Slots, NEW i \in Inums, NEW n \in Names, NEW label \in IlockPCs,
              FindsFree(t, e, i, label, n)
       PROVE  R(t)'
  <2>1. /\ pc'[t] = "create_ilock" /\ dir' = dir /\ dir[n] = None /\ root' = t
        /\ name'[t] = n
    BY <1>12 DEF FindsFree, Finds
  <2> QED BY <2>1
<1>13. ASSUME NEW e \in Slots, DirlinkFinds(t, e) PROVE R(t)'
  <2>1. /\ pc[t] = "dirlink" /\ pc'[t] = "iput" /\ root' = t /\ UNCHANGED <<dir, name>>
        /\ put'[t] = e /\ inum'[e] = dir[name[t]]
    BY <1>13 DEF DirlinkFinds, Got
  <2>2. name[t] \in Names
    BY <2>1 DEF IInv, ThreadInv, LinkPCs
  <2> QED BY <2>1, <2>2
<1> HIDE DEF R
<1>14. R(t)'
  BY StepCases, <1>4, <1>5, <1>6, <1>7, <1>8, <1>9, <1>10, <1>11, <1>12, <1>13
     DEF IInv, WorkStep
<1>15. \A u \in Threads : R(u)'
  BY <1>2, <1>14
<1> QED BY <1>15 DEF RootInv, R

-----------------------------------------------------------------------------
(* The copies *)

\* What CopyInv says of one entry.
CopyGood(e) ==
    /\ dinode[inum[e]].type = "file"
    /\ inode[e].type = "file" /\ inode[e].nlink = dinode[inum[e]].nlink
    /\ Updating(e) = {} => inode[e].addr = dinode[inum[e]].addr

\* The copy of an entry that t is not updating stays good while it is left alone.
LEMMA CopyKept ==
  ASSUME IInv, NEW t \in Threads, Others(t), NEW e \in valid, ref[e] > 0, t \notin Updating(e),
         inum'[e] = inum[e], inode'[e] = inode[e], dinode'[inum[e]] = dinode[inum[e]]
  PROVE  CopyGood(e)'
<1>1. CopyGood(e)
  BY DEF IInv, CopyInv, CopyGood
<1>2. Updating(e)' = {} => Updating(e) = {}
  <2> SUFFICES ASSUME NEW u \in Updating(e) PROVE u \in Updating(e)'
    OBVIOUS
  <2>1. u \in Threads \ {t}
    BY DEF Updating
  <2> QED BY <2>1 DEF Updating, Others
<1> QED BY <1>1, <1>2 DEF CopyGood

\* A step that changes neither copies nor inodes, makes no entry valid and is not
\* the end of an update.
LEMMA CopiesKept ==
  ASSUME IInv, NEW t \in Threads, Step(t), NoFsPanic', inode' = inode,
         valid' \subseteq valid,
         \A e \in valid' : ref'[e] > 0 => /\ ref[e] > 0 /\ t \notin Updating(e)
                                         /\ dinode'[inum[e]] = dinode[inum[e]]
  PROVE  CopyInv'
<1> SUFFICES ASSUME NEW e \in valid', ref'[e] > 0 PROVE CopyGood(e)'
  BY DEF CopyInv, CopyGood
<1>1. Others(t) /\ e \in valid /\ e \in Slots /\ ref[e] > 0 /\ inum'[e] = inum[e]
  BY StepOthers, EntryStep DEF IInv, TypeInv
<1> QED BY <1>1, CopyKept

\* A step that writes the copy of an entry through to the disk.
LEMMA CopyWritten ==
  ASSUME IInv, NEW t \in Threads, Others(t), NEW d \in Slots \cap valid, ref[d] > 0, NEW new,
         new.type = "file", Update(d, new), UNCHANGED <<inum, ref>>, valid' \subseteq valid,
         \A e \in Slots : e # d => t \notin Updating(e)
  PROVE  CopyInv'
<1> SUFFICES ASSUME NEW e \in valid', ref'[e] > 0 PROVE CopyGood(e)'
  BY DEF CopyInv, CopyGood
<1>0. /\ e \in Slots /\ e \in valid /\ ref[e] > 0 /\ inum[e] \in Inums /\ inum[d] \in Inums
      /\ e # d => inum[e] # inum[d]
      /\ inode \in [Slots -> [type : {"none", "file"}, nlink : 0..MaxLink, addr : Blocks \cup {None}]]
      /\ dinode \in [Inums -> [type : {"none", "file"}, nlink : 0..MaxLink, addr : Blocks \cup {None}]]
  BY DEF IInv, TypeInv, EntryInv
<1>1. CASE e = d
  <2>1. inode'[e] = new /\ dinode'[inum'[e]] = new
    BY <1>0, <1>1 DEF Update
  <2> QED BY <2>1 DEF CopyGood
<1>2. CASE e # d
  <2>1. inode'[e] = inode[e] /\ dinode'[inum[e]] = dinode[inum[e]] /\ inum'[e] = inum[e]
    BY <1>0, <1>2 DEF Update
  <2> QED BY <1>0, <1>2, <2>1, CopyKept
<1> QED BY <1>1, <1>2

\* A step that changes the block of a copy, and goes on to write it through.
LEMMA CopyChanged ==
  ASSUME IInv, NEW t \in Threads, Others(t), NEW d \in Slots \cap valid, NEW b,
         inode' = [inode EXCEPT ![d].addr = b], UNCHANGED <<dinode, inum, ref, valid>>,
         t \in Updating(d)', \A e \in Slots : t \notin Updating(e)
  PROVE  CopyInv'
<1> SUFFICES ASSUME NEW e \in valid', ref'[e] > 0 PROVE CopyGood(e)'
  BY DEF CopyInv, CopyGood
<1>0. /\ e \in Slots /\ e \in valid /\ ref[e] > 0
      /\ inode \in [Slots -> [type : {"none", "file"}, nlink : 0..MaxLink, addr : Blocks \cup {None}]]
  BY DEF IInv, TypeInv
<1>1. CASE e = d
  <2>1. CopyGood(e)
    BY <1>0 DEF IInv, CopyInv, CopyGood
  <2>2. inode'[e].type = inode[e].type /\ inode'[e].nlink = inode[e].nlink
    BY <1>0, <1>1
  <2>3. Updating(e)' # {}
    BY <1>1
  <2> QED BY <2>1, <2>2, <2>3 DEF CopyGood
<1>2. CASE e # d
  <2>1. inode'[e] = inode[e]
    BY <1>0, <1>2
  <2> QED BY <1>0, <2>1, CopyKept
<1> QED BY <1>1, <1>2

\* The steps that write an entry through to the disk.
Writes(t, e, new) ==
    /\ Update(e, new) /\ UNCHANGED <<inum, ref>>
    /\ \/ pc[t] = "itrunc_update" /\ e = put[t] /\ new = inode[e] /\ valid' = valid
       \/ pc[t] = "ifree" /\ e = put[t] /\ new = [inode[e] EXCEPT !.type = "none"]
          /\ valid' = valid \ {e}
       \/ pc[t] \in {"write", "write_update"} /\ e = ip[t] /\ new = inode[e] /\ valid' = valid
       \/ pc[t] = "create" /\ e = ip[t] /\ new = [inode[e] EXCEPT !.nlink = 1] /\ valid' = valid
       \/ pc[t] \in {"unlinked", "bad"} /\ e = ip[t] /\ new = [inode[e] EXCEPT !.nlink = @ - 1]
          /\ valid' = valid
       \/ pc[t] = "link" /\ e = ip[t] /\ new = [inode[e] EXCEPT !.nlink = @ + 1] /\ valid' = valid

\* These are iupdate()'s callers.
LEMMA WriteKinds ==
  ASSUME NEW t \in Threads
  PROVE  /\ ItruncUpdate(t) => Writes(t, put[t], inode[put[t]])
         /\ Ifree(t) => Writes(t, put[t], [inode[put[t]] EXCEPT !.type = "none"])
         /\ WriteUpdate(t) => Writes(t, ip[t], inode[ip[t]])
         /\ CreateEntry(t) => Writes(t, ip[t], [inode[ip[t]] EXCEPT !.nlink = 1])
         /\ DropLink(t) => Writes(t, ip[t], [inode[ip[t]] EXCEPT !.nlink = @ - 1])
         /\ AddLink(t) => Writes(t, ip[t], [inode[ip[t]] EXCEPT !.nlink = @ + 1])
<1>1. ItruncUpdate(t) => Writes(t, put[t], inode[put[t]])
  BY DEF ItruncUpdate, Writes
<1>2. Ifree(t) => Writes(t, put[t], [inode[put[t]] EXCEPT !.type = "none"])
  BY DEF Ifree, Writes
<1>3. WriteUpdate(t) => Writes(t, ip[t], inode[ip[t]])
  BY DEF WriteUpdate, Writes
<1>4. CreateEntry(t) => Writes(t, ip[t], [inode[ip[t]] EXCEPT !.nlink = 1])
  BY DEF CreateEntry, Writes
<1>5. DropLink(t) => Writes(t, ip[t], [inode[ip[t]] EXCEPT !.nlink = @ - 1])
  BY DEF DropLink, Writes
<1>6. AddLink(t) => Writes(t, ip[t], [inode[ip[t]] EXCEPT !.nlink = @ + 1])
  BY DEF AddLink, Writes
<1> QED BY <1>1, <1>2, <1>3, <1>4, <1>5, <1>6

\* The writer holds the lock of a valid entry, and its inode is allocated.
LEMMA WriterFacts ==
  ASSUME IInv, NEW t \in Threads, NEW e, NEW new, Writes(t, e, new)
  PROVE  /\ e \in Slots \cap valid /\ ref[e] > 0 /\ inum[e] \in Inums /\ locked[e] = t
         /\ dinode' = [dinode EXCEPT ![inum[e]] = new] /\ inode' = [inode EXCEPT ![e] = new]
         /\ dinode[inum[e]].type = "file" /\ inode[e].type = "file"
         /\ inode[e].nlink = dinode[inum[e]].nlink
         /\ new.addr = inode[e].addr
         /\ pc[t] # "ifree" => new.type = "file" /\ valid' = valid
         /\ \A f \in Slots : f # e => t \notin Updating(f)
         /\ inode[e] \in [type : {"none", "file"}, nlink : 0..MaxLink, addr : Blocks \cup {None}]
<1>1. \/ e = ip[t] /\ pc[t] \in IpLocked
      \/ e = put[t] /\ pc[t] \in FreePCs
  BY DEF Writes, IpLocked, FreePCs
<1>2. /\ e \in Slots \cap valid /\ ref[e] > 0 /\ inum[e] \in Inums
      /\ dinode[inum[e]].type = "file" /\ inode[e].type = "file"
      /\ inode[e].nlink = dinode[inum[e]].nlink
  BY <1>1, CopyOf, LockedValid DEF IInv
<1>3. locked[e] = t
  BY <1>1, <1>2 DEF IInv, LockInv, PutLocked
<1>4. inode[e] \in [type : {"none", "file"}, nlink : 0..MaxLink, addr : Blocks \cup {None}]
  BY <1>2 DEF IInv, TypeInv
<1>5. dinode' = [dinode EXCEPT ![inum[e]] = new] /\ inode' = [inode EXCEPT ![e] = new]
  BY DEF Writes, Update
<1>6. new.addr = inode[e].addr /\ (pc[t] # "ifree" => new.type = "file" /\ valid' = valid)
  BY <1>2, <1>4 DEF Writes
<1>7. \A f \in Slots : f # e => t \notin Updating(f)
  BY <1>1 DEF Writes, Updating
<1> QED BY <1>2, <1>3, <1>4, <1>5, <1>6, <1>7

\* A valid copy stays what is on disk.
LEMMA CopyStep ==
  ASSUME IInv, NEW t \in Threads, Step(t), NoFsPanic'
  PROVE  CopyInv'
<1>0. Others(t) /\ valid \subseteq Slots /\ ref \in [Slots -> Nat] /\ pc'[t] # "panic"
  BY StepOthers DEF IInv, TypeInv, NoFsPanic
<1>1. ASSUME IlockStep(t) PROVE CopyInv'
  <2>1. PICK from \in PCs, to \in PCs : IlockOf(from, to) /\ Ilock(t, from, to)
    BY <1>1 DEF IlockStep
  <2>2. /\ pc[t] = from /\ pc'[t] # "panic" /\ UNCHANGED <<dinode, inum, ref>>
        /\ valid' = valid \cup {ip[t]}
        /\ inode' = IF ip[t] \in valid THEN inode
                    ELSE [inode EXCEPT ![ip[t]] = dinode[inum[ip[t]]]]
        /\ pc'[t] = IF ip[t] \notin valid /\ dinode[inum[ip[t]]].type = "none" THEN "panic" ELSE to
    BY <1>0, <2>1 DEF Ilock, Goto, IInv, TypeInv
  <2>3. ip[t] \in Slots /\ inum[ip[t]] \in Inums
    <3>1. HasIp(t) \/ pc[t] \in WritePCs
      BY <2>1, <2>2 DEF IlockOf, HasIp, IpPCs, CreatePCs, UnlinkPCs, LinkPCs, WritePCs
    <3> QED BY <3>1, Referenced DEF IInv, EntryInv
  <2>4. \A e \in Slots : t \notin Updating(e)
    BY <2>1, <2>2 DEF Updating, IlockOf
  <2>5. CASE ip[t] \in valid
    <3>1. inode' = inode /\ valid' = valid
      BY <2>2, <2>5
    <3> QED BY <1>0, <2>2, <2>4, <3>1, CopiesKept
  <2>6. CASE ip[t] \notin valid
    <3> SUFFICES ASSUME NEW e \in valid', ref'[e] > 0 PROVE CopyGood(e)'
      BY DEF CopyInv, CopyGood
    <3>1. inode \in [Slots -> [type : {"none", "file"}, nlink : 0..MaxLink, addr : Blocks \cup {None}]]
          /\ dinode[inum[ip[t]]].type = "file"
      BY <2>2, <2>3, <2>6 DEF IInv, TypeInv
    <3>2. CASE e = ip[t]
      <4>1. inode'[e] = dinode[inum[e]]
        BY <2>2, <2>3, <2>6, <3>1, <3>2
      <4> QED BY <2>2, <3>1, <3>2, <4>1 DEF CopyGood
    <3>3. CASE e # ip[t]
      <4>1. e \in valid /\ e \in Slots /\ ref[e] > 0 /\ inode'[e] = inode[e]
        BY <1>0, <2>2, <2>6, <3>1, <3>3
      <4> QED BY <1>0, <2>2, <2>4, <4>1, CopyKept
    <3> QED BY <3>2, <3>3
  <2> QED BY <2>5, <2>6
<1>2. ASSUME \/ IputLock(t) \/ IputRelease(t) \/ IputDrop(t) \/ OpenFile(t) \/ OpenFails(t)
             \/ Close(t) \/ WriteCall(t) \/ UnlinkEntry(t) \/ DirlinkMakes(t)
      PROVE  CopyInv'
  <2>1. UNCHANGED <<dinode, inode, valid>> /\ pc[t] \notin {"itrunc_update", "write_update"}
    BY <1>2 DEF IputLock, IputRelease, IputDrop, OpenFile, OpenFails, Close, WriteCall,
                UnlinkEntry, DirlinkMakes, Dirlink, cache
  <2>2. \A e \in Slots : ref'[e] > 0 => ref[e] > 0
    <3>1. IputDrop(t) => ref' = [ref EXCEPT ![put[t]] = @ - 1] /\ put[t] \in Slots
      BY IputDropFrame DEF IputDrop, IInv
    <3>2. ~IputDrop(t) => ref' = ref
      BY <1>2 DEF IputLock, IputRelease, OpenFile, OpenFails, Close, WriteCall,
                  UnlinkEntry, DirlinkMakes, Dirlink, cache
    <3> QED BY <1>0, <3>1, <3>2
  <2>3. \A e \in Slots : t \notin Updating(e)
    BY <2>1 DEF Updating
  <2> QED BY <1>0, <2>1, <2>2, <2>3, CopiesKept
<1>3. ASSUME NEW e \in Slots, NEW i \in Inums, Got(e, i), inode' = inode,
             pc[t] \notin {"itrunc_update", "write_update"},
             \/ dinode' = dinode
             \/ dinode[i].type = "none" /\ \A j \in Inums \ {i} : dinode'[j] = dinode[j]
      PROVE  CopyInv'
  <2>1. valid' \subseteq valid /\ \A f \in valid' : ref'[f] > 0 => ref[f] > 0
    BY <1>0, <1>3 DEF Got
  <2>2. \A f \in valid' : ref[f] > 0 => dinode'[inum[f]] = dinode[inum[f]]
    BY <1>0, <1>3, <2>1 DEF IInv, CopyInv, EntryInv
  <2>3. \A f \in Slots : t \notin Updating(f)
    BY <1>3 DEF Updating
  <2> QED BY <1>0, <1>3, <2>1, <2>2, <2>3, CopiesKept
<1>4. ASSUME NEW e \in Slots, NEW i \in Inums, NEW n \in Names, NEW label \in IlockPCs,
             FindsEntry(t, e, i, label, n) \/ FindsFree(t, e, i, label, n)
      PROVE  CopyInv'
  <2>1. /\ Got(e, i) /\ inode' = inode /\ pc[t] = "idle"
        /\ \/ dinode' = dinode
           \/ dinode[i].type = "none" /\ \A j \in Inums \ {i} : dinode'[j] = dinode[j]
    BY <1>4 DEF FindsEntry, FindsFree, Finds, IInv, TypeInv
  <2> QED BY <1>3, <2>1
<1>5. ASSUME NEW e \in Slots, DirlinkFinds(t, e) PROVE CopyInv'
  <2>1. /\ Got(e, dir[name[t]]) /\ dir[name[t]] \in Inums /\ UNCHANGED <<inode, dinode>>
        /\ pc[t] = "dirlink"
    BY <1>5 DEF DirlinkFinds, Got
  <2> QED BY <1>3, <2>1
<1>6. ASSUME NEW e, NEW new, Writes(t, e, new) PROVE CopyInv'
  <2>1. CASE pc[t] # "ifree"
    <3>1. /\ e \in Slots \cap valid /\ ref[e] > 0 /\ new.type = "file" /\ valid' = valid
          /\ \A f \in Slots : f # e => t \notin Updating(f)
      BY <1>6, <2>1, WriterFacts
    <3>2. Update(e, new) /\ UNCHANGED <<inum, ref>>
      BY <1>6 DEF Writes
    <3> QED BY <1>0, <3>1, <3>2, CopyWritten
  <2>2. CASE pc[t] = "ifree"
    <3> SUFFICES ASSUME NEW f \in valid', ref'[f] > 0 PROVE CopyGood(f)'
      BY DEF CopyInv, CopyGood
    <3>1. /\ e \in Slots /\ ref[e] > 0 /\ inum[e] \in Inums /\ valid' = valid \ {e}
          /\ dinode' = [dinode EXCEPT ![inum[e]] = new] /\ inode' = [inode EXCEPT ![e] = new]
          /\ UNCHANGED <<inum, ref>>
      BY <1>6, <2>2, WriterFacts DEF Writes
    <3>2. f \in valid /\ f \in Slots /\ ref[f] > 0 /\ f # e /\ inum[f] # inum[e] /\ inum[f] \in Inums
      BY <1>0, <3>1 DEF IInv, EntryInv
    <3>3. inode'[f] = inode[f] /\ dinode'[inum[f]] = dinode[inum[f]] /\ inum'[f] = inum[f]
      BY <3>1, <3>2 DEF IInv, TypeInv
    <3>4. t \notin Updating(f)
      BY <2>2 DEF Updating
    <3> QED BY <1>0, <3>2, <3>3, <3>4, CopyKept
  <2> QED BY <2>1, <2>2
<1>7. ASSUME Itrunc(t) PROVE CopyInv'
  <2>1. /\ pc[t] = "itrunc" /\ UNCHANGED <<dinode, inum, ref, valid, put>>
        /\ inode' = [inode EXCEPT ![put[t]].addr = None] /\ pc'[t] = "itrunc_update"
    BY <1>0, <1>7 DEF Itrunc, Goto, IInv, TypeInv
  <2>2. put[t] \in Slots \cap valid
    BY <2>1, CopyOf DEF IInv, FreePCs
  <2>3. t \in Updating(put[t])' /\ \A e \in Slots : t \notin Updating(e)
    BY <2>1 DEF Updating
  <2>4. PICK d \in Slots \cap valid : d = put[t]
    BY <2>2
  <2>5. t \in Updating(d)' /\ inode' = [inode EXCEPT ![d].addr = None]
    BY <2>1, <2>4 DEF Updating
  <2> QED BY <1>0, <2>1, <2>3, <2>4, <2>5, CopyChanged
<1>8. ASSUME NEW b \in Blocks, Balloc(t, b) PROVE CopyInv'
  <2>1. /\ pc[t] = "write" /\ UNCHANGED <<dinode, inum, ref, valid, ip>>
        /\ inode' = [inode EXCEPT ![ip[t]].addr = b] /\ pc'[t] = "write_update"
    BY <1>0, <1>8 DEF Balloc, Goto, IInv, TypeInv
  <2>2. ip[t] \in Slots \cap valid
    BY <2>1, CopyOf DEF IInv, IpLocked
  <2>3. t \in Updating(ip[t])' /\ \A e \in Slots : t \notin Updating(e)
    BY <2>1 DEF Updating
  <2>4. PICK d \in Slots \cap valid : d = ip[t]
    BY <2>2
  <2>5. t \in Updating(d)' /\ inode' = [inode EXCEPT ![d].addr = b]
    BY <2>1, <2>4 DEF Updating
  <2> QED BY <1>0, <2>1, <2>3, <2>4, <2>5, CopyChanged
<1>9. ItruncUpdate(t) \/ Ifree(t) \/ WriteUpdate(t) \/ CreateEntry(t) \/ DropLink(t) \/ AddLink(t)
      => CopyInv'
  BY <1>6, WriteKinds
<1> QED BY StepCases, <1>1, <1>2, <1>4, <1>5, <1>7, <1>8, <1>9 DEF IInv, WorkStep, PutsIp

-----------------------------------------------------------------------------
(* The users of an inode *)

\* Which disk inodes a step changes.
LEMMA DinodeStep ==
  ASSUME IInv, NEW t \in Threads, Step(t), NoFsPanic'
  PROVE  \/ dinode' = dinode
         \/ \E e, new : Writes(t, e, new)
         \/ \E e \in Slots, i \in Inums, n \in Names : FindsFree(t, e, i, "create_ilock", n)
<1>1. IlockStep(t) => dinode' = dinode
  BY DEF IlockStep, Ilock
<1>2. IputLock(t) \/ Itrunc(t) \/ IputRelease(t) \/ WriteCall(t) \/ UnlinkEntry(t) \/ OpenFile(t)
      \/ OpenFails(t) \/ Close(t) \/ DirlinkMakes(t) \/ IputDrop(t)
      \/ (\E b \in Blocks : Balloc(t, b)) => dinode' = dinode
  BY DEF IputLock, Itrunc, IputRelease, WriteCall, UnlinkEntry, OpenFile, OpenFails, Close,
         DirlinkMakes, Dirlink, IputDrop, Balloc
<1>3. ItruncUpdate(t) \/ Ifree(t) \/ WriteUpdate(t) \/ CreateEntry(t) \/ DropLink(t) \/ AddLink(t)
      => \E e, new : Writes(t, e, new)
  BY WriteKinds
<1>4. ASSUME NEW e \in Slots, NEW i \in Inums, NEW n \in Names, NEW label \in IlockPCs
      PROVE  /\ FindsEntry(t, e, i, label, n) => dinode' = dinode
             /\ FindsFree(t, e, i, label, n) => FindsFree(t, e, i, "create_ilock", n)
  BY DEF FindsEntry, FindsFree
<1>5. (\E e \in Slots : DirlinkFinds(t, e)) => dinode' = dinode
  BY DEF DirlinkFinds
<1> QED BY StepCases, <1>1, <1>2, <1>3, <1>4, <1>5 DEF IInv, WorkStep, PutsIp

\* Which copies a step changes: only those it has the lock of.
LEMMA CopyLocked ==
  ASSUME IInv, NEW t \in Threads, Step(t), NoFsPanic', NEW f \in Slots,
         locked[f] # None, locked[f] # t
  PROVE  inode'[f] = inode[f]
<1>0. inode \in [Slots -> [type : {"none", "file"}, nlink : 0..MaxLink, addr : Blocks \cup {None}]]
  BY DEF IInv, TypeInv
<1>1. ASSUME IlockStep(t) PROVE inode'[f] = inode[f]
  BY <1>0, <1>1 DEF IlockStep, Ilock
<1>2. IputLock(t) \/ IputRelease(t) \/ WriteCall(t) \/ UnlinkEntry(t) \/ OpenFile(t)
      \/ OpenFails(t) \/ Close(t) \/ DirlinkMakes(t) \/ IputDrop(t) => inode' = inode
  BY DEF IputLock, IputRelease, WriteCall, UnlinkEntry, OpenFile, OpenFails, Close,
         DirlinkMakes, Dirlink, IputDrop, cache
<1>3. ASSUME NEW e, NEW new, Writes(t, e, new) PROVE inode'[f] = inode[f]
  <2>1. locked[e] = t /\ inode' = [inode EXCEPT ![e] = new]
    BY <1>3, WriterFacts
  <2> QED BY <1>0, <2>1
<1>4. ASSUME Itrunc(t) PROVE inode'[f] = inode[f]
  <2>1. put[t] \in Slots /\ locked[put[t]] = t /\ inode' = [inode EXCEPT ![put[t]].addr = None]
    BY <1>4, CopyOf DEF IInv, LockInv, Itrunc, FreePCs, PutLocked
  <2> QED BY <1>0, <2>1
<1>5. ASSUME NEW b \in Blocks, Balloc(t, b) PROVE inode'[f] = inode[f]
  <2>1. ip[t] \in Slots /\ locked[ip[t]] = t /\ inode' = [inode EXCEPT ![ip[t]].addr = b]
    BY <1>5, CopyOf DEF IInv, LockInv, Balloc, IpLocked
  <2> QED BY <1>0, <2>1
<1>6. ItruncUpdate(t) \/ Ifree(t) \/ WriteUpdate(t) \/ CreateEntry(t) \/ DropLink(t) \/ AddLink(t)
      => inode'[f] = inode[f]
  BY <1>3, WriteKinds
<1>7. ASSUME NEW e \in Slots, NEW i \in Inums, NEW n \in Names, NEW label \in IlockPCs
      PROVE  FindsEntry(t, e, i, label, n) \/ FindsFree(t, e, i, label, n) => inode' = inode
  BY DEF FindsEntry, FindsFree, Finds
<1>8. (\E e \in Slots : DirlinkFinds(t, e)) => inode' = inode
  BY DEF DirlinkFinds
<1> QED BY StepCases, <1>1, <1>2, <1>4, <1>5, <1>6, <1>7, <1>8 DEF IInv, WorkStep, PutsIp

\* Somebody who uses an entry has a reference to it.
LEMMA LiveUsed ==
  ASSUME TypeInv, RefInv, NEW e \in Slots, Live(e)
  PROVE  ref[e] > 0
<1>1. ref[e] # 0
  BY UserFacts DEF Live
<1> QED BY <1>1 DEF TypeInv

\* A step finds an entry, or makes its last test of one, or leaves everybody who
\* was to look at an entry where he is.
Retires(t, f) ==
    /\ f = put[t] /\ pc[t] \in {"iput", "ifree"} /\ pc'[t] = "irelease"
    /\ IpSame /\ PutSame /\ FdSame

\* No step but these changes whether somebody will test an entry.
LEMMA LiveStep ==
  ASSUME IInv, NEW t \in Threads, Step(t), NoFsPanic', NEW f \in Slots
  PROVE  \/ Live(f)' <=> Live(f)
         \/ Live(f)' /\ (\E i \in Inums : Got(f, i))
         \/ Retires(t, f) /\ (IputLock(t) \/ Ifree(t))
<1>0. Others(t) /\ pc \in [Threads -> PCs] /\ pc'[t] # "panic"
  BY StepOthers DEF IInv, TypeInv, NoFsPanic
<1>1. ASSUME IpSame, PutSame, FdSame, t \in PutUsers(f) => (pc[t] \in DropPCs <=> pc'[t] \in DropPCs)
      PROVE  Live(f)' <=> Live(f)
  <2>1. IpUsers(f)' = IpUsers(f) /\ PutUsers(f)' = PutUsers(f) /\ FdUsers(f)' = FdUsers(f)
    BY <1>1 DEF IpSame, PutSame, FdSame
  <2>2. \A u \in PutUsers(f) : pc[u] \in DropPCs <=> pc'[u] \in DropPCs
    BY <1>0, <1>1 DEF Others, PutUsers
  <2> QED BY <2>1, <2>2 DEF Live
<1>2. ASSUME WorkStep(t)
      PROVE  (Live(f)' <=> Live(f)) \/ (Retires(t, f) /\ (IputLock(t) \/ Ifree(t)))
  <2>1. IpSame /\ PutSame /\ FdSame
    BY <1>2, WorkFrame DEF IInv
  <2>2. CASE pc[t] \in DropPCs <=> pc'[t] \in DropPCs
    BY <1>1, <2>1, <2>2
  <2>3. CASE ~(pc[t] \in DropPCs <=> pc'[t] \in DropPCs)
    <3>1. /\ IputLock(t) \/ Ifree(t)
          /\ pc[t] \in {"iput", "ifree"} /\ pc'[t] = "irelease"
      <4> USE DEF Goto, DropPCs
      <4>1. ~IlockStep(t)
        BY <1>0, <2>3 DEF IlockStep, Ilock, IlockOf
      <4>2. ~Itrunc(t) /\ ~ItruncUpdate(t) /\ ~IputRelease(t) /\ ~CreateEntry(t) /\ ~WriteCall(t)
        BY <1>0, <2>3 DEF Itrunc, ItruncUpdate, IputRelease, CreateEntry, WriteCall
      <4>3. ~WriteUpdate(t) /\ ~UnlinkEntry(t) /\ ~AddLink(t) /\ \A b \in Blocks : ~Balloc(t, b)
        BY <1>0, <2>3 DEF WriteUpdate, UnlinkEntry, AddLink, Balloc
      <4>4. IputLock(t) \/ Ifree(t)
        BY <1>2, <4>1, <4>2, <4>3 DEF WorkStep
      <4> QED BY <1>0, <2>3, <4>4 DEF IputLock, Ifree
    <3>2. CASE t \in PutUsers(f)
      BY <2>1, <3>1, <3>2 DEF Retires, PutUsers
    <3>3. CASE t \notin PutUsers(f)
      BY <1>1, <2>1, <3>3
    <3> QED BY <3>2, <3>3
  <2> QED BY <2>2, <2>3
<1>3. ASSUME NEW e \in Slots, NEW i \in Inums, NEW n \in Names, NEW label \in IlockPCs,
             FindsEntry(t, e, i, label, n) \/ FindsFree(t, e, i, label, n)
      PROVE  (Live(f)' <=> Live(f)) \/ (Live(f)' /\ \E j \in Inums : Got(f, j))
  <2>1. IpGains(t, e) /\ PutSame /\ FdSame /\ Got(e, i) /\ pc[t] = "idle"
    BY <1>3, FindFrame DEF FindsEntry, FindsFree, Finds, IInv
  <2>2. CASE f = e
    BY <2>1, <2>2 DEF IpGains, Live
  <2>3. CASE f # e
    <3>1. IpUsers(f)' = IpUsers(f) /\ PutUsers(f)' = PutUsers(f) /\ FdUsers(f)' = FdUsers(f)
      BY <2>1, <2>3 DEF IpGains, PutSame, FdSame
    <3>2. \A u \in PutUsers(f) : pc[u] \in DropPCs <=> pc'[u] \in DropPCs
      BY <1>0, <2>1 DEF Others, PutUsers, HasPut, PutPCs
    <3> QED BY <3>1, <3>2 DEF Live
  <2> QED BY <2>2, <2>3
<1>4. ASSUME NEW e \in Slots, DirlinkFinds(t, e)
      PROVE  (Live(f)' <=> Live(f)) \/ (Live(f)' /\ \E j \in Inums : Got(f, j))
  <2>1. IpSame /\ PutGains(t, e) /\ FdSame /\ Got(e, dir[name[t]]) /\ dir[name[t]] \in Inums
        /\ pc[t] = "dirlink" /\ pc'[t] = "iput"
    BY <1>0, <1>4, DirlinkFindsFrame DEF DirlinkFinds, IInv, Got
  <2>2. CASE f = e
    <3>1. t \in PutUsers(f)' /\ pc'[t] \notin DropPCs
      BY <2>1, <2>2 DEF PutGains, DropPCs
    <3> QED BY <2>1, <2>2, <3>1 DEF Live
  <2>3. CASE f # e
    <3>1. IpUsers(f)' = IpUsers(f) /\ PutUsers(f)' = PutUsers(f) /\ FdUsers(f)' = FdUsers(f)
      BY <2>1, <2>3 DEF IpSame, PutGains, FdSame
    <3>2. \A u \in PutUsers(f) : pc[u] \in DropPCs <=> pc'[u] \in DropPCs
      BY <1>0, <2>1 DEF Others, PutUsers, DropPCs
    <3> QED BY <3>1, <3>2 DEF Live
  <2> QED BY <2>2, <2>3
<1>5. ASSUME NEW e \in Slots, Live(e), Live(e)', \A g \in Slots \ {e} :
                 IpUsers(g)' = IpUsers(g) /\ PutUsers(g)' = PutUsers(g) /\ FdUsers(g)' = FdUsers(g),
             pc[t] \notin DropPCs, pc'[t] \notin DropPCs
      PROVE  Live(f)' <=> Live(f)
  <2>1. \A u \in PutUsers(f) : pc[u] \in DropPCs <=> pc'[u] \in DropPCs
    BY <1>0, <1>5 DEF Others, PutUsers
  <2>2. f # e => (Live(f)' <=> Live(f))
    BY <1>5, <2>1 DEF Live
  <2> QED BY <1>5, <2>2
<1>6. ASSUME OpenFile(t) PROVE Live(f)' <=> Live(f)
  <2>1. PICK e \in Slots : e = ip[t]
    BY <1>6, OpenFileFrame DEF IInv
  <2>2. IpLoses(t, e) /\ PutSame /\ FdGains(t, e)
    BY <1>6, <2>1, OpenFileFrame DEF IInv
  <2>3. Live(e) /\ Live(e)'
    BY <2>2 DEF IpLoses, FdGains, Live
  <2>4. pc[t] \notin DropPCs /\ pc'[t] \notin DropPCs
    BY <1>0, <1>6 DEF OpenFile, Goto, DropPCs
  <2> QED BY <1>5, <2>2, <2>3, <2>4 DEF IpLoses, PutSame, FdGains
<1>7. ASSUME PutsIp(t) PROVE Live(f)' <=> Live(f)
  <2>1. PICK e \in Slots : e = ip[t]
    BY <1>7, PutsIpFrame DEF IInv
  <2>2. IpLoses(t, e) /\ PutGains(t, e) /\ FdSame
    BY <1>7, <2>1, PutsIpFrame DEF IInv
  <2>3. pc[t] \notin DropPCs /\ pc'[t] \notin DropPCs
    BY <1>0, <1>7, PutsIpFrame DEF DropPCs, IInv
  <2>4. Live(e) /\ Live(e)'
    BY <2>2, <2>3 DEF IpLoses, PutGains, Live
  <2> QED BY <1>5, <2>2, <2>3, <2>4 DEF IpLoses, PutGains, FdSame
<1>8. ASSUME Close(t) PROVE Live(f)' <=> Live(f)
  <2>1. PICK e \in Slots : e = fd[t]
    BY <1>8, CloseFrame DEF IInv
  <2>2. IpSame /\ PutGains(t, e) /\ FdLoses(t, e)
    BY <1>8, <2>1, CloseFrame DEF IInv
  <2>3. pc[t] \notin DropPCs /\ pc'[t] \notin DropPCs
    BY <1>0, <1>8 DEF Close, Goto, DropPCs
  <2>4. Live(e) /\ Live(e)'
    BY <2>2, <2>3 DEF FdLoses, PutGains, Live
  <2> QED BY <1>5, <2>2, <2>3, <2>4 DEF IpSame, PutGains, FdLoses
<1>9. ASSUME IputDrop(t) PROVE Live(f)' <=> Live(f)
  <2>1. PICK e \in Slots : e = put[t]
    BY <1>9, IputDropFrame DEF IInv
  <2>2. IpSame /\ PutLoses(t, e) /\ FdSame
    BY <1>9, <2>1, IputDropFrame DEF IInv
  <2>3. pc[t] \in DropPCs
    BY <1>9 DEF IputDrop, DropPCs
  <2>4. IpUsers(f)' = IpUsers(f) /\ FdUsers(f)' = FdUsers(f)
    BY <2>2 DEF IpSame, FdSame
  <2>5. \A u \in Threads \ {t} : /\ u \in PutUsers(f)' <=> u \in PutUsers(f)
                                 /\ pc[u] \in DropPCs <=> pc'[u] \in DropPCs
    BY <1>0, <2>2 DEF PutLoses, Others
  <2>6. t \notin PutUsers(f)'
    BY <2>2 DEF PutLoses, PutUsers
  <2> QED BY <2>3, <2>4, <2>5, <2>6 DEF Live, PutUsers
<1> QED BY StepCases, <1>2, <1>3, <1>4, <1>6, <1>7, <1>8, <1>9 DEF IInv

\* What iget() changes: the entry it returns, and of a used one only the count.
LEMMA GotFacts ==
  ASSUME TypeInv, NEW d, NEW i, Got(d, i)
  PROVE  /\ d \in Slots /\ i \in Inums
         /\ inum'[d] = i /\ ref'[d] = ref[d] + 1 /\ ref'[d] > 0
         /\ ref[d] > 0 => inum' = inum /\ valid' = valid
         /\ ref[d] = 0 => Cached(i) = {} /\ valid' = valid \ {d}
         /\ ref[d] > 0 \/ ref[d] = 0
         /\ \A f \in Slots \ {d} : /\ inum'[f] = inum[f] /\ ref'[f] = ref[f]
                                   /\ f \in valid' <=> f \in valid
<1>0. d \in Slots /\ i \in Inums /\ ref \in [Slots -> Nat] /\ inum \in [Slots -> Inums \cup {None}]
  BY DEF TypeInv, Got
<1>1. ref[d] > 0 \/ ref[d] = 0
  BY <1>0
<1>2. inum' = [inum EXCEPT ![d] = i] /\ ref' = [ref EXCEPT ![d] = @ + 1]
  BY DEF Got
<1>3. ref[d] > 0 => inum' = inum
  BY <1>0, <1>2 DEF Got
<1>4. /\ ref[d] > 0 => valid' = valid
      /\ ref[d] = 0 => Cached(i) = {} /\ valid' = valid \ {d}
  BY DEF Got
<1>5. inum'[d] = i /\ ref'[d] = ref[d] + 1 /\ ref'[d] > 0
  BY <1>0, <1>2
<1>6. \A f \in Slots \ {d} : inum'[f] = inum[f] /\ ref'[f] = ref[f]
  BY <1>0, <1>2
<1> QED BY <1>0, <1>1, <1>3, <1>4, <1>5, <1>6

\* Which entries a step may leave without a valid copy: those that are, one that
\* iget() takes, and the freed one.
LEMMA InvalidStep ==
  ASSUME IInv, NEW t \in Threads, Step(t), NoFsPanic', NEW e \in Slots, e \notin valid', e \in valid
  PROVE  (ref[e] = 0 /\ \E i \in Inums : Got(e, i)) \/ (Ifree(t) /\ e = put[t])
<1>1. WorkStep(t) => Ifree(t) /\ e = put[t]
  <2>1. ~IlockStep(t) /\ ~IputLock(t) /\ ~Itrunc(t) /\ ~IputRelease(t) /\ ~WriteCall(t)
        /\ ~UnlinkEntry(t) /\ \A b \in Blocks : ~Balloc(t, b)
    BY DEF IlockStep, Ilock, IputLock, Itrunc, IputRelease, WriteCall, UnlinkEntry, Balloc, cache
  <2>2. ~ItruncUpdate(t) /\ ~CreateEntry(t) /\ ~WriteUpdate(t) /\ ~AddLink(t)
    BY DEF ItruncUpdate, CreateEntry, WriteUpdate, AddLink
  <2>3. Ifree(t) => e = put[t]
    BY DEF Ifree
  <2> QED BY <2>1, <2>2, <2>3 DEF WorkStep
<1>2. ~OpenFile(t) /\ ~Close(t) /\ ~IputDrop(t) /\ ~PutsIp(t)
  BY PutsIpFrame DEF OpenFile, Close, IputDrop, cache, IInv
<1>3. ASSUME NEW d \in Slots, NEW i \in Inums, Got(d, i)
      PROVE  ref[e] = 0 /\ \E j \in Inums : Got(e, j)
  BY <1>3, GotFacts DEF IInv
<1>4. ASSUME NEW d \in Slots, NEW i \in Inums, NEW n \in Names, NEW label \in IlockPCs,
             FindsEntry(t, d, i, label, n) \/ FindsFree(t, d, i, label, n)
      PROVE  ref[e] = 0 /\ \E j \in Inums : Got(e, j)
  BY <1>3, <1>4 DEF FindsEntry, FindsFree, Finds
<1>5. ASSUME NEW d \in Slots, DirlinkFinds(t, d)
      PROVE  ref[e] = 0 /\ \E j \in Inums : Got(e, j)
  BY <1>3, <1>5 DEF DirlinkFinds, Got
<1> QED BY StepCases, <1>1, <1>2, <1>4, <1>5 DEF IInv

\* Nobody who needs the copy meets an entry without.
LEMMA ValidStep ==
  ASSUME IInv, NEW t \in Threads, Step(t), NoFsPanic'
  PROVE  ValidInv'
<1> DEFINE V(u, e) == /\ fd[u] # e
                      /\ HasIp(u) /\ ip[u] = e => pc[u] \in IlockPCs
                      /\ HasPut(u) /\ put[u] = e => pc[u] \in DropPCs \/ root = u
<1> SUFFICES ASSUME NEW e \in Slots, e \notin valid', NEW u \in Threads PROVE V(u, e)'
  BY DEF ValidInv
<1>0. /\ Others(t) /\ pc \in [Threads -> PCs] /\ ip \in [Threads -> Slots \cup {NoSlot}]
      /\ put \in [Threads -> Slots \cup {NoSlot}] /\ fd \in [Threads -> Slots \cup {NoSlot}]
      /\ e # NoSlot /\ pc'[t] # "panic" /\ ref \in [Slots -> Nat]
  <2>1. Others(t)
    BY StepOthers DEF IInv
  <2>2. e # NoSlot
    BY InodeAssumption DEF Slots, NoSlot
  <2> QED BY <2>1, <2>2 DEF IInv, TypeInv, NoFsPanic
<1>1. e \notin valid => V(u, e)
  BY DEF IInv, ValidInv
<1>2. CASE u # t
  <2>1. CASE e \notin valid
    BY <1>0, <1>1, <1>2, <2>1 DEF Others, HasIp, HasPut
  <2>2. CASE e \in valid /\ ref[e] = 0
    <3>1. fd[u] # e /\ ~(HasIp(u) /\ ip[u] = e) /\ ~(HasPut(u) /\ put[u] = e)
      BY <1>0, <2>2, Referenced DEF IInv
    <3> QED BY <1>0, <1>2, <3>1 DEF Others, HasIp, HasPut
  <2>3. CASE Ifree(t) /\ e = put[t]
    <3>1. ref[e] = 1 /\ t \in PutUsers(e)
      BY <2>3 DEF Ifree, FreePCs, IInv, FreeInv, PutUsers, HasPut, PutPCs
    <3>2. PutUsers(e) = {t} /\ IpUsers(e) = {} /\ FdUsers(e) = {}
      BY <3>1, UserFacts DEF IInv
    <3>3. fd[u] # e /\ ~(HasIp(u) /\ ip[u] = e) /\ ~(HasPut(u) /\ put[u] = e)
      BY <1>2, <3>2 DEF PutUsers, IpUsers, FdUsers
    <3> QED BY <1>0, <1>2, <3>3 DEF Others, HasIp, HasPut
  <2> QED BY <2>1, <2>2, <2>3, InvalidStep
<1>3. CASE u = t
  <2> USE DEF Goto
  <2> SUFFICES V(t, e)'
    BY <1>3
  <2>1. ASSUME IlockStep(t) PROVE V(t, e)'
    <3>1. PICK from \in PCs, to \in PCs : IlockOf(from, to) /\ Ilock(t, from, to)
      BY <2>1 DEF IlockStep
    <3>2. pc[t] = from /\ pc'[t] = to /\ UNCHANGED <<ip, put, fd>> /\ valid' = valid \cup {ip[t]}
      BY <1>0, <3>1 DEF Ilock
    <3>3. to \notin PutPCs /\ e \notin valid /\ e # ip[t]
      BY <3>1, <3>2 DEF IlockOf, PutPCs
    <3> QED BY <1>1, <1>3, <3>2, <3>3 DEF HasIp, HasPut
  <2>2. ASSUME IputLock(t) PROVE V(t, e)'
    <3>1. /\ pc[t] = "iput" /\ UNCHANGED <<ip, put, fd, root, valid>>
          /\ pc'[t] = IF LastUse(put[t]) THEN "itrunc" ELSE "irelease"
      BY <1>0, <2>2 DEF IputLock
    <3>2. put[t] = e => pc'[t] \in DropPCs
      BY <3>1 DEF LastUse, DropPCs
    <3> QED BY <1>1, <1>3, <3>1, <3>2 DEF HasIp, HasPut, IlockPCs, IpPCs, CreatePCs, UnlinkPCs,
                                  LinkPCs, PutPCs
  <2>3. ASSUME Itrunc(t) \/ ItruncUpdate(t) PROVE V(t, e)'
    <3>1. /\ pc[t] \in FreePCs /\ pc'[t] \in FreePCs /\ UNCHANGED <<ip, put, fd, root, valid>>
      BY <1>0, <2>3 DEF Itrunc, ItruncUpdate, FreePCs
    <3>2. put[t] # e /\ root # t
      BY <3>1, LockedValid DEF IInv
    <3> QED BY <1>1, <1>3, <3>1, <3>2 DEF HasIp, HasPut, IpPCs, CreatePCs, UnlinkPCs, LinkPCs, FreePCs
  <2>4. ASSUME Ifree(t) PROVE V(t, e)'
    <3>1. /\ pc[t] = "ifree" /\ pc'[t] = "irelease" /\ UNCHANGED <<ip, put, fd, root>>
          /\ valid' = valid \ {put[t]}
      BY <1>0, <2>4 DEF Ifree
    <3>2. root # t
      BY <3>1, LockedValid DEF IInv, FreePCs
    <3>3. e = put[t] => fd[t] # e
      <4> SUFFICES ASSUME e = put[t] PROVE FdUsers(e) = {}
        BY DEF FdUsers
      <4>1. ref[e] = 1 /\ t \in PutUsers(e)
        BY <3>1 DEF FreePCs, IInv, FreeInv, PutUsers, HasPut, PutPCs
      <4> QED BY <4>1, UserFacts DEF IInv
    <3> QED BY <1>1, <1>3, <3>1, <3>2, <3>3
            DEF HasIp, HasPut, IpPCs, CreatePCs, UnlinkPCs, LinkPCs, DropPCs
  <2>5. ASSUME IputRelease(t) PROVE V(t, e)'
    <3>1. /\ pc[t] = "irelease" /\ pc'[t] = "idrop" /\ UNCHANGED <<ip, put, fd, root, valid>>
      BY <1>0, <2>5 DEF IputRelease
    <3> QED BY <1>1, <1>3, <3>1 DEF HasIp, HasPut, IpPCs, CreatePCs, UnlinkPCs, LinkPCs, PutPCs,
                             DropPCs, IlockPCs
  <2>6. ASSUME CreateEntry(t) \/ UnlinkEntry(t) \/ AddLink(t) PROVE V(t, e)'
    <3>1. /\ pc[t] \in IpLocked /\ pc'[t] \in {"open", "unlinked", "dirlink"}
          /\ UNCHANGED <<ip, fd, valid>>
      BY <1>0, <2>6 DEF CreateEntry, UnlinkEntry, AddLink, IpLocked, cache
    <3>2. ip[t] # e
      BY <3>1, LockedValid DEF IInv
    <3> QED BY <1>1, <1>3, <3>1, <3>2 DEF HasPut, PutPCs
  <2>7. ASSUME WriteCall(t) \/ WriteUpdate(t) \/ \E b \in Blocks : Balloc(t, b) PROVE V(t, e)'
    <3>1. /\ pc'[t] \in {"write_ilock", "idle", "write_update"} /\ UNCHANGED <<fd, valid>>
      BY <1>0, <2>7 DEF WriteCall, WriteUpdate, Balloc, cache
    <3> QED BY <1>1, <1>3, <3>1 DEF HasIp, HasPut, IpPCs, CreatePCs, UnlinkPCs, LinkPCs, PutPCs
  <2>8. ASSUME OpenFile(t) PROVE V(t, e)'
    <3>1. pc[t] = "open" /\ pc'[t] = "idle" /\ fd'[t] = ip[t] /\ valid' = valid
      BY <1>0, <2>8 DEF OpenFile
    <3>2. ip[t] # e
      BY <3>1, LockedValid DEF IInv, IpLocked
    <3> QED BY <3>1, <3>2 DEF HasIp, HasPut, IpPCs, CreatePCs, UnlinkPCs, LinkPCs, PutPCs
  <2>9. ASSUME PutsIp(t) PROVE V(t, e)'
    <3>1. /\ pc[t] \in {"open", "unlinked", "bad", "dirlink"} /\ pc'[t] = "iput" /\ root' # t
          /\ put'[t] = ip[t] /\ UNCHANGED <<ip, fd, valid>>
      BY <1>0, <2>9, PutsIpFrame DEF IInv
    <3>2. HasIp(t) /\ pc[t] \notin IlockPCs
      BY <3>1 DEF HasIp, IpPCs, LinkPCs, IlockPCs
    <3>3. ip[t] # e
      BY <1>1, <1>3, <3>1, <3>2
    <3> QED BY <1>1, <1>3, <3>1, <3>3 DEF HasIp, HasPut, IpPCs, CreatePCs, UnlinkPCs, LinkPCs
  <2>10. ASSUME Close(t) PROVE V(t, e)'
    <3>1. /\ pc'[t] = "iput" /\ root' # t /\ put'[t] = fd[t] /\ fd'[t] = NoSlot /\ valid' = valid
      BY <1>0, <2>10, CloseFrame DEF Close, cache, IInv
    <3> QED BY <1>0, <1>1, <1>3, <3>1 DEF HasIp, HasPut, IpPCs, CreatePCs, UnlinkPCs, LinkPCs
  <2>11. ASSUME IputDrop(t) PROVE V(t, e)'
    <3>1. /\ pc[t] = "idrop" /\ UNCHANGED <<fd, valid>>
          /\ \/ pc'[t] = "idle"
             \/ pc'[t] = "unlink_bad" /\ root = t /\ ip' = ip
      BY <1>0, <2>11 DEF IputDrop
    <3> QED BY <1>1, <1>3, <3>1 DEF HasIp, HasPut, IpPCs, CreatePCs, UnlinkPCs, LinkPCs, PutPCs,
                             IlockPCs
  <2>12. ASSUME NEW d \in Slots, NEW i \in Inums, NEW n \in Names, NEW label \in IlockPCs,
                FindsEntry(t, d, i, label, n) \/ FindsFree(t, d, i, label, n)
         PROVE  V(t, e)'
    <3>1. pc'[t] = label /\ fd' = fd /\ Got(d, i)
      BY <1>0, <2>12 DEF FindsEntry, FindsFree, Finds
    <3>2. fd[t] # e
      <4> SUFFICES ASSUME fd[t] = e PROVE FALSE
        OBVIOUS
      <4>1. ref[e] > 0
        BY <1>0, Referenced DEF IInv
      <4>2. e \notin valid
        BY <3>1, <4>1, GotFacts DEF IInv
      <4> QED BY <1>1, <1>3, <4>2
    <3> QED BY <3>1, <3>2 DEF HasPut, IlockPCs, PutPCs
  <2>13. ASSUME NEW d \in Slots, DirlinkFinds(t, d) PROVE V(t, e)'
    <3>1. /\ pc[t] = "dirlink" /\ pc'[t] = "iput" /\ UNCHANGED <<ip, fd>> /\ root' = t
          /\ Got(d, dir[name[t]])
      BY <1>0, <2>13 DEF DirlinkFinds
    <3>2. HasIp(t) /\ pc[t] \notin IlockPCs
      BY <3>1 DEF HasIp, IpPCs, LinkPCs, IlockPCs
    <3>3. fd[t] # e /\ ip[t] # e
      <4> SUFFICES ASSUME fd[t] = e \/ ip[t] = e PROVE FALSE
        OBVIOUS
      <4>1. ref[e] > 0
        BY <1>0, <3>2, Referenced DEF IInv
      <4>2. e \notin valid
        BY <3>1, <4>1, GotFacts DEF IInv
      <4> QED BY <1>1, <1>3, <3>2, <4>2
    <3> QED BY <3>1, <3>3
  <2> HIDE DEF V
  <2> QED BY StepCases, <2>1, <2>2, <2>3, <2>4, <2>5, <2>6, <2>7, <2>8, <2>9, <2>10, <2>11, <2>12,
             <2>13 DEF IInv, WorkStep
<1> QED BY <1>2, <1>3


-----------------------------------------------------------------------------
(* Free inodes *)

\* What a step does to one disk inode.
LEMMA DinodeAt ==
  ASSUME IInv, NEW t \in Threads, Step(t), NoFsPanic', NEW i \in Inums
  PROVE  \/ dinode'[i] = dinode[i]
         \/ \E e \in Slots : \E new : Writes(t, e, new) /\ inum[e] = i /\ dinode'[i] = new
         \/ \E e \in Slots, n \in Names : FindsFree(t, e, i, "create_ilock", n)
<1>0. dinode \in [Inums -> [type : {"none", "file"}, nlink : 0..MaxLink, addr : Blocks \cup {None}]]
  BY DEF IInv, TypeInv
<1>1. ASSUME NEW e, NEW new, Writes(t, e, new)
      PROVE  dinode'[i] = dinode[i] \/ (e \in Slots /\ inum[e] = i /\ dinode'[i] = new)
  BY <1>0, <1>1, WriterFacts
<1>2. ASSUME NEW e \in Slots, NEW j \in Inums, NEW n \in Names, FindsFree(t, e, j, "create_ilock", n)
      PROVE  dinode'[i] = dinode[i] \/ j = i
  BY <1>0, <1>2 DEF FindsFree
<1> QED BY DinodeStep, <1>1, <1>2

\* Only a step that meets its directory entry, or ialloc(), gets an inode.
LEMMA GotKinds ==
  ASSUME IInv, NEW t \in Threads, Step(t), NoFsPanic', NEW e \in Slots, NEW i \in Inums, Got(e, i)
  PROVE  \/ (\E n \in Names : dir[n] = i) /\ UNCHANGED <<dinode, dir>>
         \/ \E n \in Names : FindsFree(t, e, i, "create_ilock", n)
<1>0. ref \in [Slots -> Nat] /\ ref'[e] = ref[e] + 1 /\ inum'[e] = i
  BY GotFacts DEF IInv, TypeInv
<1>1. ~WorkStep(t) /\ ~OpenFile(t) /\ ~PutsIp(t) /\ ~Close(t)
  BY <1>0, WorkFrame, PutsIpFrame DEF OpenFile, Close, cache, IInv
<1>2. ~IputDrop(t)
  BY <1>0 DEF IputDrop
<1>3. ASSUME NEW d \in Slots, NEW j \in Inums, Got(d, j) PROVE d = e /\ j = i
  <2>1. inum \in [Slots -> Inums \cup {None}]
    BY DEF IInv, TypeInv
  <2>2. ref' = [ref EXCEPT ![d] = @ + 1] /\ inum' = [inum EXCEPT ![d] = j]
    BY <1>3 DEF Got
  <2> QED BY <1>0, <2>1, <2>2
<1>4. ASSUME NEW d \in Slots, NEW j \in Inums, NEW n \in Names, NEW label \in IlockPCs,
             FindsEntry(t, d, j, label, n) \/ FindsFree(t, d, j, label, n)
      PROVE  \/ (\E m \in Names : dir[m] = i) /\ UNCHANGED <<dinode, dir>>
             \/ \E m \in Names : FindsFree(t, e, i, "create_ilock", m)
  <2>1. d = e /\ j = i
    BY <1>3, <1>4 DEF FindsEntry, FindsFree, Finds
  <2>2. CASE FindsEntry(t, d, j, label, n)
    BY <2>1, <2>2 DEF FindsEntry, Finds
  <2>3. CASE FindsFree(t, d, j, label, n)
    BY <2>1, <2>3 DEF FindsFree
  <2> QED BY <1>4, <2>2, <2>3
<1>5. ASSUME NEW d \in Slots, DirlinkFinds(t, d)
      PROVE  (\E m \in Names : dir[m] = i) /\ UNCHANGED <<dinode, dir>>
  <2>1. Got(d, dir[name[t]]) /\ dir[name[t]] \in Inums
    BY <1>5 DEF DirlinkFinds, Got
  <2>2. dir[name[t]] = i
    BY <1>3, <2>1
  <2>3. name[t] \in Names
    BY <1>5 DEF DirlinkFinds, IInv, ThreadInv, LinkPCs
  <2> QED BY <1>5, <2>2, <2>3 DEF DirlinkFinds
<1> QED BY StepCases, <1>1, <1>2, <1>4, <1>5 DEF IInv

\* An entry gets users that will test only from iget().
LEMMA LiveKept ==
  ASSUME IInv, NEW t \in Threads, Step(t), NoFsPanic', NEW f \in Slots, Live(f)'
  PROVE  Live(f) \/ \E i \in Inums : Got(f, i)
<1>1. ASSUME Retires(t, f) PROVE Live(f)
  <2>1. Others(t) /\ pc'[t] \in DropPCs
    BY <1>1, StepOthers DEF IInv, Retires, DropPCs
  <2>2. IpUsers(f)' = IpUsers(f) /\ PutUsers(f)' = PutUsers(f) /\ FdUsers(f)' = FdUsers(f)
    BY <1>1 DEF Retires, IpSame, PutSame, FdSame
  <2>3. \A u \in PutUsers(f) : pc'[u] \notin DropPCs => pc[u] \notin DropPCs
    BY <2>1 DEF Others, PutUsers
  <2> QED BY <2>2, <2>3 DEF Live
<1> QED BY <1>1, LiveStep

\* ifree is the end of its thread's use of the inode.
LEMMA IfreeStep ==
  ASSUME IInv, NEW t \in Threads, Step(t), NoFsPanic', pc[t] = "ifree", NEW e \in Slots, e = put[t]
  PROVE  ~Live(e)'
<1>0. pc \in [Threads -> PCs]
  BY DEF IInv, TypeInv
<1>1. Ifree(t)
  <2>1. ~FindStep(t)
    BY DEF FindStep, OpenFound, UnlinkFound, LinkFound, CreateNew
  <2>2. ~PassStep(t)
    BY DEF PassStep, OpenFile, OpenFails, Close, DropLink, Dirlink, IputDrop
  <2>3. ~IlockStep(t)
    BY DEF IlockStep, Ilock, IlockOf
  <2>4. ~IputLock(t) /\ ~Itrunc(t) /\ ~ItruncUpdate(t) /\ ~IputRelease(t) /\ ~CreateEntry(t)
        /\ ~WriteCall(t) /\ ~WriteUpdate(t) /\ ~UnlinkEntry(t) /\ ~AddLink(t)
        /\ \A b \in Blocks : ~Balloc(t, b)
    BY DEF IputLock, Itrunc, ItruncUpdate, IputRelease, CreateEntry, WriteCall, WriteUpdate,
           UnlinkEntry, AddLink, Balloc
  <2> QED BY <1>0, <2>1, <2>2, <2>3, <2>4, StepKinds, StopPanics DEF WorkStep, NoFsPanic
<1>2. t \in PutUsers(e) /\ ref[e] = 1
  BY DEF FreePCs, IInv, FreeInv, PutUsers, HasPut, PutPCs
<1>3. PutUsers(e) = {t} /\ IpUsers(e) = {} /\ FdUsers(e) = {}
  BY <1>2, UserFacts DEF IInv
<1>4. IpSame /\ PutSame /\ FdSame
  BY <1>1, WorkFrame DEF IInv, WorkStep
<1>5. PutUsers(e)' = {t} /\ IpUsers(e)' = {} /\ FdUsers(e)' = {}
  BY <1>3, <1>4 DEF IpSame, PutSame, FdSame
<1>6. pc'[t] \in DropPCs
  BY <1>0, <1>1 DEF Ifree, Goto, DropPCs
<1> QED BY <1>5, <1>6 DEF Live

\* An inode becomes free when its last user is done with it, and nobody finds it.
LEMMA NoneStep ==
  ASSUME IInv, NEW t \in Threads, Step(t), NoFsPanic'
  PROVE  NoneInv'
<1> SUFFICES ASSUME NEW i \in Inums, dinode'[i].type = "none"
             PROVE  /\ dinode'[i].nlink = 0 /\ dinode'[i].addr = None
                    /\ \A e \in Slots : ref'[e] > 0 /\ inum'[e] = i => ~Live(e)'
  BY DEF NoneInv
<1>0. dinode \in [Inums -> [type : {"none", "file"}, nlink : 0..MaxLink, addr : Blocks \cup {None}]]
  BY DEF IInv, TypeInv
<1>1. CASE dinode'[i] = dinode[i]
  <2>1. dinode[i].nlink = 0 /\ dinode[i].addr = None
        /\ \A e \in Slots : ref[e] > 0 /\ inum[e] = i => ~Live(e)
    BY <1>1 DEF IInv, NoneInv
  <2>2. ASSUME NEW e \in Slots, ref'[e] > 0, inum'[e] = i, Live(e)' PROVE FALSE
    <3>1. CASE Live(e)
      BY <2>1, <2>2, <3>1, LiveUsed, EntryStep DEF IInv
    <3>2. ASSUME NEW j \in Inums, Got(e, j) PROVE FALSE
      <4>1. Got(e, i)
        BY <2>2, <3>2, GotFacts DEF IInv
      <4>2. ~\E n \in Names : dir[n] = i
        BY <2>1, LinkCounts DEF IInv
      <4>3. PICK n \in Names : FindsFree(t, e, i, "create_ilock", n)
        BY <4>1, <4>2, GotKinds
      <4>4. dinode' = [dinode EXCEPT ![i] = [type |-> "file", nlink |-> 0, addr |-> None]]
        BY <4>3 DEF FindsFree
      <4> QED BY <1>0, <4>4
    <3> QED BY <2>2, <3>1, <3>2, LiveKept
  <2> QED BY <1>1, <2>1, <2>2
<1>2. ASSUME NEW e \in Slots, NEW new, Writes(t, e, new), inum[e] = i, dinode'[i] = new
      PROVE  /\ dinode'[i].nlink = 0 /\ dinode'[i].addr = None
             /\ \A f \in Slots : ref'[f] > 0 /\ inum'[f] = i => ~Live(f)'
  <2>1. pc[t] = "ifree" /\ ref[e] > 0 /\ inode[e].nlink = dinode[i].nlink
        /\ inode[e] \in [type : {"none", "file"}, nlink : 0..MaxLink, addr : Blocks \cup {None}]
    BY <1>2, WriterFacts
  <2>2. e = put[t] /\ new = [inode[e] EXCEPT !.type = "none"] /\ UNCHANGED <<inum, ref>>
    BY <1>2, <2>1 DEF Writes
  <2>3. dinode[i].nlink = 0 /\ inode[e].addr = None
    BY <1>2, <2>1, <2>2 DEF IInv, FreeInv, FreePCs
  <2>4. new.nlink = 0 /\ new.addr = None
    BY <2>1, <2>2, <2>3
  <2>5. ASSUME NEW f \in Slots, ref'[f] > 0, inum'[f] = i PROVE ~Live(f)'
    <3>1. f = put[t]
      BY <1>2, <2>1, <2>2, <2>5 DEF IInv, EntryInv
    <3> QED BY <2>1, <3>1, IfreeStep
  <2> QED BY <1>2, <2>4, <2>5
<1>3. ASSUME NEW e \in Slots, NEW n \in Names, FindsFree(t, e, i, "create_ilock", n)
      PROVE  FALSE
  BY <1>0, <1>3 DEF FindsFree
<1> QED BY DinodeAt, <1>1, <1>2, <1>3

-----------------------------------------------------------------------------
(* create() and the iput() that frees are alone with their inode *)

\* The thread that wrote an entry through was one that create() is not alone with.
LEMMA WriterUses ==
  ASSUME IInv, NEW t \in Threads, NEW e \in Slots, NEW new, Writes(t, e, new)
  PROVE  t \in IpUsers(e) \/ t \in FdUsers(e) \/ (t \in PutUsers(e) /\ pc[t] \notin DropPCs)
<1>1. CASE pc[t] \in {"itrunc_update", "ifree"}
  BY <1>1 DEF Writes, PutUsers, HasPut, PutPCs, DropPCs
<1>2. CASE pc[t] \in {"write", "write_update"}
  BY <1>2 DEF Writes, FdUsers, IInv, ThreadInv, WritePCs
<1>3. CASE pc[t] \in {"create", "unlinked", "bad", "link"}
  BY <1>3 DEF Writes, IpUsers, HasIp, IpPCs, CreatePCs, LinkPCs
<1> QED BY <1>1, <1>2, <1>3 DEF Writes

\* Nobody comes to the entry of another thread's create().
LEMMA CreateAlone ==
  ASSUME IInv, NEW t \in Threads, Step(t), NoFsPanic', NEW u \in Threads \ {t}, pc[u] \in CreatePCs,
         NEW e \in Slots, e = ip[u]
  PROVE  /\ IpUsers(e)' = {u} /\ FdUsers(e)' = {}
         /\ \A v \in PutUsers(e)' : pc'[v] \in DropPCs
<1>0. /\ Others(t) /\ root = u /\ root # None /\ pc \in [Threads -> PCs]
      /\ IpUsers(e) = {u} /\ FdUsers(e) = {} /\ \A v \in PutUsers(e) : pc[v] \in DropPCs
  BY StepOthers, InodeAssumption DEF IInv, TypeInv, RootInv, CreateInv
<1> DEFINE Goal == /\ IpUsers(e)' = {u} /\ FdUsers(e)' = {}
                   /\ \A v \in PutUsers(e)' : pc'[v] \in DropPCs
<1>1. ASSUME IpUsers(e)' = IpUsers(e), FdUsers(e)' = FdUsers(e), PutUsers(e)' \subseteq PutUsers(e),
             t \in PutUsers(e)' => pc'[t] \in DropPCs
      PROVE  Goal
  <2>1. \A v \in PutUsers(e)' : pc'[v] \in DropPCs
    BY <1>0, <1>1 DEF Others, PutUsers
  <2> QED BY <1>0, <1>1, <2>1
<1>2. CASE WorkStep(t)
  <2>1. IpSame /\ PutSame /\ FdSame
    BY <1>2, WorkFrame DEF IInv
  <2>2. ASSUME t \in PutUsers(e) PROVE pc'[t] \in DropPCs
    <3>1. pc[t] \in DropPCs
      BY <1>0, <2>2
    <3>2. ~IlockStep(t) /\ ~IputLock(t) /\ ~Itrunc(t) /\ ~ItruncUpdate(t) /\ ~Ifree(t)
          /\ ~CreateEntry(t) /\ ~WriteCall(t) /\ ~WriteUpdate(t) /\ ~UnlinkEntry(t) /\ ~AddLink(t)
          /\ \A b \in Blocks : ~Balloc(t, b)
      BY <3>1 DEF DropPCs, IlockStep, Ilock, IlockOf, IputLock, Itrunc, ItruncUpdate, Ifree,
                  CreateEntry, WriteCall, WriteUpdate, UnlinkEntry, AddLink, Balloc
    <3>3. IputRelease(t)
      BY <1>2, <3>2 DEF WorkStep
    <3> QED BY <1>0, <3>3 DEF IputRelease, Goto, DropPCs
  <2> QED BY <1>1, <2>1, <2>2 DEF IpSame, PutSame, FdSame
<1>3. CASE OpenFile(t)
  <2>1. PICK d \in Slots : d = ip[t]
    BY <1>3, OpenFileFrame DEF IInv
  <2>2. IpLoses(t, d) /\ PutSame /\ FdGains(t, d)
    BY <1>3, <2>1, OpenFileFrame DEF IInv
  <2>3. d # e
    BY <1>0, <2>2 DEF IpLoses
  <2>4. IpUsers(e)' = IpUsers(e) /\ FdUsers(e)' = FdUsers(e) /\ PutUsers(e)' = PutUsers(e)
    BY <2>2, <2>3 DEF IpLoses, PutSame, FdGains
  <2>5. t \notin PutUsers(e)
    BY <1>3 DEF OpenFile, PutUsers, HasPut, PutPCs
  <2> QED BY <1>1, <2>4, <2>5
<1>4. CASE PutsIp(t)
  <2>1. PICK d \in Slots : d = ip[t]
    BY <1>4, PutsIpFrame DEF IInv
  <2>2. IpLoses(t, d) /\ PutGains(t, d) /\ FdSame
    BY <1>4, <2>1, PutsIpFrame DEF IInv
  <2>3. d # e
    BY <1>0, <2>2 DEF IpLoses
  <2>4. IpUsers(e)' = IpUsers(e) /\ FdUsers(e)' = FdUsers(e) /\ PutUsers(e)' = PutUsers(e)
    BY <2>2, <2>3 DEF IpLoses, PutGains, FdSame
  <2>5. pc[t] \in {"open", "unlinked", "bad", "dirlink"}
    BY <1>4, PutsIpFrame DEF IInv
  <2>6. t \notin PutUsers(e)
    BY <2>5 DEF PutUsers, HasPut, PutPCs
  <2> QED BY <1>1, <2>4, <2>6
<1>5. CASE Close(t)
  <2>1. PICK d \in Slots : d = fd[t]
    BY <1>5, CloseFrame DEF IInv
  <2>2. IpSame /\ PutGains(t, d) /\ FdLoses(t, d)
    BY <1>5, <2>1, CloseFrame DEF IInv
  <2>3. d # e
    BY <1>0, <2>2 DEF FdLoses
  <2>4. IpUsers(e)' = IpUsers(e) /\ FdUsers(e)' = FdUsers(e) /\ PutUsers(e)' = PutUsers(e)
    BY <2>2, <2>3 DEF IpSame, PutGains, FdLoses
  <2>5. t \notin PutUsers(e)
    BY <1>5 DEF Close, PutUsers, HasPut, PutPCs
  <2> QED BY <1>1, <2>4, <2>5
<1>6. CASE IputDrop(t)
  <2>1. PICK d \in Slots : d = put[t]
    BY <1>6, IputDropFrame DEF IInv
  <2>2. IpSame /\ PutLoses(t, d) /\ FdSame
    BY <1>6, <2>1, IputDropFrame DEF IInv
  <2>3. IpUsers(e)' = IpUsers(e) /\ FdUsers(e)' = FdUsers(e) /\ PutUsers(e)' \subseteq PutUsers(e)
    BY <2>2 DEF IpSame, PutLoses, FdSame
  <2>4. t \notin PutUsers(e)'
    BY <2>1, <2>2 DEF PutLoses, PutUsers
  <2> QED BY <1>1, <2>3, <2>4
<1>7. ~\E d \in Slots : DirlinkFinds(t, d)
  BY <1>0 DEF DirlinkFinds
<1>8. ~\E d \in Slots, i \in Inums, n \in Names, label \in IlockPCs :
         FindsEntry(t, d, i, label, n) \/ FindsFree(t, d, i, label, n)
  BY <1>0 DEF FindsEntry, FindsFree, Finds
<1> QED BY StepCases, <1>2, <1>3, <1>4, <1>5, <1>6, <1>7, <1>8 DEF IInv

\* The steps of create() itself.
LEMMA CreateKinds ==
  ASSUME IInv, NEW t \in Threads, Step(t), NoFsPanic', pc'[t] \in CreatePCs
  PROVE  \/ Ilock(t, "create_ilock", "create")
         \/ \E e \in Slots, i \in Inums, n \in Names : FindsFree(t, e, i, "create_ilock", n)
<1>0. pc \in [Threads -> PCs]
  BY DEF IInv, TypeInv
<1> USE <1>0 DEF Goto, CreatePCs
<1>1. ASSUME IlockStep(t) PROVE Ilock(t, "create_ilock", "create")
  BY <1>1 DEF IlockStep, Ilock, IlockOf
<1>2. ~IputLock(t) /\ ~Itrunc(t) /\ ~ItruncUpdate(t) /\ ~Ifree(t) /\ ~IputRelease(t)
      /\ ~CreateEntry(t) /\ ~WriteCall(t) /\ ~WriteUpdate(t) /\ ~UnlinkEntry(t) /\ ~AddLink(t)
      /\ \A b \in Blocks : ~Balloc(t, b)
  BY DEF IputLock, Itrunc, ItruncUpdate, Ifree, IputRelease, CreateEntry, WriteCall, WriteUpdate,
         UnlinkEntry, AddLink, Balloc
<1>3. ~OpenFile(t) /\ ~Close(t) /\ ~IputDrop(t) /\ \A d \in Slots : ~DirlinkFinds(t, d)
  BY DEF OpenFile, Close, IputDrop, DirlinkFinds
<1>4. ~PutsIp(t)
  BY PutsIpFrame DEF IInv
<1>5. ASSUME NEW e \in Slots, NEW i \in Inums, NEW n \in Names, NEW label \in IlockPCs,
             FindsEntry(t, e, i, label, n) \/ FindsFree(t, e, i, label, n)
      PROVE  FindsFree(t, e, i, "create_ilock", n)
  BY <1>5 DEF FindsEntry, FindsFree, Finds
<1> QED BY StepCases, <1>1, <1>2, <1>3, <1>4, <1>5 DEF IInv, WorkStep

\* create() stays alone until its entry is made.
LEMMA CreateStep ==
  ASSUME IInv, NEW t \in Threads, Step(t), NoFsPanic'
  PROVE  CreateInv'
<1> SUFFICES ASSUME NEW u \in Threads, pc'[u] \in CreatePCs
             PROVE  /\ dinode'[inum'[ip'[u]]].type = "file" /\ dinode'[inum'[ip'[u]]].nlink = 0
                    /\ IpUsers(ip[u])' = {u} /\ FdUsers(ip[u])' = {}
                    /\ \A v \in PutUsers(ip[u])' : pc'[v] \in DropPCs
  BY DEF CreateInv
<1>0. /\ Others(t) /\ pc \in [Threads -> PCs] /\ ip \in [Threads -> Slots \cup {NoSlot}]
      /\ inum \in [Slots -> Inums \cup {None}]
      /\ dinode \in [Inums -> [type : {"none", "file"}, nlink : 0..MaxLink, addr : Blocks \cup {None}]]
  BY StepOthers DEF IInv, TypeInv
<1>1. ASSUME NEW e \in Slots, ip'[u] = e, dinode'[inum'[e]].type = "file",
             dinode'[inum'[e]].nlink = 0, IpUsers(e)' = {u}, FdUsers(e)' = {},
             \A v \in PutUsers(e)' : pc'[v] \in DropPCs
      PROVE  /\ dinode'[inum'[ip'[u]]].type = "file" /\ dinode'[inum'[ip'[u]]].nlink = 0
             /\ IpUsers(ip[u])' = {u} /\ FdUsers(ip[u])' = {}
             /\ \A v \in PutUsers(ip[u])' : pc'[v] \in DropPCs
  BY <1>1 DEF IpUsers, FdUsers, PutUsers
<1>2. CASE u # t
  <2>1. pc[u] \in CreatePCs /\ ip'[u] = ip[u]
    BY <1>0, <1>2 DEF Others
  <2>2. PICK e \in Slots : e = ip[u] /\ ref[e] > 0
    BY <2>1, Referenced DEF IInv, HasIp, IpPCs
  <2>3. /\ dinode[inum[e]].type = "file" /\ dinode[inum[e]].nlink = 0
        /\ IpUsers(e) = {u} /\ FdUsers(e) = {} /\ \A v \in PutUsers(e) : pc[v] \in DropPCs
    BY <2>1, <2>2 DEF IInv, CreateInv
  <2>4. inum[e] \in Inums /\ inum'[e] = inum[e]
    BY <2>2, EntryStep DEF IInv, EntryInv
  <2>5. dinode'[inum[e]] = dinode[inum[e]]
    <3>1. ASSUME NEW d \in Slots, NEW new, Writes(t, d, new), inum[d] = inum[e] PROVE FALSE
      <4>1. d = e
        BY <2>2, <3>1, WriterFacts DEF IInv, EntryInv
      <4> QED BY <1>2, <2>3, <3>1, <4>1, WriterUses
    <3>2. ASSUME NEW d \in Slots, NEW n \in Names, FindsFree(t, d, inum[e], "create_ilock", n)
          PROVE  FALSE
      BY <2>3, <3>2 DEF FindsFree
    <3> QED BY <2>4, <3>1, <3>2, DinodeAt
  <2>6. /\ IpUsers(e)' = {u} /\ FdUsers(e)' = {}
        /\ \A v \in PutUsers(e)' : pc'[v] \in DropPCs
    BY <1>2, <2>1, <2>2, CreateAlone
  <2> QED BY <1>1, <2>1, <2>2, <2>3, <2>4, <2>5, <2>6
<1>3. CASE u = t /\ Ilock(t, "create_ilock", "create")
  <2>1. pc[t] = "create_ilock" /\ UNCHANGED <<dinode, inum, ip>>
    BY <1>3 DEF Ilock
  <2>2. PICK e \in Slots : e = ip[t]
    BY <2>1, Referenced DEF IInv, HasIp, IpPCs, CreatePCs
  <2>3. /\ dinode[inum[e]].type = "file" /\ dinode[inum[e]].nlink = 0
        /\ IpUsers(e) = {t} /\ FdUsers(e) = {} /\ \A v \in PutUsers(e) : pc[v] \in DropPCs
    BY <2>1, <2>2 DEF IInv, CreateInv, CreatePCs
  <2>4. IpSame /\ PutSame /\ FdSame
    <3>1. WorkStep(t)
      BY <1>3 DEF WorkStep, IlockStep, IlockOf, PCs
    <3> QED BY <3>1, WorkFrame DEF IInv
  <2>5. t \notin PutUsers(e)
    BY <2>1 DEF PutUsers, HasPut, PutPCs
  <2>6. \A v \in PutUsers(e)' : pc'[v] \in DropPCs
    BY <1>0, <2>3, <2>4, <2>5 DEF PutSame, Others, PutUsers
  <2>7. IpUsers(e)' = {t} /\ FdUsers(e)' = {}
    BY <2>3, <2>4 DEF IpSame, FdSame
  <2> QED BY <1>1, <1>3, <2>1, <2>2, <2>3, <2>6, <2>7
<1>4. ASSUME u = t, NEW e \in Slots, NEW i \in Inums, NEW n \in Names,
             FindsFree(t, e, i, "create_ilock", n)
      PROVE  /\ dinode'[inum'[ip'[u]]].type = "file" /\ dinode'[inum'[ip'[u]]].nlink = 0
             /\ IpUsers(ip[u])' = {u} /\ FdUsers(ip[u])' = {}
             /\ \A v \in PutUsers(ip[u])' : pc'[v] \in DropPCs
  <2>1. /\ Got(e, i) /\ ip' = [ip EXCEPT ![t] = e] /\ pc[t] = "idle" /\ dinode[i].type = "none"
        /\ dinode' = [dinode EXCEPT ![i] = [type |-> "file", nlink |-> 0, addr |-> None]]
    BY <1>4 DEF FindsFree, Finds
  <2>2. inum'[e] = i
    BY <2>1, GotFacts DEF IInv
  <2>3. dinode'[i].type = "file" /\ dinode'[i].nlink = 0 /\ ip'[t] = e
    BY <1>0, <2>1
  <2>4. IpUsers(e) = {} /\ FdUsers(e) = {} /\ \A v \in PutUsers(e) : pc[v] \in DropPCs
    <3>1. CASE ref[e] = 0
      BY <3>1, UserFacts DEF IInv
    <3>2. CASE ref[e] > 0
      <4>1. inum[e] = i
        BY <2>1, <3>2 DEF Got
      <4>2. ~Live(e)
        BY <2>1, <3>2, <4>1 DEF IInv, NoneInv
      <4> QED BY <4>2 DEF Live
    <3>3. ref[e] = 0 \/ ref[e] > 0
      BY <2>1, GotFacts DEF IInv
    <3> QED BY <3>1, <3>2, <3>3
  <2>5. IpGains(t, e) /\ PutSame /\ FdSame
    BY <1>4, FindFrame DEF IInv, IlockPCs
  <2>6. IpUsers(e)' = {t} /\ FdUsers(e)' = {} /\ PutUsers(e)' = PutUsers(e)
    BY <2>4, <2>5 DEF IpGains, PutSame, FdSame
  <2>7. t \notin PutUsers(e)
    BY <2>1 DEF PutUsers, HasPut, PutPCs
  <2>8. \A v \in PutUsers(e)' : pc'[v] \in DropPCs
    BY <1>0, <2>4, <2>6, <2>7 DEF Others, PutUsers
  <2> QED BY <1>1, <1>4, <2>2, <2>3, <2>6, <2>8
<1>5. u = t => \/ Ilock(t, "create_ilock", "create")
               \/ \E e \in Slots, i \in Inums, n \in Names : FindsFree(t, e, i, "create_ilock", n)
  BY CreateKinds
<1> QED BY <1>2, <1>3, <1>4, <1>5

\* The steps of the iput() that frees an inode.
LEMMA FreeKinds ==
  ASSUME IInv, NEW t \in Threads, Step(t), NoFsPanic', pc'[t] \in FreePCs
  PROVE  (IputLock(t) /\ LastUse(put[t]) /\ pc'[t] = "itrunc") \/ Itrunc(t) \/ ItruncUpdate(t)
<1>0. pc \in [Threads -> PCs]
  BY DEF IInv, TypeInv
<1> USE <1>0 DEF Goto, FreePCs
<1>1. ~IlockStep(t) /\ ~Ifree(t) /\ ~IputRelease(t)
      /\ ~CreateEntry(t) /\ ~WriteCall(t) /\ ~WriteUpdate(t) /\ ~UnlinkEntry(t) /\ ~AddLink(t)
      /\ \A b \in Blocks : ~Balloc(t, b)
  BY DEF IlockStep, Ilock, IlockOf, Ifree, IputRelease, CreateEntry, WriteCall, WriteUpdate,
         UnlinkEntry, AddLink, Balloc
<1>2. ~OpenFile(t) /\ ~Close(t) /\ ~IputDrop(t) /\ \A d \in Slots : ~DirlinkFinds(t, d)
  BY DEF OpenFile, Close, IputDrop, DirlinkFinds
<1>3. ~PutsIp(t)
  BY PutsIpFrame DEF IInv
<1>4. ~\E e \in Slots, i \in Inums, n \in Names, label \in IlockPCs :
         FindsEntry(t, e, i, label, n) \/ FindsFree(t, e, i, label, n)
  BY DEF FindsEntry, FindsFree, Finds, IlockPCs
<1>5. IputLock(t) => LastUse(put[t]) /\ pc'[t] = "itrunc"
  BY DEF IputLock
<1> QED BY StepCases, <1>1, <1>2, <1>3, <1>4, <1>5 DEF IInv, WorkStep

\* The last reference to an inode without links stays the last one: the inode is
\* in no directory, so nobody finds it.
LEMMA FreeStep ==
  ASSUME IInv, NEW t \in Threads, Step(t), NoFsPanic'
  PROVE  FreeInv'
<1> SUFFICES ASSUME NEW u \in Threads, pc'[u] \in FreePCs
             PROVE  /\ ref'[put'[u]] = 1 /\ dinode'[inum'[put'[u]]].nlink = 0
                    /\ pc'[u] # "itrunc" => inode'[put'[u]].addr = None
  BY DEF FreeInv
<1>0. /\ Others(t) /\ pc \in [Threads -> PCs] /\ put \in [Threads -> Slots \cup {NoSlot}]
      /\ inum \in [Slots -> Inums \cup {None}] /\ ref \in [Slots -> Nat]
      /\ inode \in [Slots -> [type : {"none", "file"}, nlink : 0..MaxLink, addr : Blocks \cup {None}]]
      /\ dinode \in [Inums -> [type : {"none", "file"}, nlink : 0..MaxLink, addr : Blocks \cup {None}]]
  BY StepOthers DEF IInv, TypeInv
<1>1. CASE u # t
  <2>1. pc[u] \in FreePCs /\ put'[u] = put[u] /\ pc'[u] = pc[u]
    BY <1>0, <1>1 DEF Others
  <2>2. PICK e \in Slots : e = put[u]
    BY <2>1, CopyOf DEF IInv
  <2>3. /\ ref[e] = 1 /\ dinode[inum[e]].nlink = 0 /\ dinode[inum[e]].type = "file"
        /\ pc[u] # "itrunc" => inode[e].addr = None
        /\ inum[e] \in Inums /\ locked[e] = u /\ u \in PutUsers(e)
    BY <2>1, <2>2, CopyOf DEF IInv, FreeInv, LockInv, PutLocked, PutUsers, HasPut, FreePCs, PutPCs
  <2>4. inum'[e] = inum[e]
    BY <1>0, <2>3, EntryStep DEF IInv
  <2>5. inode'[e] = inode[e]
    BY <1>1, <2>3, CopyLocked, InodeAssumption
  <2>6. ~\E d \in Slots, n \in Names : FindsFree(t, d, inum[e], "create_ilock", n)
    BY <2>3 DEF FindsFree
  <2>7. dinode'[inum[e]] = dinode[inum[e]]
    <3>1. ASSUME NEW d \in Slots, NEW new, Writes(t, d, new), inum[d] = inum[e] PROVE FALSE
      <4>1. d = e /\ locked[d] = t
        BY <1>0, <2>3, <3>1, WriterFacts DEF IInv, EntryInv
      <4> QED BY <1>1, <2>3, <4>1
    <3> QED BY <2>3, <2>6, <3>1, DinodeAt
  <2>8. ref'[e] = ref[e]
    <3>1. ASSUME NEW j \in Inums, Got(e, j) PROVE FALSE
      <4>1. j = inum[e]
        BY <2>3, <3>1 DEF Got
      <4>2. ~\E n \in Names : dir[n] = inum[e]
        BY <2>3, LinkCounts DEF IInv
      <4> QED BY <2>6, <3>1, <4>1, <4>2, GotKinds
    <3>2. ~(t \in PutUsers(e))
      BY <1>1, <2>3, UserFacts DEF IInv
    <3>3. ASSUME IputDrop(t) PROVE ref'[e] = ref[e]
      <4>1. put[t] # e
        BY <3>2, <3>3 DEF IputDrop, PutUsers, HasPut, PutPCs
      <4> QED BY <1>0, <3>3, <4>1 DEF IputDrop
    <3>4. WorkStep(t) \/ OpenFile(t) \/ PutsIp(t) \/ Close(t) => ref' = ref
      BY WorkFrame, PutsIpFrame DEF OpenFile, Close, cache, IInv
    <3>5. ASSUME NEW d \in Slots, NEW j \in Inums, Got(d, j) PROVE ref'[e] = ref[e]
      <4>1. d # e
        BY <3>1, <3>5
      <4> QED BY <1>0, <3>5, <4>1 DEF Got
    <3>6. ASSUME NEW d \in Slots, NEW i \in Inums, NEW n \in Names, NEW label \in IlockPCs,
                 FindsEntry(t, d, i, label, n) \/ FindsFree(t, d, i, label, n)
          PROVE  ref'[e] = ref[e]
      BY <3>5, <3>6 DEF FindsEntry, FindsFree, Finds
    <3>7. ASSUME NEW d \in Slots, DirlinkFinds(t, d) PROVE ref'[e] = ref[e]
      <4>1. Got(d, dir[name[t]]) /\ dir[name[t]] \in Inums
        BY <3>7 DEF DirlinkFinds, Got
      <4> QED BY <3>5, <4>1
    <3> QED BY StepCases, <3>3, <3>4, <3>6, <3>7 DEF IInv
  <2> QED BY <2>1, <2>2, <2>3, <2>4, <2>5, <2>7, <2>8
<1>2. CASE u = t /\ IputLock(t) /\ LastUse(put[t]) /\ pc'[t] = "itrunc"
  <2>1. pc[t] = "iput" /\ UNCHANGED <<dinode, inum, ref, put>> /\ put[t] \in valid
        /\ inode[put[t]].nlink = 0 /\ ref[put[t]] = 1
    BY <1>2 DEF IputLock, LastUse
  <2>2. dinode[inum[put[t]]].nlink = 0
    BY <2>1 DEF IInv, CopyInv
  <2> QED BY <1>2, <2>1, <2>2
<1>3. CASE u = t /\ Itrunc(t)
  <2>1. /\ pc[t] = "itrunc" /\ UNCHANGED <<dinode, inum, ref, put>>
        /\ inode' = [inode EXCEPT ![put[t]].addr = None]
    BY <1>3 DEF Itrunc
  <2>2. put[t] \in Slots /\ ref[put[t]] = 1 /\ dinode[inum[put[t]]].nlink = 0
    BY <2>1, CopyOf DEF IInv, FreeInv, FreePCs
  <2>3. inode'[put[t]].addr = None
    BY <1>0, <2>1, <2>2
  <2> QED BY <1>3, <2>1, <2>2, <2>3
<1>4. CASE u = t /\ ItruncUpdate(t)
  <2>1. pc[t] = "itrunc_update" /\ UNCHANGED <<inum, ref, put>> /\ Update(put[t], inode[put[t]])
    BY <1>4 DEF ItruncUpdate
  <2>2. /\ put[t] \in Slots /\ inum[put[t]] \in Inums
        /\ inode[put[t]].nlink = dinode[inum[put[t]]].nlink
        /\ ref[put[t]] = 1 /\ dinode[inum[put[t]]].nlink = 0 /\ inode[put[t]].addr = None
    BY <2>1, CopyOf DEF IInv, FreeInv, FreePCs
  <2>3. inode' = inode /\ dinode'[inum[put[t]]] = inode[put[t]]
    BY <1>0, <2>1, <2>2 DEF Update
  <2> QED BY <1>4, <2>1, <2>2, <2>3
<1> QED BY <1>1, <1>2, <1>3, <1>4, FreeKinds

-----------------------------------------------------------------------------
(* The last user of an inode *)

\* Somebody who uses an entry after a step has a reference to it then.
LEMMA LiveUsedNext ==
  ASSUME IInv, NEW t \in Threads, Step(t), NoFsPanic', NEW e \in Slots, Live(e)'
  PROVE  ref'[e] > 0
<1> DEFINE A == IpUsers(e)'
           B == PutUsers(e)'
           C == FdUsers(e)'
<1>1. ref'[e] = Cardinality(A) + Cardinality(B) + Cardinality(C)
  BY RefStep DEF IInv, RefInv
<1>2. IsFiniteSet(A) /\ IsFiniteSet(B) /\ IsFiniteSet(C)
  <2>1. A \subseteq Threads /\ B \subseteq Threads /\ C \subseteq Threads
    BY DEF IpUsers, PutUsers, FdUsers
  <2> QED BY <2>1, InodeAssumption, FS_Subset
<1>3. A # {} \/ B # {} \/ C # {}
  BY DEF Live
<1> HIDE DEF A, B, C
<1>4. Cardinality(A) \in Nat /\ Cardinality(B) \in Nat /\ Cardinality(C) \in Nat
  BY <1>2, FS_CardinalityType
<1>5. /\ A # {} => Cardinality(A) >= 1
      /\ B # {} => Cardinality(B) >= 1
      /\ C # {} => Cardinality(C) >= 1
  BY <1>2, Elements
<1> QED BY <1>1, <1>3, <1>4, <1>5

\* When the last user tests and does not free the inode, all others have tested:
\* it is the case that Missed records.
LEMMA RetiresMissed ==
  ASSUME IInv, NEW t \in Threads, Step(t), NoFsPanic', IputLock(t), NEW e \in Slots, e = put[t],
         Retires(t, e), ~Live(e)', dinode[inum[e]].nlink = 0
  PROVE  Missed(e)
<1>0. /\ Others(t) /\ pc[t] = "iput" /\ locked[e] = None /\ ~LastUse(e) /\ ref \in [Slots -> Nat]
      /\ pc \in [Threads -> PCs]
  BY StepOthers DEF IInv, TypeInv, IputLock, Goto, Retires
<1>1. t \in PutUsers(e)
  BY <1>0 DEF PutUsers, HasPut, PutPCs
<1>2. ref[e] > 0 /\ inum[e] \in Inums
  BY <1>0, <1>1, Referenced DEF IInv, PutUsers, EntryInv
<1>3. e \in valid
  <2> SUFFICES ASSUME e \notin valid PROVE FALSE
    OBVIOUS
  <2>1. root = t
    BY <1>0, <1>1 DEF IInv, ValidInv, PutUsers, DropPCs
  <2>2. name[t] \in Names /\ dir[name[t]] = inum[e]
    BY <1>0, <2>1 DEF IInv, RootInv, PutPCs
  <2> QED BY <1>2, <2>2, LinkCounts DEF IInv
<1>4. inode[e].nlink = 0 /\ ref[e] > 1
  <2>1. inode[e].nlink = 0
    BY <1>2, <1>3 DEF IInv, CopyInv
  <2> QED BY <1>0, <1>2, <1>3, <2>1 DEF LastUse
<1>5. IpUsers(e) = {} /\ FdUsers(e) = {} /\ \A u \in PutUsers(e) : pc'[u] \in DropPCs
  BY DEF Live, Retires, IpSame, PutSame, FdSame
<1>6. PutUsers(e) \ {t} = {u \in Threads : pc[u] = "idrop" /\ put[u] = e}
  <2>1. ASSUME NEW u \in PutUsers(e), u # t PROVE pc[u] = "idrop"
    <3>1. u \in Threads /\ put[u] = e /\ pc[u] \in DropPCs
      BY <1>0, <1>5, <2>1 DEF Others, PutUsers
    <3>2. pc[u] # "irelease"
      BY <1>0, <3>1, InodeAssumption DEF IInv, LockInv, PutLocked
    <3> QED BY <3>1, <3>2 DEF DropPCs
  <2> QED BY <1>0, <2>1 DEF PutUsers, HasPut, PutPCs
<1>7. ref[e] = Cardinality(PutUsers(e))
  BY <1>5, UsersFinite, FS_EmptySet DEF IInv, RefInv
<1>8. Cardinality(PutUsers(e) \ {t}) = Cardinality(PutUsers(e)) - 1
  BY <1>1, UsersFinite, CountChange
<1> QED BY <1>3, <1>4, <1>6, <1>7, <1>8 DEF Missed

\* What is leaked remains so.
LEMMA LeakedStep ==
  ASSUME IInv, NEW t \in Threads, Step(t), NoFsPanic'
  PROVE  leaked \subseteq leaked'
<1>1. WorkStep(t) => leaked \subseteq leaked'
  <2>1. IlockStep(t) \/ Itrunc(t) \/ ItruncUpdate(t) \/ Ifree(t) \/ IputRelease(t)
        \/ CreateEntry(t) \/ WriteCall(t) \/ WriteUpdate(t) \/ UnlinkEntry(t) \/ AddLink(t)
        \/ (\E b \in Blocks : Balloc(t, b)) => leaked' = leaked
    BY DEF IlockStep, Ilock, Itrunc, ItruncUpdate, Ifree, IputRelease, CreateEntry, WriteCall,
           WriteUpdate, UnlinkEntry, AddLink, Balloc
  <2>2. IputLock(t) => leaked \subseteq leaked'
    BY DEF IputLock
  <2> QED BY <2>1, <2>2 DEF WorkStep
<1>2. OpenFile(t) \/ PutsIp(t) \/ Close(t) \/ IputDrop(t) => leaked' = leaked
  BY DEF OpenFile, PutsIp, OpenFails, DropLink, DirlinkMakes, Dirlink, Close, IputDrop
<1>3. \A e \in Slots, i \in Inums, n \in Names, label \in IlockPCs :
         FindsEntry(t, e, i, label, n) \/ FindsFree(t, e, i, label, n) => leaked' = leaked
  BY DEF FindsEntry, FindsFree, Finds
<1>4. \A e \in Slots : DirlinkFinds(t, e) => leaked' = leaked
  BY DEF DirlinkFinds
<1> QED BY StepCases, <1>1, <1>2, <1>3, <1>4 DEF IInv

\* An allocated inode without links has a user who will see to it, unless two
\* iput() overlapped.
LEMMA LastStep ==
  ASSUME IInv, NEW t \in Threads, Step(t), NoFsPanic'
  PROVE  LastInv'
<1> SUFFICES ASSUME NEW i \in Inums, dinode'[i].type = "file", dinode'[i].nlink = 0, i \notin leaked'
             PROVE  \E e \in Slots : ref'[e] > 0 /\ inum'[e] = i /\ Live(e)'
  BY DEF LastInv
<1>1. ASSUME NEW e \in Slots, ref[e] > 0, inum[e] = i, Live(e)'
      PROVE  \E f \in Slots : ref'[f] > 0 /\ inum'[f] = i /\ Live(f)'
  BY <1>1, LiveUsedNext, EntryStep DEF IInv
<1>2. CASE dinode'[i] = dinode[i]
  <2>1. i \notin leaked
    BY LeakedStep
  <2>2. PICK e \in Slots : ref[e] > 0 /\ inum[e] = i /\ Live(e)
    BY <1>2, <2>1 DEF IInv, LastInv
  <2>3. CASE Live(e)'
    BY <1>1, <2>2, <2>3
  <2>4. CASE ~Live(e)'
    <3>1. Retires(t, e) /\ (IputLock(t) \/ Ifree(t))
      BY <2>2, <2>4, LiveStep
    <3>2. ~Ifree(t)
      <4> SUFFICES ASSUME Ifree(t) PROVE FALSE
        OBVIOUS
      <4>1. Writes(t, e, [inode[e] EXCEPT !.type = "none"])
        BY <3>1, WriteKinds DEF Retires
      <4>2. /\ dinode' = [dinode EXCEPT ![i] = [inode[e] EXCEPT !.type = "none"]]
            /\ inode[e] \in [type : {"none", "file"}, nlink : 0..MaxLink, addr : Blocks \cup {None}]
        BY <2>2, <4>1, WriterFacts
      <4>3. [inode[e] EXCEPT !.type = "none"].type = "none"
        BY <4>2
      <4> QED BY <4>2, <4>3 DEF IInv, TypeInv
    <3>3. e = put[t] /\ IputLock(t)
      BY <3>1, <3>2 DEF Retires
    <3>4. Missed(e)
      BY <1>2, <2>2, <2>4, <3>1, <3>3, RetiresMissed
    <3>5. leaked' = leaked \cup {inum[e]}
      BY <3>3, <3>4 DEF IputLock
    <3> QED BY <2>2, <3>5
  <2> QED BY <2>3, <2>4
<1>3. ASSUME NEW e \in Slots, NEW new, Writes(t, e, new), inum[e] = i, dinode'[i] = new
      PROVE  \E f \in Slots : ref'[f] > 0 /\ inum'[f] = i /\ Live(f)'
  <2>1. ref[e] > 0
    BY <1>3, WriterFacts
  <2>2. Live(e)
    BY <1>3, WriterUses DEF Live
  <2>3. pc[t] # "ifree"
    <3>1. inode[e] \in [type : {"none", "file"}, nlink : 0..MaxLink, addr : Blocks \cup {None}]
      BY <1>3, WriterFacts
    <3> QED BY <1>3, <3>1 DEF Writes
  <2>4. ~Retires(t, e)
    BY <1>3, <2>3 DEF Writes, Retires
  <2>5. Live(e)'
    BY <2>2, <2>4, LiveStep
  <2> QED BY <1>1, <1>3, <2>1, <2>5
<1>4. ASSUME NEW e \in Slots, NEW n \in Names, FindsFree(t, e, i, "create_ilock", n)
      PROVE  \E f \in Slots : ref'[f] > 0 /\ inum'[f] = i /\ Live(f)'
  <2>1. ref'[e] > 0 /\ inum'[e] = i
    BY <1>4, GotFacts DEF FindsFree, Finds, IInv
  <2>2. IpGains(t, e)
    BY <1>4, FindFrame DEF IInv, IlockPCs
  <2> QED BY <2>1, <2>2 DEF IpGains, Live
<1> QED BY DinodeAt, <1>2, <1>3, <1>4

-----------------------------------------------------------------------------
(* Link counts *)

\* A call that has counted a link and has yet to make its entry, or has erased an
\* entry and has yet to count it out.
HalfPCs == {"dirlink", "unlink_bad", "bad", "unlinked"}
Half(t) == pc[t] \in HalfPCs \/ (pc[t] \in PutPCs /\ root = t)

\* They are the calls in Uncounted, and have a reference to their inode.
LEMMA UncountedNow ==
  ASSUME TypeInv, ThreadInv, RefInv, NEW u \in Threads, NEW i \in Inums
  PROVE  /\ u \in Uncounted(i) <=> Half(u) /\ inum[ip[u]] = i
         /\ Half(u) => HasIp(u) /\ ip[u] \in Slots /\ ref[ip[u]] > 0
<1>1. Half(u) => HasIp(u)
  BY DEF Half, HalfPCs, HasIp, IpPCs, LinkPCs
<1>2. Half(u) => ip[u] \in Slots /\ ref[ip[u]] > 0 /\ ip[u] # NoSlot
  BY <1>1, Referenced DEF ThreadInv
<1> QED BY <1>1, <1>2 DEF Uncounted, Half, HalfPCs

\* After a step the same calls are half way but for the one that took it.
LEMMA UncountedStep ==
  ASSUME IInv, NEW t \in Threads, Step(t), NoFsPanic', NEW i \in Inums
  PROVE  /\ \A u \in Threads \ {t} : u \in Uncounted(i)' <=> u \in Uncounted(i)
         /\ t \in Uncounted(i) <=> Half(t) /\ inum[ip[t]] = i
         /\ HasIp(t) /\ ip'[t] = ip[t] => (t \in Uncounted(i)' <=> Half(t)' /\ inum[ip[t]] = i)
         /\ ~Half(t)' => t \notin Uncounted(i)'
<1>0. Others(t) /\ ThreadInv'
  BY StepOthers, ThreadStep DEF IInv
<1>1. \A u \in Threads : u \in Uncounted(i)' <=> Half(u)' /\ inum'[ip'[u]] = i
  <2>1. \A u \in Threads : Half(u)' => HasIp(u)'
    BY DEF Half, HalfPCs, HasIp, IpPCs, LinkPCs
  <2>2. \A u \in Threads : Half(u)' => ip'[u] # NoSlot
    BY <1>0, <2>1 DEF ThreadInv
  <2> QED BY <2>2 DEF Uncounted, Half, HalfPCs
<1>2. ASSUME NEW u \in Threads, HasIp(u) PROVE inum'[ip[u]] = inum[ip[u]]
  BY <1>2, Referenced, EntryStep DEF IInv
<1>3. ASSUME NEW u \in Threads \ {t} PROVE u \in Uncounted(i)' <=> u \in Uncounted(i)
  <2>1. (Half(u)' <=> Half(u)) /\ ip'[u] = ip[u]
    BY <1>0 DEF Others, Half
  <2>2. Half(u) => inum'[ip[u]] = inum[ip[u]]
    BY <1>2, UncountedNow DEF IInv
  <2>3. u \in Uncounted(i) <=> Half(u) /\ inum[ip[u]] = i
    BY UncountedNow DEF IInv
  <2> QED BY <1>1, <2>1, <2>2, <2>3
<1>4. t \in Uncounted(i) <=> Half(t) /\ inum[ip[t]] = i
  BY UncountedNow DEF IInv
<1> QED BY <1>1, <1>2, <1>3, <1>4

\* What a call counted stays so while it is half way and the disk and the
\* directory stay as they are.
LEMMA LinkKept ==
  ASSUME IInv, NEW t \in Threads, Step(t), NoFsPanic', dir' = dir,
         \A i \in Inums : dinode'[i].nlink = dinode[i].nlink,
         Half(t)' <=> Half(t), Half(t) => ip'[t] = ip[t]
  PROVE  LinkInv'
<1> SUFFICES ASSUME NEW i \in Inums
             PROVE  dinode'[i].nlink = Cardinality(Entries(i)') + Cardinality(Uncounted(i)')
  BY DEF LinkInv
<1>1. Entries(i)' = Entries(i)
  BY DEF Entries
<1>2. Half(t) => HasIp(t)
  BY UncountedNow DEF IInv
<1>3. \A u \in Threads : u \in Uncounted(i)' <=> u \in Uncounted(i)
  BY <1>2, UncountedStep
<1>4. Uncounted(i)' = Uncounted(i)
  <2>1. Uncounted(i) \subseteq Threads /\ Uncounted(i)' \subseteq Threads
    BY DEF Uncounted
  <2> QED BY <1>3, <2>1
<1> QED BY <1>1, <1>4 DEF IInv, LinkInv

\* Where the calls that are half way are after a step.
LEMMA UncountedSets ==
  ASSUME IInv, NEW t \in Threads, Step(t), NoFsPanic', NEW i \in Inums
  PROVE  /\ HasIp(t) /\ ip'[t] = ip[t] /\ inum[ip[t]] = i /\ ~Half(t) /\ Half(t)'
              => t \notin Uncounted(i) /\ Uncounted(i)' = Uncounted(i) \cup {t}
         /\ HasIp(t) /\ ip'[t] = ip[t] /\ inum[ip[t]] = i /\ Half(t) /\ ~Half(t)'
              => t \in Uncounted(i) /\ Uncounted(i)' = Uncounted(i) \ {t}
         /\ HasIp(t) /\ ip'[t] = ip[t] /\ inum[ip[t]] # i => Uncounted(i)' = Uncounted(i)
         /\ ~Half(t) /\ ~Half(t)' => Uncounted(i)' = Uncounted(i)
<1>1. Uncounted(i) \subseteq Threads /\ Uncounted(i)' \subseteq Threads
  BY DEF Uncounted
<1>2. \A u \in Threads \ {t} : u \in Uncounted(i)' <=> u \in Uncounted(i)
  BY UncountedStep
<1>3. t \in Uncounted(i) <=> Half(t) /\ inum[ip[t]] = i
  BY UncountedStep
<1>4. HasIp(t) /\ ip'[t] = ip[t] => (t \in Uncounted(i)' <=> Half(t)' /\ inum[ip[t]] = i)
  BY UncountedStep
<1>5. ~Half(t)' => t \notin Uncounted(i)'
  BY UncountedStep
<1> QED BY <1>1, <1>2, <1>3, <1>4, <1>5

\* The steps that leave the links alone.
LEMMA LinkSteps ==
  ASSUME IInv, NEW t \in Threads, Step(t), NoFsPanic'
  PROVE  LinkInv' \/ CreateEntry(t) \/ UnlinkEntry(t) \/ AddLink(t) \/ DropLink(t) \/ DirlinkMakes(t)
<1>0. /\ pc \in [Threads -> PCs] /\ pc'[t] # "panic" /\ t # None
      /\ ip \in [Threads -> Slots \cup {NoSlot}]
      /\ dinode \in [Inums -> [type : {"none", "file"}, nlink : 0..MaxLink, addr : Blocks \cup {None}]]
  BY InodeAssumption DEF IInv, TypeInv, NoFsPanic
<1> USE DEF Half, HalfPCs, PutPCs, Goto
<1>1. IlockStep(t) => LinkInv'
  <2> SUFFICES ASSUME IlockStep(t) PROVE LinkInv'
    OBVIOUS
  <2>1. UNCHANGED <<dir, dinode, ip, root>>
    BY DEF IlockStep, Ilock
  <2>2. Half(t)' <=> Half(t)
    BY <1>0, <2>1 DEF IlockStep, Ilock, IlockOf
  <2> QED BY <2>1, <2>2, LinkKept
<1>2. IputLock(t) \/ Itrunc(t) \/ IputRelease(t) => LinkInv'
  <2> SUFFICES ASSUME IputLock(t) \/ Itrunc(t) \/ IputRelease(t) PROVE LinkInv'
    OBVIOUS
  <2>1. UNCHANGED <<dir, dinode, ip, root>>
    BY DEF IputLock, Itrunc, IputRelease
  <2>2. Half(t)' <=> Half(t)
    BY <1>0, <2>1 DEF IputLock, Itrunc, IputRelease
  <2> QED BY <2>1, <2>2, LinkKept
<1>3. ASSUME NEW e \in Slots, NEW new, Writes(t, e, new),
             pc[t] \in {"itrunc_update", "ifree", "write", "write_update"}, NEW i \in Inums
      PROVE  dinode'[i].nlink = dinode[i].nlink
  <2>1. /\ dinode' = [dinode EXCEPT ![inum[e]] = new] /\ inode[e].nlink = dinode[inum[e]].nlink
        /\ inode[e] \in [type : {"none", "file"}, nlink : 0..MaxLink, addr : Blocks \cup {None}]
    BY <1>3, WriterFacts
  <2>2. new.nlink = inode[e].nlink
    BY <1>3, <2>1 DEF Writes
  <2> QED BY <1>0, <2>1, <2>2
<1>4. ItruncUpdate(t) \/ Ifree(t) => LinkInv'
  <2> SUFFICES ASSUME ItruncUpdate(t) \/ Ifree(t) PROVE LinkInv'
    OBVIOUS
  <2>1. UNCHANGED <<dir, ip, root>> /\ pc[t] \in {"itrunc_update", "ifree"}
    BY DEF ItruncUpdate, Ifree
  <2>2. Half(t)' <=> Half(t)
    BY <1>0, <2>1 DEF ItruncUpdate, Ifree
  <2>3. put[t] \in Slots
    BY <2>1, CopyOf DEF IInv, FreePCs
  <2>4. \A i \in Inums : dinode'[i].nlink = dinode[i].nlink
    BY <1>3, <2>1, <2>3, WriteKinds
  <2> QED BY <2>1, <2>2, <2>4, LinkKept
<1>5. WriteCall(t) \/ (\E b \in Blocks : Balloc(t, b)) => LinkInv'
  <2> SUFFICES ASSUME WriteCall(t) \/ (\E b \in Blocks : Balloc(t, b)) PROVE LinkInv'
    OBVIOUS
  <2>1. UNCHANGED <<dir, dinode>>
    BY DEF WriteCall, Balloc
  <2>2. ~Half(t)' /\ ~Half(t)
    BY <1>0 DEF WriteCall, Balloc
  <2> QED BY <2>1, <2>2, LinkKept
<1>6. WriteUpdate(t) => LinkInv'
  <2> SUFFICES ASSUME WriteUpdate(t) PROVE LinkInv'
    OBVIOUS
  <2>1. dir' = dir /\ pc[t] \in {"write", "write_update"}
    BY DEF WriteUpdate
  <2>2. ~Half(t)' /\ ~Half(t)
    BY <1>0 DEF WriteUpdate
  <2>3. ip[t] \in Slots
    BY <2>1, CopyOf DEF IInv, IpLocked
  <2>4. \A i \in Inums : dinode'[i].nlink = dinode[i].nlink
    BY <1>3, <2>1, <2>3, WriteKinds
  <2> QED BY <2>1, <2>2, <2>4, LinkKept
<1>7. OpenFile(t) \/ OpenFails(t) \/ Close(t) => LinkInv'
  <2> SUFFICES ASSUME OpenFile(t) \/ OpenFails(t) \/ Close(t) PROVE LinkInv'
    OBVIOUS
  <2>1. UNCHANGED <<dir, dinode, root>> /\ pc[t] \in {"open", "idle"}
    BY DEF OpenFile, OpenFails, Close
  <2>2. root # t
    BY <2>1 DEF IInv, RootInv, CreatePCs, UnlinkPCs, DropPCs
  <2>3. ~Half(t)' /\ ~Half(t)
    BY <1>0, <2>1, <2>2 DEF OpenFile, OpenFails, Close, PutIp
  <2> QED BY <2>1, <2>3, LinkKept
<1>8. IputDrop(t) => LinkInv'
  <2> SUFFICES ASSUME IputDrop(t) PROVE LinkInv'
    OBVIOUS
  <2>1. UNCHANGED <<dir, dinode>>
    BY DEF IputDrop
  <2>2. Half(t)' <=> Half(t)
    BY <1>0 DEF IputDrop
  <2>3. Half(t) => ip'[t] = ip[t]
    BY DEF IputDrop
  <2> QED BY <2>1, <2>2, <2>3, LinkKept
<1>9. ASSUME NEW e \in Slots, NEW i \in Inums, NEW n \in Names, NEW label \in IlockPCs,
             FindsEntry(t, e, i, label, n) \/ FindsFree(t, e, i, label, n)
      PROVE  LinkInv'
  <2>1. dir' = dir /\ pc[t] = "idle" /\ pc'[t] \in IlockPCs
    BY <1>0, <1>9 DEF FindsEntry, FindsFree, Finds
  <2>2. ~Half(t)' /\ ~Half(t)
    BY <2>1 DEF IlockPCs
  <2>3. \A j \in Inums : dinode'[j].nlink = dinode[j].nlink
    <3>1. CASE FindsEntry(t, e, i, label, n)
      BY <3>1 DEF FindsEntry
    <3>2. CASE FindsFree(t, e, i, label, n)
      <4>1. dinode[i].nlink = 0
        BY <3>2 DEF FindsFree, IInv, NoneInv
      <4>2. dinode' = [dinode EXCEPT ![i] = [type |-> "file", nlink |-> 0, addr |-> None]]
        BY <3>2 DEF FindsFree
      <4> QED BY <1>0, <4>1, <4>2
    <3> QED BY <1>9, <3>1, <3>2
  <2> QED BY <2>1, <2>2, <2>3, LinkKept
<1>10. ASSUME NEW e \in Slots, DirlinkFinds(t, e) PROVE LinkInv'
  <2>1. UNCHANGED <<dir, dinode, ip>> /\ pc[t] = "dirlink" /\ pc'[t] = "iput" /\ root' = t
    BY <1>0, <1>10 DEF DirlinkFinds
  <2> QED BY <2>1, LinkKept
<1> HIDE DEF Half
<1> QED BY StepCases, <1>1, <1>2, <1>4, <1>5, <1>6, <1>7, <1>8, <1>9, <1>10
        DEF IInv, WorkStep, PutsIp

\* The entry of one name, as the sets of entries see it.
LEMMA EntrySet ==
  ASSUME TypeInv, NEW n \in Names, NEW i \in Inums, NEW j, dir' = [dir EXCEPT ![n] = j]
  PROVE  /\ dir[n] # i /\ j = i => n \notin Entries(i) /\ Entries(i)' = Entries(i) \cup {n}
         /\ dir[n] = i /\ j # i => n \in Entries(i) /\ Entries(i)' = Entries(i) \ {n}
         /\ dir[n] # i /\ j # i => Entries(i)' = Entries(i)
<1>1. dir \in [Names -> Inums \cup {None}]
  BY DEF TypeInv
<1>2. \A m \in Names : dir'[m] = IF m = n THEN j ELSE dir[m]
  BY <1>1
<1> QED BY <1>2 DEF Entries

\* A link count is the number of entries and of the calls that are half way.
LEMMA LinkStep ==
  ASSUME IInv, NEW t \in Threads, Step(t), NoFsPanic'
  PROVE  LinkInv'
<1>0. /\ pc \in [Threads -> PCs] /\ pc'[t] # "panic" /\ t # None /\ None \notin Inums
      /\ ip \in [Threads -> Slots \cup {NoSlot}]
      /\ dinode \in [Inums -> [type : {"none", "file"}, nlink : 0..MaxLink, addr : Blocks \cup {None}]]
  BY InodeAssumption DEF IInv, TypeInv, NoFsPanic
<1>1. ASSUME CreateEntry(t) \/ UnlinkEntry(t) \/ AddLink(t) \/ DropLink(t) \/ DirlinkMakes(t)
      PROVE  /\ HasIp(t) /\ ip[t] \in Slots /\ inum[ip[t]] \in Inums /\ ip' = ip
  <2>1. ip' = ip /\ pc[t] \in {"create", "unlink", "link", "unlinked", "bad", "dirlink"}
    BY <1>1 DEF CreateEntry, UnlinkEntry, AddLink, DropLink, DirlinkMakes, Dirlink
  <2>2. HasIp(t)
    BY <2>1 DEF HasIp, IpPCs, CreatePCs, UnlinkPCs, LinkPCs
  <2> QED BY <2>1, <2>2, Referenced DEF IInv, EntryInv
<1>2. ASSUME NEW i \in Inums
      PROVE  /\ dinode[i].nlink = Cardinality(Entries(i)) + Cardinality(Uncounted(i))
             /\ IsFiniteSet(Entries(i)) /\ IsFiniteSet(Uncounted(i))
             /\ Cardinality(Entries(i)) \in Nat /\ Cardinality(Uncounted(i)) \in Nat
  BY LinkCounts, FS_CardinalityType DEF IInv, LinkInv
<1>3. ASSUME NEW new, Writes(t, ip[t], new), ip[t] \in Slots, inum[ip[t]] \in Inums
      PROVE  /\ dinode'[inum[ip[t]]].nlink = new.nlink
             /\ \A i \in Inums : i # inum[ip[t]] => dinode'[i] = dinode[i]
             /\ inode[ip[t]].nlink = dinode[inum[ip[t]]].nlink
             /\ inode[ip[t]] \in [type : {"none", "file"}, nlink : 0..MaxLink,
                                  addr : Blocks \cup {None}]
  <2>1. /\ dinode' = [dinode EXCEPT ![inum[ip[t]]] = new]
        /\ inode[ip[t]].nlink = dinode[inum[ip[t]]].nlink
        /\ inode[ip[t]] \in [type : {"none", "file"}, nlink : 0..MaxLink,
                             addr : Blocks \cup {None}]
    BY <1>3, WriterFacts
  <2> QED BY <1>0, <1>3, <2>1
<1> DEFINE Counts(i) == dinode'[i].nlink = Cardinality(Entries(i)') + Cardinality(Uncounted(i)')
<1>4. ASSUME CreateEntry(t), NEW i \in Inums PROVE Counts(i)
  <2>1. /\ pc[t] = "create" /\ pc'[t] = "open" /\ dir' = [dir EXCEPT ![name[t]] = inum[ip[t]]]
        /\ dir[name[t]] = None /\ name[t] \in Names /\ dinode[inum[ip[t]]].nlink = 0
    BY <1>0, <1>4 DEF CreateEntry, Goto, IInv, RootInv, CreateInv, CreatePCs
  <2>2. Uncounted(i)' = Uncounted(i)
    <3>1. ~Half(t) /\ ~Half(t)'
      BY <2>1 DEF Half, HalfPCs, PutPCs
    <3> QED BY <3>1, UncountedSets
  <2>3. Writes(t, ip[t], [inode[ip[t]] EXCEPT !.nlink = 1])
    BY <1>4, WriteKinds
  <2>4. /\ dinode'[inum[ip[t]]].nlink = 1
        /\ \A j \in Inums : j # inum[ip[t]] => dinode'[j] = dinode[j]
    BY <1>1, <1>3, <1>4, <2>3
  <2>5. IF i = inum[ip[t]] THEN name[t] \notin Entries(i) /\ Entries(i)' = Entries(i) \cup {name[t]}
                           ELSE Entries(i)' = Entries(i)
    <3> DEFINE j == inum[ip[t]]
    <3>1. dir' = [dir EXCEPT ![name[t]] = j] /\ name[t] \in Names /\ dir[name[t]] # i /\ TypeInv
      BY <1>0, <2>1 DEF IInv
    <3> HIDE DEF j
    <3>2. /\ j = i => name[t] \notin Entries(i) /\ Entries(i)' = Entries(i) \cup {name[t]}
          /\ j # i => Entries(i)' = Entries(i)
      BY <3>1, EntrySet
    <3> QED BY <3>2 DEF j
  <2>6. i = inum[ip[t]] => Cardinality(Entries(i)') = Cardinality(Entries(i)) + 1
    BY <1>2, <2>5, CountChange
  <2> QED BY <1>2, <2>1, <2>2, <2>4, <2>5, <2>6
<1>5. ASSUME UnlinkEntry(t), NEW i \in Inums PROVE Counts(i)
  <2>1. /\ pc[t] = "unlink" /\ pc'[t] = "unlinked" /\ dir' = [dir EXCEPT ![name[t]] = None]
        /\ dir[name[t]] = inum[ip[t]] /\ name[t] \in Names /\ dinode' = dinode
    BY <1>0, <1>5 DEF UnlinkEntry, Goto, IInv, RootInv, UnlinkPCs
  <2>2. ~Half(t) /\ Half(t)'
    BY <2>1 DEF Half, HalfPCs, PutPCs
  <2>3. HasIp(t) /\ ip'[t] = ip[t]
    BY <1>1, <1>5
  <2>4. IF i = inum[ip[t]]
        THEN t \notin Uncounted(i) /\ Uncounted(i)' = Uncounted(i) \cup {t}
        ELSE Uncounted(i)' = Uncounted(i)
    BY <2>2, <2>3, UncountedSets
  <2>5. IF i = inum[ip[t]] THEN name[t] \in Entries(i) /\ Entries(i)' = Entries(i) \ {name[t]}
                           ELSE Entries(i)' = Entries(i)
    <3>1. dir' = [dir EXCEPT ![name[t]] = None] /\ name[t] \in Names /\ None # i /\ TypeInv
      BY <1>0, <2>1 DEF IInv
    <3>2. /\ dir[name[t]] = i => name[t] \in Entries(i) /\ Entries(i)' = Entries(i) \ {name[t]}
          /\ dir[name[t]] # i => Entries(i)' = Entries(i)
      BY <3>1, EntrySet
    <3> QED BY <2>1, <3>2
  <2>6. i = inum[ip[t]] => Cardinality(Entries(i)') = Cardinality(Entries(i)) - 1
    BY <1>2, <2>5, CountChange
  <2>7. i = inum[ip[t]] => Cardinality(Uncounted(i)') = Cardinality(Uncounted(i)) + 1
    BY <1>2, <2>4, CountChange
  <2> QED BY <1>2, <2>1, <2>4, <2>5, <2>6, <2>7
<1>6. ASSUME AddLink(t), NEW i \in Inums PROVE Counts(i)
  <2>1. pc[t] = "link" /\ pc'[t] = "dirlink" /\ dir' = dir
    BY <1>0, <1>6 DEF AddLink, Goto
  <2>2. ~Half(t) /\ Half(t)'
    BY <2>1 DEF Half, HalfPCs, PutPCs
  <2>3. HasIp(t) /\ ip'[t] = ip[t]
    BY <1>1, <1>6
  <2>4. IF i = inum[ip[t]]
        THEN t \notin Uncounted(i) /\ Uncounted(i)' = Uncounted(i) \cup {t}
        ELSE Uncounted(i)' = Uncounted(i)
    BY <2>2, <2>3, UncountedSets
  <2>5. Writes(t, ip[t], [inode[ip[t]] EXCEPT !.nlink = @ + 1])
    BY <1>6, WriteKinds
  <2>6. /\ dinode'[inum[ip[t]]].nlink = dinode[inum[ip[t]]].nlink + 1
        /\ \A j \in Inums : j # inum[ip[t]] => dinode'[j] = dinode[j]
    BY <1>1, <1>3, <1>6, <2>5
  <2>7. i = inum[ip[t]] => Cardinality(Uncounted(i)') = Cardinality(Uncounted(i)) + 1
    BY <1>2, <2>4, CountChange
  <2>8. Entries(i)' = Entries(i)
    BY <2>1 DEF Entries
  <2> QED BY <1>2, <2>4, <2>6, <2>7, <2>8
<1>7. ASSUME DropLink(t), NEW i \in Inums PROVE Counts(i)
  <2>1. pc[t] \in {"unlinked", "bad"} /\ pc'[t] = "iput" /\ dir' = dir /\ root' # t
    <3>1. PutsIp(t)
      BY <1>7 DEF PutsIp
    <3> QED BY <1>0, <1>7, <3>1, PutsIpFrame DEF DropLink, IInv
  <2>2. Half(t) /\ ~Half(t)'
    BY <2>1 DEF Half, HalfPCs
  <2>3. HasIp(t) /\ ip'[t] = ip[t]
    BY <1>1, <1>7
  <2>4. IF i = inum[ip[t]]
        THEN t \in Uncounted(i) /\ Uncounted(i)' = Uncounted(i) \ {t}
        ELSE Uncounted(i)' = Uncounted(i)
    BY <2>2, <2>3, UncountedSets
  <2>5. Writes(t, ip[t], [inode[ip[t]] EXCEPT !.nlink = @ - 1])
    BY <1>7, WriteKinds
  <2>6. /\ dinode'[inum[ip[t]]].nlink = dinode[inum[ip[t]]].nlink - 1
        /\ \A j \in Inums : j # inum[ip[t]] => dinode'[j] = dinode[j]
    BY <1>1, <1>3, <1>7, <2>5
  <2>7. i = inum[ip[t]] => Cardinality(Uncounted(i)') = Cardinality(Uncounted(i)) - 1
    BY <1>2, <2>4, CountChange
  <2>8. Entries(i)' = Entries(i)
    BY <2>1 DEF Entries
  <2> QED BY <1>2, <2>4, <2>6, <2>7, <2>8
<1>8. ASSUME DirlinkMakes(t), NEW i \in Inums PROVE Counts(i)
  <2>1. /\ pc[t] = "dirlink" /\ pc'[t] = "iput" /\ dir' = [dir EXCEPT ![name[t]] = inum[ip[t]]]
        /\ dir[name[t]] = None /\ name[t] \in Names /\ root' # t /\ dinode' = dinode
    <3>1. PutsIp(t)
      BY <1>8 DEF PutsIp
    <3>2. pc'[t] = "iput" /\ root' # t
      BY <1>0, <3>1, PutsIpFrame DEF IInv
    <3> QED BY <1>8, <3>2 DEF DirlinkMakes, Dirlink, IInv, ThreadInv, LinkPCs
  <2>2. Half(t) /\ ~Half(t)'
    BY <2>1 DEF Half, HalfPCs
  <2>3. HasIp(t) /\ ip'[t] = ip[t]
    BY <1>1, <1>8
  <2>4. IF i = inum[ip[t]]
        THEN t \in Uncounted(i) /\ Uncounted(i)' = Uncounted(i) \ {t}
        ELSE Uncounted(i)' = Uncounted(i)
    BY <2>2, <2>3, UncountedSets
  <2>5. IF i = inum[ip[t]] THEN name[t] \notin Entries(i) /\ Entries(i)' = Entries(i) \cup {name[t]}
                           ELSE Entries(i)' = Entries(i)
    <3> DEFINE j == inum[ip[t]]
    <3>1. dir' = [dir EXCEPT ![name[t]] = j] /\ name[t] \in Names /\ dir[name[t]] # i /\ TypeInv
      BY <1>0, <2>1 DEF IInv
    <3> HIDE DEF j
    <3>2. /\ j = i => name[t] \notin Entries(i) /\ Entries(i)' = Entries(i) \cup {name[t]}
          /\ j # i => Entries(i)' = Entries(i)
      BY <3>1, EntrySet
    <3> QED BY <3>2 DEF j
  <2>6. i = inum[ip[t]] => Cardinality(Entries(i)') = Cardinality(Entries(i)) + 1
    BY <1>2, <2>5, CountChange
  <2>7. i = inum[ip[t]] => Cardinality(Uncounted(i)') = Cardinality(Uncounted(i)) - 1
    BY <1>2, <2>4, CountChange
  <2> QED BY <1>2, <2>1, <2>4, <2>5, <2>6, <2>7
<1>9. CASE CreateEntry(t) \/ UnlinkEntry(t) \/ AddLink(t) \/ DropLink(t) \/ DirlinkMakes(t)
  <2>1. \A i \in Inums : Counts(i)
    <3> HIDE DEF Counts
    <3> QED BY <1>4, <1>5, <1>6, <1>7, <1>8, <1>9
  <2> QED BY <2>1 DEF LinkInv
<1> QED BY <1>9, LinkSteps

-----------------------------------------------------------------------------
(* Blocks *)

\* The block of an inode before and after a step.
LEMMA BlockNow ==
  ASSUME IInv, NEW i \in Inums
  PROVE  /\ \A e \in Slots : ref[e] > 0 /\ inum[e] = i
               => Block(i) = IF e \in valid THEN inode[e].addr ELSE dinode[i].addr
         /\ (\A e \in Slots : ~(ref[e] > 0 /\ inum[e] = i)) => Block(i) = dinode[i].addr
<1>1. ASSUME NEW e \in Slots, ref[e] > 0, inum[e] = i
      PROVE  Block(i) = IF e \in valid THEN inode[e].addr ELSE dinode[i].addr
  <2>1. Cached(i) = {e}
    BY <1>1 DEF IInv, EntryInv, Cached
  <2> QED BY <2>1 DEF Block
<1>2. ASSUME \A e \in Slots : ~(ref[e] > 0 /\ inum[e] = i) PROVE Block(i) = dinode[i].addr
  <2>1. Cached(i) = {}
    BY <1>2 DEF Cached
  <2> QED BY <2>1, BlockUncached
<1> QED BY <1>1, <1>2

\* The same of the state after it.
LEMMA BlockNext ==
  ASSUME IInv, NEW t \in Threads, Step(t), NoFsPanic', NEW i \in Inums
  PROVE  /\ \A e \in Slots : ref'[e] > 0 /\ inum'[e] = i
               => Block(i)' = IF e \in valid' THEN inode'[e].addr ELSE dinode'[i].addr
         /\ (\A e \in Slots : ~(ref'[e] > 0 /\ inum'[e] = i)) => Block(i)' = dinode'[i].addr
<1>1. ASSUME NEW e \in Slots, ref'[e] > 0, inum'[e] = i
      PROVE  Block(i)' = IF e \in valid' THEN inode'[e].addr ELSE dinode'[i].addr
  <2>1. EntryInv'
    BY EntryStep DEF IInv
  <2>2. Cached(i)' = {e}
    BY <1>1, <2>1 DEF EntryInv, Cached
  <2> QED BY <2>2 DEF Block
<1>2. ASSUME \A e \in Slots : ~(ref'[e] > 0 /\ inum'[e] = i) PROVE Block(i)' = dinode'[i].addr
  <2>1. Cached(i)' = {}
    BY <1>2 DEF Cached
  <2> QED BY <2>1 DEF Block
<1> QED BY <1>1, <1>2

\* It stays the same when its entry and the inode on disk do.
LEMMA BlockSame ==
  ASSUME IInv, NEW t \in Threads, Step(t), NoFsPanic', NEW i \in Inums,
         dinode'[i].addr = dinode[i].addr,
         \A e \in Slots : ref[e] > 0 /\ inum[e] = i =>
            /\ ref'[e] > 0
            /\ e \in valid' <=> e \in valid
            /\ e \in valid => inode'[e].addr = inode[e].addr,
         \A e \in Slots : ref'[e] > 0 /\ inum'[e] = i => ref[e] > 0 /\ inum[e] = i
  PROVE  Block(i)' = Block(i)
<1>1. CASE \A e \in Slots : ~(ref[e] > 0 /\ inum[e] = i)
  <2>1. Block(i) = dinode[i].addr
    BY <1>1, BlockNow
  <2>2. Block(i)' = dinode'[i].addr
    BY <1>1, BlockNext
  <2> QED BY <2>1, <2>2
<1>2. ASSUME NEW e \in Slots, ref[e] > 0, inum[e] = i PROVE Block(i)' = Block(i)
  <2>1. inum'[e] = i
    BY <1>2, EntryStep DEF IInv
  <2>2. Block(i) = IF e \in valid THEN inode[e].addr ELSE dinode[i].addr
    BY <1>2, BlockNow
  <2>3. Block(i)' = IF e \in valid' THEN inode'[e].addr ELSE dinode'[i].addr
    BY <1>2, <2>1, BlockNext
  <2> QED BY <1>2, <2>2, <2>3
<1> QED BY <1>1, <1>2

\* ilock() reads the block the disk knows.
LEMMA BlockIlock ==
  ASSUME IInv, NEW t \in Threads, Step(t), NoFsPanic', IlockStep(t), NEW i \in Inums
  PROVE  Block(i)' = Block(i)
<1>0. /\ ip[t] \in Slots /\ UNCHANGED <<dinode, inum, ref>> /\ valid' = valid \cup {ip[t]}
      /\ inode' = IF ip[t] \in valid THEN inode ELSE [inode EXCEPT ![ip[t]] = dinode[inum[ip[t]]]]
      /\ inode \in [Slots -> [type : {"none", "file"}, nlink : 0..MaxLink, addr : Blocks \cup {None}]]
      /\ ref[ip[t]] > 0
  <2>1. HasIp(t) \/ pc[t] \in WritePCs
    BY DEF IlockStep, Ilock, IlockOf, HasIp, IpPCs, CreatePCs, UnlinkPCs, LinkPCs, WritePCs
  <2> QED BY <2>1, Referenced DEF IlockStep, Ilock, IInv, TypeInv
<1>1. CASE ip[t] \in valid \/ inum[ip[t]] # i
  <2>1. \A e \in Slots : inum[e] = i => (e \in valid' <=> e \in valid) /\ inode'[e] = inode[e]
    BY <1>0, <1>1
  <2> QED BY <1>0, <2>1, BlockSame
<1>2. CASE ip[t] \notin valid /\ inum[ip[t]] = i
  <2>1. Block(i) = dinode[i].addr
    BY <1>0, <1>2, BlockNow
  <2>2. Block(i)' = inode'[ip[t]].addr
    BY <1>0, <1>2, BlockNext
  <2> QED BY <1>0, <1>2, <2>1, <2>2
<1> QED BY <1>1, <1>2

\* iupdate() writes the block of the copy.
LEMMA BlockWritten ==
  ASSUME IInv, NEW t \in Threads, Step(t), NoFsPanic', NEW d \in Slots, NEW new, Writes(t, d, new),
         NEW i \in Inums
  PROVE  Block(i)' = Block(i)
<1>0. /\ d \in valid /\ ref[d] > 0 /\ inum[d] \in Inums /\ new.addr = inode[d].addr
      /\ dinode' = [dinode EXCEPT ![inum[d]] = new] /\ inode' = [inode EXCEPT ![d] = new]
      /\ UNCHANGED <<inum, ref>> /\ (valid' = valid \/ valid' = valid \ {d})
      /\ inode \in [Slots -> [type : {"none", "file"}, nlink : 0..MaxLink, addr : Blocks \cup {None}]]
      /\ dinode \in [Inums -> [type : {"none", "file"}, nlink : 0..MaxLink, addr : Blocks \cup {None}]]
  <2>1. UNCHANGED <<inum, ref>> /\ (valid' = valid \/ valid' = valid \ {d})
    BY DEF Writes
  <2> QED BY <2>1, WriterFacts DEF IInv, TypeInv
<1>1. CASE inum[d] # i
  <2>1. \A e \in Slots : inum[e] = i => (e \in valid' <=> e \in valid) /\ inode'[e] = inode[e]
    BY <1>0, <1>1
  <2>2. dinode'[i] = dinode[i]
    BY <1>0, <1>1
  <2> QED BY <1>0, <2>1, <2>2, BlockSame
<1>2. CASE inum[d] = i
  <2>1. Block(i) = inode[d].addr
    BY <1>0, <1>2, BlockNow
  <2>2. Block(i)' = IF d \in valid' THEN inode'[d].addr ELSE dinode'[i].addr
    BY <1>0, <1>2, BlockNext
  <2> QED BY <1>0, <1>2, <2>1, <2>2
<1> QED BY <1>1, <1>2

\* The last reference is dropped when nobody is updating the copy.
LEMMA BlockDropped ==
  ASSUME IInv, NEW t \in Threads, Step(t), NoFsPanic', IputDrop(t), NEW i \in Inums
  PROVE  Block(i)' = Block(i)
<1>0. /\ put[t] \in Slots /\ UNCHANGED <<dinode, inum, valid, inode>>
      /\ ref' = [ref EXCEPT ![put[t]] = @ - 1] /\ ref \in [Slots -> Nat] /\ pc[t] = "idrop"
      /\ t \in PutUsers(put[t]) /\ ref[put[t]] > 0
  <2>1. HasPut(t)
    BY DEF IputDrop, HasPut, PutPCs
  <2> QED BY <2>1, Referenced DEF IputDrop, IInv, TypeInv, PutUsers
<1>1. CASE inum[put[t]] # i \/ ref[put[t]] > 1
  <2>1. \A e \in Slots : inum[e] = i => (ref'[e] > 0 <=> ref[e] > 0)
    BY <1>0, <1>1
  <2> QED BY <1>0, <2>1, BlockSame
<1>2. CASE inum[put[t]] = i /\ ref[put[t]] = 1
  <2>1. PICK e \in Slots : e = put[t]
    BY <1>0
  <2>2. ref'[e] = 0 /\ \A f \in Slots : f # e => ref'[f] = ref[f]
    BY <1>0, <1>2, <2>1
  <2>3. \A f \in Slots : ~(ref'[f] > 0 /\ inum'[f] = i)
    BY <1>0, <1>2, <2>1, <2>2 DEF IInv, EntryInv
  <2>4. Block(i)' = dinode[i].addr
    BY <1>0, <2>3, BlockNext
  <2>5. Updating(e) = {}
    <3>1. PutUsers(e) = {t} /\ FdUsers(e) = {}
      BY <1>0, <1>2, <2>1, UserFacts DEF IInv
    <3>2. ASSUME NEW u \in Threads, pc[u] = "itrunc_update", put[u] = e PROVE FALSE
      <4>1. u \in PutUsers(e)
        BY <3>2 DEF PutUsers, HasPut, PutPCs
      <4> QED BY <1>0, <3>1, <3>2, <4>1
    <3>3. ASSUME NEW u \in Threads, pc[u] = "write_update", ip[u] = e PROVE FALSE
      <4>1. fd[u] = e
        BY <3>3 DEF IInv, ThreadInv, WritePCs
      <4> QED BY <3>1, <4>1 DEF FdUsers
    <3> QED BY <3>2, <3>3 DEF Updating
  <2>6. Block(i) = IF e \in valid THEN inode[e].addr ELSE dinode[i].addr
    BY <1>0, <1>2, <2>1, BlockNow
  <2>7. e \in valid => inode[e].addr = dinode[i].addr
    BY <1>0, <1>2, <2>1, <2>5 DEF IInv, CopyInv
  <2> QED BY <2>4, <2>6, <2>7
<1>3. ref[put[t]] > 1 \/ ref[put[t]] = 1
  BY <1>0
<1> QED BY <1>1, <1>2, <1>3

\* iget() makes an entry whose copy is not valid, or shares one.
LEMMA BlockGot ==
  ASSUME IInv, NEW t \in Threads, Step(t), NoFsPanic', NEW d \in Slots, NEW j \in Inums, Got(d, j),
         inode' = inode, NEW i \in Inums, dinode'[i].addr = dinode[i].addr
  PROVE  Block(i)' = Block(i)
<1>0. /\ inum'[d] = j /\ ref'[d] > 0
      /\ \A f \in Slots \ {d} : /\ inum'[f] = inum[f] /\ ref'[f] = ref[f]
                                /\ f \in valid' <=> f \in valid
  BY GotFacts DEF IInv
<1>1. CASE ref[d] > 0
  <2>1. inum[d] = j /\ valid' = valid
    BY <1>1 DEF Got
  <2> QED BY <1>0, <1>1, <2>1, BlockSame
<1>2. CASE ref[d] = 0
  <2>1. Cached(j) = {} /\ d \notin valid'
    BY <1>2 DEF Got
  <2>2. CASE i = j
    <3>1. Block(i) = dinode[i].addr
      BY <2>1, <2>2, BlockUncached
    <3>2. Block(i)' = dinode'[i].addr
      BY <1>0, <2>1, <2>2, BlockNext
    <3> QED BY <3>1, <3>2
  <2>3. CASE i # j
    BY <1>0, <1>2, <2>3, BlockSame
  <2> QED BY <2>2, <2>3
<1>3. ref[d] > 0 \/ ref[d] = 0
  BY GotFacts DEF IInv
<1> QED BY <1>1, <1>2, <1>3

\* Only itrunc() and balloc() change the block of an inode.
LEMMA BlockKept ==
  ASSUME IInv, NEW t \in Threads, Step(t), NoFsPanic', NEW i \in Inums, ~Itrunc(t),
         \A b \in Blocks : ~Balloc(t, b)
  PROVE  Block(i)' = Block(i)
<1>1. UNCHANGED <<dinode, inum, ref, valid, inode>> => Block(i)' = Block(i)
  BY DEF Block, Cached
<1>2. IputLock(t) \/ IputRelease(t) \/ WriteCall(t) \/ UnlinkEntry(t) \/ OpenFile(t)
      \/ OpenFails(t) \/ Close(t) \/ DirlinkMakes(t)
      => UNCHANGED <<dinode, inum, ref, valid, inode>>
  BY DEF IputLock, IputRelease, WriteCall, UnlinkEntry, OpenFile, OpenFails, Close,
         DirlinkMakes, Dirlink, cache
<1>3. IlockStep(t) => Block(i)' = Block(i)
  BY BlockIlock
<1>4. ItruncUpdate(t) \/ Ifree(t) \/ WriteUpdate(t) \/ CreateEntry(t) \/ DropLink(t) \/ AddLink(t)
      => Block(i)' = Block(i)
  <2>1. ASSUME NEW e, NEW new, Writes(t, e, new) PROVE Block(i)' = Block(i)
    <3>1. e \in Slots
      BY <2>1, WriterFacts
    <3> QED BY <2>1, <3>1, BlockWritten
  <2> QED BY <2>1, WriteKinds
<1>5. IputDrop(t) => Block(i)' = Block(i)
  BY BlockDropped
<1>6. ASSUME NEW e \in Slots, NEW j \in Inums, NEW n \in Names, NEW label \in IlockPCs,
             FindsEntry(t, e, j, label, n) \/ FindsFree(t, e, j, label, n)
      PROVE  Block(i)' = Block(i)
  <2>1. Got(e, j) /\ inode' = inode
    BY <1>6 DEF FindsEntry, FindsFree, Finds
  <2>2. dinode'[i].addr = dinode[i].addr
    <3>1. CASE FindsEntry(t, e, j, label, n)
      BY <3>1 DEF FindsEntry
    <3>2. CASE FindsFree(t, e, j, label, n)
      <4>1. dinode[j].addr = None
        BY <3>2 DEF FindsFree, IInv, NoneInv
      <4>2. dinode' = [dinode EXCEPT ![j] = [type |-> "file", nlink |-> 0, addr |-> None]]
        BY <3>2 DEF FindsFree
      <4> QED BY <4>1, <4>2 DEF IInv, TypeInv
    <3> QED BY <1>6, <3>1, <3>2
  <2> QED BY <2>1, <2>2, BlockGot
<1>7. ASSUME NEW e \in Slots, DirlinkFinds(t, e) PROVE Block(i)' = Block(i)
  <2>1. Got(e, dir[name[t]]) /\ dir[name[t]] \in Inums /\ UNCHANGED <<inode, dinode>>
    BY <1>7 DEF DirlinkFinds, Got
  <2> QED BY <2>1, BlockGot
<1> QED BY StepCases, <1>1, <1>2, <1>3, <1>4, <1>5, <1>6, <1>7 DEF IInv, WorkStep, PutsIp

\* The bitmap stays as it is where the blocks do.
LEMMA BitmapKept ==
  ASSUME IInv, NEW t \in Threads, Step(t), NoFsPanic', ~Itrunc(t), \A b \in Blocks : ~Balloc(t, b)
  PROVE  bitmap' = bitmap
<1>1. WorkStep(t) => bitmap' = bitmap
  BY DEF WorkStep, IlockStep, Ilock, IputLock, ItruncUpdate, Ifree, IputRelease, CreateEntry,
         WriteCall, WriteUpdate, UnlinkEntry, AddLink
<1>2. OpenFile(t) \/ PutsIp(t) \/ Close(t) \/ IputDrop(t) => bitmap' = bitmap
  BY DEF OpenFile, PutsIp, OpenFails, DropLink, DirlinkMakes, Dirlink, Close, IputDrop
<1>3. \A e \in Slots, i \in Inums, n \in Names, label \in IlockPCs :
         FindsEntry(t, e, i, label, n) \/ FindsFree(t, e, i, label, n) => bitmap' = bitmap
  BY DEF FindsEntry, FindsFree, Finds
<1>4. \A e \in Slots : DirlinkFinds(t, e) => bitmap' = bitmap
  BY DEF DirlinkFinds
<1> QED BY StepCases, <1>1, <1>2, <1>3, <1>4 DEF IInv

\* A change of the copy's block under the entry's lock.
LEMMA BlockChanged ==
  ASSUME IInv, NEW t \in Threads, Step(t), NoFsPanic', NEW d \in Slots \cap valid, ref[d] > 0,
         NEW b, inode' = [inode EXCEPT ![d].addr = b], UNCHANGED <<dinode, inum, ref, valid>>,
         NEW i \in Inums
  PROVE  /\ inum[d] # i => Block(i)' = Block(i)
         /\ inum[d] = i => Block(i) = inode[d].addr /\ Block(i)' = b
<1>0. inode \in [Slots -> [type : {"none", "file"}, nlink : 0..MaxLink, addr : Blocks \cup {None}]]
  BY DEF IInv, TypeInv
<1>1. CASE inum[d] # i
  <2>1. \A e \in Slots : inum[e] = i => inode'[e] = inode[e]
    BY <1>0, <1>1
  <2> QED BY <1>1, <2>1, BlockSame
<1>2. CASE inum[d] = i
  <2>1. Block(i) = inode[d].addr
    BY <1>2, BlockNow
  <2>2. Block(i)' = inode'[d].addr
    BY <1>2, BlockNext
  <2> QED BY <1>0, <1>2, <2>1, <2>2
<1> QED BY <1>1, <1>2

\* The blocks of the inodes are those the bitmap marks, and no two have the same.
LEMMA BlockStep ==
  ASSUME IInv, NEW t \in Threads, Step(t), NoFsPanic'
  PROVE  BlockInv'
<1>0. /\ bitmap = {Block(i) : i \in Inums} \ {None}
      /\ \A i, j \in Inums : i # j /\ Block(i) # None => Block(i) # Block(j)
  BY DEF IInv, BlockInv
<1>1. ASSUME Itrunc(t) PROVE BlockInv'
  <2>1. /\ put[t] \in Slots \cap valid /\ ref[put[t]] > 0 /\ inum[put[t]] \in Inums
        /\ inode' = [inode EXCEPT ![put[t]].addr = None] /\ UNCHANGED <<dinode, inum, ref, valid>>
        /\ bitmap' = bitmap \ {inode[put[t]].addr}
    BY <1>1, CopyOf, LockedValid DEF Itrunc, IInv, FreePCs
  <2>2. PICK k \in Inums : k = inum[put[t]]
    BY <2>1
  <2>3. Block(k)' = None /\ bitmap' = bitmap \ {Block(k)}
        /\ \A i \in Inums : i # k => Block(i)' = Block(i)
    BY <2>1, <2>2, BlockChanged
  <2>4. bitmap' = {Block(i)' : i \in Inums} \ {None}
    BY <1>0, <2>3
  <2>5. \A i, j \in Inums : i # j /\ Block(i)' # None => Block(i)' # Block(j)'
    BY <1>0, <2>3
  <2> QED BY <2>4, <2>5 DEF BlockInv
<1>2. ASSUME NEW b \in Blocks, Balloc(t, b) PROVE BlockInv'
  <2>1. /\ ip[t] \in Slots \cap valid /\ ref[ip[t]] > 0 /\ inum[ip[t]] \in Inums
        /\ inode' = [inode EXCEPT ![ip[t]].addr = b] /\ UNCHANGED <<dinode, inum, ref, valid>>
        /\ inode[ip[t]].addr = None /\ b \notin bitmap /\ bitmap' = bitmap \cup {b} /\ b # None
    BY <1>2, CopyOf, LockedValid, InodeAssumption DEF Balloc, IInv, IpLocked
  <2>2. PICK k \in Inums : k = inum[ip[t]]
    BY <2>1
  <2>3. /\ Block(k)' = b /\ Block(k) = None /\ b \notin bitmap /\ bitmap' = bitmap \cup {b}
        /\ \A i \in Inums : i # k => Block(i)' = Block(i)
    BY <2>1, <2>2, BlockChanged
  <2>4. bitmap' = {Block(i)' : i \in Inums} \ {None}
    BY <1>0, <2>1, <2>3
  <2>5. \A i, j \in Inums : i # j /\ Block(i)' # None => Block(i)' # Block(j)'
    BY <1>0, <2>1, <2>3
  <2> QED BY <2>4, <2>5 DEF BlockInv
<1>3. ASSUME ~Itrunc(t), \A b \in Blocks : ~Balloc(t, b) PROVE BlockInv'
  <2>1. \A i \in Inums : Block(i)' = Block(i)
    BY <1>3, BlockKept
  <2>2. bitmap' = bitmap
    BY <1>3, BitmapKept
  <2> QED BY <1>0, <2>1, <2>2 DEF BlockInv
<1> QED BY <1>1, <1>2, <1>3

-----------------------------------------------------------------------------
(* The invariant *)

\* It holds at the start, and a step that does not panic keeps it.
LEMMA InitIInv ==
  ASSUME Init
  PROVE  IInv /\ NoFsPanic
<1>0. /\ NINODE \in Nat \ {0} /\ MaxLink \in Nat \ {0} /\ None \notin Threads /\ None \notin Inums
      /\ \A e \in Slots : e # NoSlot
  BY InodeAssumption DEF Slots, NoSlot
<1>1. TypeInv
  BY <1>0 DEF Init, TypeInv, Free, PCs
<1>2. \A t \in Threads : pc[t] = "idle" /\ fd[t] = NoSlot /\ ~HasIp(t) /\ ~HasPut(t)
  BY DEF Init, HasIp, HasPut, IpPCs, CreatePCs, UnlinkPCs, LinkPCs, PutPCs
<1>3. ThreadInv /\ NoFsPanic
  BY <1>2 DEF ThreadInv, NoFsPanic, WritePCs, CreatePCs, LinkPCs
<1>4. RootInv
  BY <1>0, <1>2 DEF RootInv, Init, CreatePCs, UnlinkPCs, PutPCs
<1>5. LockInv
  BY <1>0, <1>2 DEF LockInv, Init, IpLocked, PutLocked, FreePCs
<1>6. RefInv
  <2> SUFFICES ASSUME NEW e \in Slots
               PROVE  ref[e] = Cardinality(IpUsers(e)) + Cardinality(PutUsers(e))
                               + Cardinality(FdUsers(e))
    BY DEF RefInv
  <2>1. IpUsers(e) = {} /\ PutUsers(e) = {} /\ FdUsers(e) = {}
    BY <1>0, <1>2 DEF IpUsers, PutUsers, FdUsers
  <2>2. ref[e] = 0
    BY DEF Init
  <2> QED BY <2>1, <2>2, FS_EmptySet
<1>7. EntryInv /\ CopyInv
  BY DEF EntryInv, CopyInv, Init
<1>8. ValidInv
  BY <1>0, <1>2 DEF ValidInv
<1>9. NoneInv
  BY DEF NoneInv, Init, Free
<1>10. CreateInv /\ FreeInv
  BY <1>2 DEF CreateInv, FreeInv, CreatePCs, FreePCs
<1>11. LastInv
  BY DEF LastInv, Init, Free
<1>12. LinkInv
  <2> SUFFICES ASSUME NEW i \in Inums
               PROVE  dinode[i].nlink = Cardinality(Entries(i)) + Cardinality(Uncounted(i))
    BY DEF LinkInv
  <2>1. Entries(i) = {} /\ Uncounted(i) = {}
    BY <1>0 DEF Init, Entries, Uncounted
  <2>2. dinode[i].nlink = 0
    BY DEF Init, Free
  <2> QED BY <2>1, <2>2, FS_EmptySet
<1>13. BlockInv
  <2>1. \A i \in Inums : Block(i) = None
    BY DEF Block, Init, Free
  <2> QED BY <2>1 DEF BlockInv, Init
<1> QED BY <1>1, <1>3, <1>4, <1>5, <1>6, <1>7, <1>8, <1>9, <1>10, <1>11, <1>12, <1>13 DEF IInv

\* Every step that does not panic keeps every part of it.
LEMMA StepIInv ==
  ASSUME IInv, NEW t \in Threads, Step(t), NoFsPanic'
  PROVE  IInv'
<1>1. TypeInv' /\ ThreadInv' /\ RootInv' /\ LockInv'
  BY TypeStep, ThreadStep, RootStep, LockStep
<1>2. RefInv' /\ EntryInv'
  BY RefStep, EntryStep DEF IInv
<1>3. CopyInv' /\ ValidInv' /\ NoneInv' /\ CreateInv'
  BY CopyStep, ValidStep, NoneStep, CreateStep
<1>4. FreeInv' /\ LastInv' /\ LinkInv' /\ BlockInv'
  BY FreeStep, LastStep, LinkStep, BlockStep
<1> QED BY <1>1, <1>2, <1>3, <1>4 DEF IInv

\* Nothing happens to it while nothing happens.
LEMMA SameIInv ==
  ASSUME IInv, UNCHANGED vars
  PROVE  IInv'
<1> USE DEF vars, cache
<1>1. TypeInv' /\ LockInv'
  BY DEF IInv, TypeInv, LockInv
<1>2. \A t \in Threads : (HasIp(t)' <=> HasIp(t)) /\ (HasPut(t)' <=> HasPut(t))
  BY DEF HasIp, HasPut
<1>3. \A e : /\ IpUsers(e)' = IpUsers(e) /\ PutUsers(e)' = PutUsers(e) /\ FdUsers(e)' = FdUsers(e)
             /\ Live(e)' <=> Live(e)
             /\ Updating(e)' = Updating(e)
  BY <1>2 DEF IpUsers, PutUsers, FdUsers, Live, Updating
<1>4. ThreadInv' /\ RootInv' /\ ValidInv'
  BY <1>2 DEF IInv, ThreadInv, RootInv, ValidInv
<1>5. RefInv' /\ EntryInv' /\ CopyInv'
  BY <1>3 DEF IInv, RefInv, EntryInv, CopyInv
<1>6. NoneInv' /\ CreateInv' /\ FreeInv' /\ LastInv'
  BY <1>3 DEF IInv, NoneInv, CreateInv, FreeInv, LastInv
<1>7. \A i : Entries(i)' = Entries(i) /\ Uncounted(i)' = Uncounted(i) /\ Block(i)' = Block(i)
  BY DEF Entries, Uncounted, Block, Cached
<1>8. LinkInv' /\ BlockInv'
  BY <1>7 DEF IInv, LinkInv, BlockInv
<1> QED BY <1>1, <1>4, <1>5, <1>6, <1>8 DEF IInv

-----------------------------------------------------------------------------
(* Panics *)

\* A step moves one thread, and not one that panicked.
LEMMA PcStep ==
  ASSUME pc \in [Threads -> PCs], NEW t \in Threads, Step(t)
  PROVE  pc[t] # "panic" /\ \E label \in PCs : pc' = [pc EXCEPT ![t] = label]
<1> DEFINE Moves == pc[t] # "panic" /\ \E label \in PCs : pc' = [pc EXCEPT ![t] = label]
<1> USE DEF Goto, PCs, PutPCs
<1>1. IlockStep(t) => Moves
  BY DEF IlockStep, Ilock, IlockOf
<1>2. IputLock(t) \/ Itrunc(t) \/ ItruncUpdate(t) \/ Ifree(t) \/ IputRelease(t) => Moves
  BY DEF IputLock, Itrunc, ItruncUpdate, Ifree, IputRelease
<1>3. CreateEntry(t) \/ WriteCall(t) \/ WriteUpdate(t) \/ UnlinkEntry(t) \/ AddLink(t)
      \/ (\E b \in Blocks : Balloc(t, b)) => Moves
  BY DEF CreateEntry, WriteCall, WriteUpdate, UnlinkEntry, AddLink, Balloc
<1>4. OpenFile(t) \/ OpenFails(t) \/ Close(t) \/ DropLink(t) \/ IputDrop(t) => Moves
  BY DEF OpenFile, OpenFails, Close, DropLink, IputDrop, PutIp
<1>5. ASSUME NEW i, NEW local, NEW localp, NEW label \in PCs, Iget(t, i, local, localp, label)
      PROVE  \E l \in PCs : pc' = [pc EXCEPT ![t] = l]
  <2>1. pc' = [pc EXCEPT ![t] = "panic"] \/ pc' = [pc EXCEPT ![t] = label]
    BY <1>5 DEF Iget
  <2> QED BY <2>1
<1>6. Dirlink(t) => Moves
  <2> SUFFICES ASSUME Dirlink(t) PROVE Moves
    OBVIOUS
  <2>1. CASE dir[name[t]] = None
    BY <2>1 DEF Dirlink, PutIp
  <2>2. CASE dir[name[t]] # None
    BY <1>5, <2>2 DEF Dirlink
  <2> QED BY <2>1, <2>2
<1>7. ASSUME NEW n \in Names, OpenFound(t, n) \/ UnlinkFound(t, n) PROVE Moves
  BY <1>5, <1>7 DEF OpenFound, UnlinkFound
<1>8. ASSUME NEW n \in Names, NEW i \in Inums, CreateNew(t, n, i) PROVE Moves
  BY <1>5, <1>8 DEF CreateNew
<1>9. ASSUME NEW old \in Names, NEW new \in Names, LinkFound(t, old, new) PROVE Moves
  BY <1>5, <1>9 DEF LinkFound
<1> HIDE DEF Moves
<1>10. WorkStep(t) => Moves
  BY <1>1, <1>2, <1>3 DEF WorkStep
<1>11. FindStep(t) => Moves
  BY <1>7, <1>8, <1>9 DEF FindStep
<1>12. PassStep(t) => Moves
  BY <1>4, <1>6 DEF PassStep
<1>13. StopStep(t) => Moves
  BY StopPanics DEF Moves
<1>14. Moves
  BY StepKinds, <1>10, <1>11, <1>12, <1>13
<1> QED BY <1>14 DEF Moves

\* An entry with a reference is in use by a thread.
LEMMA EntryHeld ==
  ASSUME IInv, NEW e \in Slots, e \notin Unused
  PROVE  \E t \in Threads : e \in {ip[t], put[t], fd[t]}
<1>1. IpUsers(e) # {} \/ PutUsers(e) # {} \/ FdUsers(e) # {}
  <2> SUFFICES ASSUME IpUsers(e) = {}, PutUsers(e) = {}, FdUsers(e) = {} PROVE FALSE
    OBVIOUS
  <2>1. ref[e] = Cardinality(IpUsers(e)) + Cardinality(PutUsers(e)) + Cardinality(FdUsers(e))
    BY DEF IInv, RefInv
  <2>2. Cardinality({}) = 0
    BY FS_EmptySet
  <2> QED BY <2>1, <2>2 DEF Unused
<1> QED BY <1>1 DEF IpUsers, PutUsers, FdUsers

\* An iget() panics only when icache is full, and changes nothing then.
LEMMA IgetPanics ==
  ASSUME IInv, NEW t \in Threads, NEW i \in Inums, NEW local, NEW localp, NEW label,
         Iget(t, i, local, localp, label), pc'[t] = "panic", label # "panic"
  PROVE  /\ IcacheFull
         /\ localp = local /\ UNCHANGED <<inum, ref, valid>>
<1>1. pc \in [Threads -> PCs]
  BY DEF IInv, TypeInv
<1>2. IgetSlot(i) = NoSlot
  BY <1>1 DEF Iget, Goto
<1>3. Unused = {} /\ Cached(i) = {}
  BY <1>2, IgetFacts DEF IInv
<1>4. IcacheFull
  BY <1>3, EntryHeld DEF IcacheFull
<1> QED BY <1>2, <1>4 DEF Iget

\* What OnlyFullPanics allows.
Full(t) == \/ pc[t] \in {"idle", "dirlink"} /\ IcacheFull
           \/ pc[t] = "idle" /\ NoFreeInode
           \/ pc[t] = "write" /\ bitmap = Blocks

\* A panic leaves the variables in their types: a call that fails in iget() or
\* ialloc() has locked the root, noted the name and marked a disk inode at most.
StopsTyped(t) ==
    /\ pc' = [pc EXCEPT ![t] = "panic"]
    /\ UNCHANGED <<bitmap, inum, ref, valid, inode, locked, ip, put, fd, leaked, dir>>
    /\ root' \in {root, t}
    /\ name' = name \/ \E n \in Names : name' = [name EXCEPT ![t] = n]
    /\ \/ dinode' = dinode
       \/ \E i \in Inums :
             dinode' = [dinode EXCEPT ![i] = [type |-> "file", nlink |-> 0, addr |-> None]]

\* ilock() finds the inode allocated, bfree() finds the block in use, and unlink
\* finds a link: only iget(), ialloc() and balloc() can panic.
LEMMA PanicStep ==
  ASSUME IInv, NEW t \in Threads, Step(t), pc'[t] = "panic"
  PROVE  Full(t) /\ StopsTyped(t)
<1>0. /\ pc \in [Threads -> PCs] /\ ip \in [Threads -> Slots \cup {NoSlot}]
      /\ dir \in [Names -> Inums \cup {None}]
  BY DEF IInv, TypeInv
<1> USE <1>0 DEF Goto
<1>1. ~IlockStep(t)
  <2> SUFFICES ASSUME NEW from \in PCs, NEW to \in PCs, IlockOf(from, to), Ilock(t, from, to)
               PROVE  FALSE
    BY DEF IlockStep
  <2>1. /\ pc[t] = from /\ from \in IlockPCs \cup {"unlink_bad", "write_ilock"}
        /\ ip[t] \notin valid /\ dinode[inum[ip[t]]].type = "none"
    BY DEF Ilock, IlockOf, IlockPCs
  <2>2. HasIp(t) \/ pc[t] = "write_ilock"
    BY <2>1 DEF HasIp, IpPCs, IlockPCs, CreatePCs, UnlinkPCs, LinkPCs
  <2>3. PICK e \in Slots : e = ip[t] /\ ref[e] > 0
    BY <2>2, Referenced DEF IInv, WritePCs
  <2>4. HasIp(t) /\ pc[t] \in IlockPCs
    BY <2>1, <2>2, <2>3 DEF IInv, ValidInv, ThreadInv, WritePCs
  <2>5. Live(e)
    BY <2>3, <2>4 DEF Live, IpUsers
  <2>6. inum[e] \in Inums
    BY <2>3 DEF IInv, EntryInv
  <2> QED BY <2>1, <2>3, <2>5, <2>6 DEF IInv, NoneInv
<1>2. ~Itrunc(t)
  <2> SUFFICES ASSUME Itrunc(t) PROVE FALSE
    OBVIOUS
  <2>1. pc[t] = "itrunc" /\ inode[put[t]].addr # None /\ inode[put[t]].addr \notin bitmap
    BY DEF Itrunc
  <2>2. put[t] \in Slots \cap valid /\ ref[put[t]] > 0 /\ inum[put[t]] \in Inums
    BY <2>1, CopyOf, LockedValid DEF IInv, FreePCs
  <2>3. Block(inum[put[t]]) = inode[put[t]].addr
    BY <2>2, BlockOf DEF IInv
  <2> QED BY <2>1, <2>2, <2>3 DEF IInv, BlockInv
<1>3. ~UnlinkEntry(t)
  <2> SUFFICES ASSUME UnlinkEntry(t) PROVE FALSE
    OBVIOUS
  <2>1. pc[t] = "unlink" /\ inode[ip[t]].nlink < 1
    BY DEF UnlinkEntry
  <2>2. inum[ip[t]] \in Inums /\ inode[ip[t]].nlink = dinode[inum[ip[t]]].nlink
    BY <2>1, CopyOf DEF IInv, IpLocked
  <2>3. name[t] \in Names /\ dir[name[t]] = inum[ip[t]]
    BY <2>1 DEF IInv, RootInv, UnlinkPCs
  <2>4. dinode[inum[ip[t]]].nlink > 0 /\ dinode[inum[ip[t]]].nlink \in Nat
    BY <2>2, <2>3, LinkCounts DEF IInv
  <2> QED BY <2>1, <2>2, <2>4
<1>4. ~IputLock(t) /\ ~ItruncUpdate(t) /\ ~Ifree(t) /\ ~IputRelease(t) /\ ~CreateEntry(t)
      /\ ~WriteCall(t) /\ ~WriteUpdate(t) /\ ~AddLink(t) /\ \A b \in Blocks : ~Balloc(t, b)
  BY DEF IputLock, ItruncUpdate, Ifree, IputRelease, CreateEntry, WriteCall, WriteUpdate, AddLink,
         Balloc
<1>5. ~OpenFile(t) /\ ~OpenFails(t) /\ ~Close(t) /\ ~DropLink(t) /\ ~IputDrop(t)
  BY DEF OpenFile, OpenFails, Close, DropLink, IputDrop, PutIp
<1>6. pc' = [pc EXCEPT ![t] = "panic"]
  BY PcStep
<1>7. ASSUME Dirlink(t) PROVE Full(t) /\ StopsTyped(t)
  <2>1. pc[t] = "dirlink" /\ name[t] \in Names
    BY <1>7 DEF Dirlink, IInv, ThreadInv, LinkPCs
  <2>2. dir[name[t]] # None
    BY <1>7 DEF Dirlink, PutIp
  <2>3. dir[name[t]] \in Inums
    BY <2>1, <2>2
  <2>4. IcacheFull /\ put' = put /\ UNCHANGED <<inum, ref, valid>>
    BY <1>7, <2>2, <2>3, IgetPanics DEF Dirlink
  <2> QED BY <1>6, <1>7, <2>1, <2>2, <2>4 DEF Dirlink, Full, StopsTyped
<1>8. ASSUME NEW n \in Names, OpenFound(t, n) PROVE Full(t) /\ StopsTyped(t)
  <2>1. dir[n] \in Inums
    BY <1>8 DEF OpenFound
  <2>2. IcacheFull /\ ip' = ip /\ UNCHANGED <<inum, ref, valid>>
    BY <1>8, <2>1, IgetPanics DEF OpenFound
  <2> QED BY <1>6, <1>8, <2>2 DEF OpenFound, Full, StopsTyped
<1>9. ASSUME NEW n \in Names, UnlinkFound(t, n) PROVE Full(t) /\ StopsTyped(t)
  <2>1. dir[n] \in Inums
    BY <1>9 DEF UnlinkFound
  <2>2. IcacheFull /\ ip' = ip /\ UNCHANGED <<inum, ref, valid>>
    BY <1>9, <2>1, IgetPanics DEF UnlinkFound
  <2> QED BY <1>6, <1>9, <2>2 DEF UnlinkFound, Full, StopsTyped
<1>10. ASSUME NEW n \in Names, NEW i \in Inums, CreateNew(t, n, i)
       PROVE  Full(t) /\ StopsTyped(t)
  <2>1. IcacheFull /\ ip' = ip /\ UNCHANGED <<inum, ref, valid>>
    BY <1>10, IgetPanics DEF CreateNew
  <2> QED BY <1>6, <1>10, <2>1 DEF CreateNew, Full, StopsTyped
<1>11. ASSUME NEW old \in Names, NEW new \in Names, LinkFound(t, old, new)
       PROVE  Full(t) /\ StopsTyped(t)
  <2>1. dir[old] \in Inums
    BY <1>11 DEF LinkFound
  <2>2. IcacheFull /\ ip' = ip /\ UNCHANGED <<inum, ref, valid>>
    BY <1>11, <2>1, IgetPanics DEF LinkFound
  <2> QED BY <1>6, <1>11, <2>2 DEF LinkFound, Full, StopsTyped
<1>12. ASSUME BallocFails(t) PROVE Full(t) /\ StopsTyped(t)
  BY <1>12 DEF BallocFails, Full, StopsTyped, cache
<1>13. ASSUME NEW n \in Names, IallocFails(t, n) PROVE Full(t) /\ StopsTyped(t)
  BY <1>13 DEF IallocFails, Full, StopsTyped, cache
<1> QED BY StepKinds, <1>1, <1>2, <1>3, <1>4, <1>5, <1>7, <1>8, <1>9, <1>10, <1>11, <1>12, <1>13
        DEF WorkStep, FindStep, PassStep, StopStep

\* So it keeps the type invariant.
LEMMA PanicTypes ==
  ASSUME TypeOK, NEW t \in Threads, StopsTyped(t)
  PROVE  TypeOK'
<1>0. NINODE \in Nat \ {0} /\ MaxLink \in Nat \ {0}
  BY InodeAssumption
<1>1. [type |-> "file", nlink |-> 0, addr |-> None]
         \in [type : {"none", "file"}, nlink : 0..MaxLink, addr : Blocks \cup {None}]
  BY <1>0
<1>2. dinode' \in [Inums -> [type : {"none", "file"}, nlink : 0..MaxLink,
                            addr : Blocks \cup {None}]]
  BY <1>1 DEF TypeOK, StopsTyped
<1>3. pc' \in [Threads -> PCs] /\ name' \in [Threads -> Names \cup {None}]
      /\ root' \in Threads \cup {None}
  BY DEF TypeOK, StopsTyped, PCs
<1> QED BY <1>2, <1>3 DEF TypeOK, StopsTyped

-----------------------------------------------------------------------------
(* The theorems *)

\* TypeOK bounds a count by what the threads can hold.
LEMMA TypesOf ==
  ASSUME IInv
  PROVE  TypeOK
<1>1. ASSUME NEW e \in Slots PROVE ref[e] \in 0..3 * Cardinality(Threads)
  <2>1. /\ IpUsers(e) \subseteq Threads /\ PutUsers(e) \subseteq Threads
        /\ FdUsers(e) \subseteq Threads
    BY DEF IpUsers, PutUsers, FdUsers
  <2>2. Cardinality(Threads) \in Nat
    BY InodeAssumption, FS_CardinalityType
  <2>3. Cardinality(IpUsers(e)) <= Cardinality(Threads)
    BY <2>1, InodeAssumption, FS_Subset
  <2>4. Cardinality(PutUsers(e)) <= Cardinality(Threads)
    BY <2>1, InodeAssumption, FS_Subset
  <2>5. Cardinality(FdUsers(e)) <= Cardinality(Threads)
    BY <2>1, InodeAssumption, FS_Subset
  <2>6. /\ Cardinality(IpUsers(e)) \in Nat /\ Cardinality(PutUsers(e)) \in Nat
        /\ Cardinality(FdUsers(e)) \in Nat
    BY UsersFinite
  <2>7. ref[e] = Cardinality(IpUsers(e)) + Cardinality(PutUsers(e)) + Cardinality(FdUsers(e))
    BY DEF IInv, RefInv
  <2> QED BY <2>2, <2>3, <2>4, <2>5, <2>6, <2>7
<1>2. ref \in [Slots -> 0..3 * Cardinality(Threads)]
  BY <1>1 DEF IInv, TypeInv
<1> QED BY <1>2 DEF IInv, TypeInv, TypeOK

\* The parts of the invariant are what the tree promises.
LEMMA TreeOf ==
  ASSUME IInv
  PROVE  TreeConsistent
<1>0. /\ dinode \in [Inums -> [type : {"none", "file"}, nlink : 0..MaxLink, addr : Blocks \cup {None}]]
      /\ inode \in [Slots -> [type : {"none", "file"}, nlink : 0..MaxLink, addr : Blocks \cup {None}]]
      /\ valid \subseteq Slots
  BY DEF IInv, TypeInv
<1>1. ASSUME NEW i \in Inums
      PROVE  dinode[i].nlink = Cardinality({n \in Names : dir[n] = i}) + Cardinality(Uncounted(i))
  BY DEF IInv, LinkInv, Entries
<1>2. ASSUME NEW i \in Inums, dinode[i].type # "file" PROVE dinode[i].type = "none"
  BY <1>0, <1>2
<1>3. ASSUME NEW i \in Inums, dinode[i].nlink > 0 PROVE dinode[i].type = "file"
  BY <1>2, <1>3 DEF IInv, NoneInv
<1>4. ASSUME NEW i \in Inums, NEW t \in Threads, fd[t] # NoSlot, inum[fd[t]] = i
      PROVE  dinode[i].type = "file"
  <2>1. fd[t] \in Slots /\ ref[fd[t]] > 0
    BY <1>4, Referenced DEF IInv
  <2>2. Live(fd[t])
    BY DEF Live, FdUsers
  <2> QED BY <1>2, <1>4, <2>1, <2>2 DEF IInv, NoneInv
<1>5. ASSUME NEW i \in Inums, dinode[i].type = "file", dinode[i].nlink = 0
      PROVE  i \in leaked \/ Cached(i) # {}
  BY <1>5 DEF IInv, LastInv, Cached
<1>6. LinksCounted
  BY <1>1, <1>3, <1>4, <1>5 DEF LinksCounted
<1>7. ASSUME NEW i \in Inums PROVE Cardinality(Cached(i)) <= 1
  <2>1. CASE Cached(i) = {}
    BY <2>1, FS_EmptySet
  <2>2. ASSUME NEW e \in Cached(i) PROVE Cardinality(Cached(i)) = 1
    <3>1. Cached(i) = {e}
      BY <2>2 DEF IInv, EntryInv, Cached
    <3>2. Cardinality({e}) = 1
      BY FS_Singleton, Zenon
    <3> QED BY <3>1, <3>2
  <2> QED BY <2>1, <2>2
<1>8. ASSUME NEW e \in valid, ref[e] > 0, Updating(e) = {} PROVE inode[e] = dinode[inum[e]]
  <2>1. e \in Slots /\ inum[e] \in Inums
    BY <1>0, <1>8 DEF IInv, EntryInv
  <2>2. /\ inode[e].type = dinode[inum[e]].type /\ inode[e].nlink = dinode[inum[e]].nlink
        /\ inode[e].addr = dinode[inum[e]].addr
    BY <1>8 DEF IInv, CopyInv
  <2> QED BY <1>0, <2>1, <2>2
<1>9. CacheCoherent
  BY <1>7, <1>8 DEF CacheCoherent, IInv, BlockInv
<1> QED BY <1>6, <1>9 DEF TreeConsistent

\* The invariant holds until a panic, and the types after it.
UntilPanic == IF NoFsPanic THEN IInv ELSE TypeOK

LEMMA Invariant == Spec => []UntilPanic
<1>1. Init => UntilPanic
  BY InitIInv DEF UntilPanic
<1>2. UntilPanic /\ [Next]_vars => UntilPanic'
  <2> SUFFICES ASSUME UntilPanic, [Next]_vars PROVE UntilPanic'
    OBVIOUS
  <2>1. CASE UNCHANGED vars
    <3>1. NoFsPanic' <=> NoFsPanic
      BY <2>1 DEF vars, NoFsPanic
    <3>2. TypeOK => TypeOK'
      BY <2>1 DEF TypeOK, vars, cache
    <3> QED BY <2>1, <3>1, <3>2, SameIInv DEF UntilPanic
  <2>2. ASSUME NoFsPanic, NEW t \in Threads, Step(t) PROVE UntilPanic'
    <3>1. IInv /\ pc \in [Threads -> PCs]
      BY <2>2 DEF UntilPanic, IInv, TypeInv
    <3>2. CASE NoFsPanic'
      BY <2>2, <3>1, <3>2, StepIInv DEF UntilPanic
    <3>3. CASE ~NoFsPanic'
      <4>1. PICK u \in Threads : pc'[u] = "panic"
        BY <3>3 DEF NoFsPanic
      <4>2. u = t
        BY <2>2, <3>1, <4>1, PcStep DEF NoFsPanic
      <4>3. TypeOK'
        BY <2>2, <3>1, <4>1, <4>2, PanicStep, PanicTypes, TypesOf
      <4> QED BY <3>3, <4>3 DEF UntilPanic
    <3> QED BY <3>2, <3>3
  <2> QED BY <2>1, <2>2 DEF Next
<1> QED BY <1>1, <1>2, PTL DEF Spec

\* The variables keep their types, and no reference count exceeds what the
\* threads hold, after a panic too.
THEOREM TypeCorrect == Spec => []TypeOK
<1>1. UntilPanic => TypeOK
  BY TypesOf DEF UntilPanic
<1> QED BY <1>1, Invariant, PTL

\* The directory, the link counts, the disk inodes, the bitmap and icache agree at
\* every step, whatever the calls and the sizes are, as long as nobody panicked.
THEOREM TreeConsistentHolds == Spec => []TreeConsistent
<1>1. UntilPanic => TreeConsistent
  <2>1. CASE NoFsPanic
    BY <2>1, TreeOf DEF UntilPanic
  <2>2. CASE ~NoFsPanic
    BY <2>2 DEF TreeConsistent
  <2> QED BY <2>1, <2>2
<1> QED BY <1>1, Invariant, PTL

\* No step panics but iget()'s when threads use every entry of icache, ialloc()'s
\* when no disk inode is free and balloc()'s when no block is, whatever the sizes
\* of these tables: ilock() never finds a free inode, bfree() never a free block,
\* and unlink never a link count of 0.
THEOREM OnlyFullPanicsHolds == Spec => OnlyFullPanics
<1>1. ASSUME UntilPanic, Next, NEW u \in Threads, pc[u] # "panic", pc'[u] = "panic"
      PROVE  Full(u)
  <2>1. PICK t \in Threads : NoFsPanic /\ Step(t)
    BY <1>1 DEF Next, vars
  <2>2. IInv /\ pc \in [Threads -> PCs]
    BY <1>1, <2>1 DEF UntilPanic, IInv, TypeInv
  <2>3. u = t
    BY <1>1, <2>1, <2>2, PcStep
  <2> QED BY <1>1, <2>1, <2>2, <2>3, PanicStep
<1> DEFINE Panics == \A t \in Threads : pc[t] # "panic" /\ pc'[t] = "panic" => Full(t)
<1>2. UntilPanic /\ [Next]_vars => [Panics]_vars
  BY <1>1
<1>3. Spec => [][Panics]_vars
  BY <1>2, Invariant, PTL DEF Spec
<1> QED BY <1>3 DEF OnlyFullPanics, Full
=============================================================================
