-------------------------------- MODULE Inode --------------------------------
(***************************************************************************)
(* Inodes of the file system: the in-memory inode table, link counts, disk *)
(* blocks and directory entries (fs.c), under the system calls that open,  *)
(* create, link, unlink, write and close files (sysfile.c).                *)
(*                                                                         *)
(* There is one directory, the root; its inode is always in memory and of  *)
(* it the model keeps the lock and the entries.  A file has at most one    *)
(* block.  A step is a section of icache.lock, the work under an inode's   *)
(* sleep lock that waits for nothing but the disk, or one change of a disk *)
(* inode or of the bitmap, which the buffer's lock makes atomic (module    *)
(* Bcache).  A call is one transaction of the log (module Log).            *)
(*                                                                         *)
(* dirlink() of the name "." is left out: it calls iput() on the directory *)
(* whose lock the caller holds, and waits for ever.                        *)
(***************************************************************************)
EXTENDS Integers, FiniteSets

CONSTANTS
    Threads, Names,
    Inums,         \* the disk inodes other than the root's
    Blocks,        \* the data blocks of the disk
    NINODE,        \* entries of icache
    None,          \* no inode, block, entry or thread
    MaxLink        \* bound on the link count of a file

\* Threads, names and disk inodes are finitely many: the code's tables bound them.
ASSUME InodeAssumption ==
    /\ NINODE \in Nat \ {0} /\ MaxLink \in Nat \ {0}
    /\ None \notin Threads \cup Names \cup Inums \cup Blocks
    /\ IsFiniteSet(Threads) /\ IsFiniteSet(Names) /\ IsFiniteSet(Inums)

Slots == 1..NINODE
NoSlot == 0

VARIABLES
    dinode,        \* dinode[i] on disk: type, nlink and addr
    bitmap,        \* the blocks marked in use
    dir,           \* dir[name]: the inode number of an entry of the root
    inum, ref, valid,      \* of each entry of icache
    inode,         \* inode[e]: the copy of the disk inode
    locked,        \* locked[e]: the thread that has the entry's sleep lock
    root,          \* the thread that has the root's sleep lock
    pc,
    ip,            \* ip[t]: the inode the call works on
    put,           \* put[t]: the inode iput() drops
    name,          \* name[t]: the entry the call makes or removes
    fd,            \* fd[t]: the file t has open
    leaked         \* history: the inodes no iput() will free, Missed below

cache == <<inum, ref, valid, inode, locked>>
vars == <<dinode, bitmap, dir, cache, root, pc, ip, put, name, fd, leaked>>

Free == [type |-> "none", nlink |-> 0, addr |-> None]
PutPCs == {"iput", "itrunc", "itrunc_update", "ifree", "irelease", "idrop"}
PCs == {"idle", "panic", "open_ilock", "open", "create_ilock", "create", "unlink_ilock", "unlink",
        "unlinked", "link_ilock", "link", "dirlink", "unlink_bad", "bad", "write_ilock", "write",
        "write_update"}
       \cup PutPCs

TypeOK ==
    /\ dinode \in [Inums -> [type : {"none", "file"}, nlink : 0..MaxLink, addr : Blocks \cup {None}]]
    /\ bitmap \subseteq Blocks
    /\ dir \in [Names -> Inums \cup {None}]
    /\ inum \in [Slots -> Inums \cup {None}]
    /\ ref \in [Slots -> 0..3 * Cardinality(Threads)]
    /\ valid \subseteq Slots
    /\ inode \in [Slots -> [type : {"none", "file"}, nlink : 0..MaxLink, addr : Blocks \cup {None}]]
    /\ locked \in [Slots -> Threads \cup {None}]
    /\ root \in Threads \cup {None}
    /\ pc \in [Threads -> PCs]
    /\ ip \in [Threads -> Slots \cup {NoSlot}] /\ put \in [Threads -> Slots \cup {NoSlot}]
    /\ name \in [Threads -> Names \cup {None}]
    /\ fd \in [Threads -> Slots \cup {NoSlot}]
    /\ leaked \subseteq Inums

\* An empty root directory and an empty icache.
Init ==
    /\ dinode = [i \in Inums |-> Free] /\ bitmap = {}
    /\ dir = [n \in Names |-> None]
    /\ inum = [e \in Slots |-> None] /\ ref = [e \in Slots |-> 0] /\ valid = {}
    /\ inode = [e \in Slots |-> Free]
    /\ locked = [e \in Slots |-> None] /\ root = None
    /\ pc = [t \in Threads |-> "idle"]
    /\ ip = [t \in Threads |-> NoSlot] /\ put = [t \in Threads |-> NoSlot]
    /\ name = [t \in Threads |-> None] /\ fd = [t \in Threads |-> NoSlot]
    /\ leaked = {}

Goto(t, label) == pc' = [pc EXCEPT ![t] = label]

-----------------------------------------------------------------------------
(* iget(), ilock(), iupdate() *)

Cached(i) == {e \in Slots : ref[e] > 0 /\ inum[e] = i}
Unused == {e \in Slots : ref[e] = 0}

\* The entry iget() returns, or NoSlot where it panics.
IgetSlot(i) == IF Cached(i) # {} THEN CHOOSE e \in Cached(i) : TRUE
               ELSE IF Unused # {} THEN CHOOSE e \in Unused : \A u \in Unused : e <= u
               ELSE NoSlot

\* Mutant: a cached entry's count starts again.
CountOne(e) == [ref EXCEPT ![e] = 1]
Count(e) == [ref EXCEPT ![e] = @ + 1]

\* The entry of inode i gets a reference; t keeps it in the local variable that
\* local and local' are, and goes on at label.
Iget(t, i, local, localp, label) == LET e == IgetSlot(i) IN
    IF e = NoSlot THEN Goto(t, "panic") /\ localp = local /\ UNCHANGED <<inum, ref, valid>>
    ELSE /\ inum' = [inum EXCEPT ![e] = i]
         /\ ref' = Count(e)
         /\ valid' = IF Cached(i) = {} THEN valid \ {e} ELSE valid
         /\ localp = [local EXCEPT ![t] = e]
         /\ Goto(t, label)

\* ilock(ip[t]): the sleep lock, and the copy read from disk if need be.
Ilock(t, from, to) == LET e == ip[t] IN
    /\ pc[t] = from /\ locked[e] = None
    /\ locked' = [locked EXCEPT ![e] = t]
    /\ valid' = valid \cup {e}
    /\ inode' = IF e \in valid THEN inode ELSE [inode EXCEPT ![e] = dinode[inum[e]]]
    /\ Goto(t, IF e \notin valid /\ dinode[inum[e]].type = "none" THEN "panic" ELSE to)
    /\ UNCHANGED <<dinode, bitmap, dir, inum, ref, root, ip, put, name, fd, leaked>>

\* The copy becomes new and iupdate() writes it through.
\* Mutant: iupdate() is forgotten.
UpdateCopyOnly(e, new) == inode' = [inode EXCEPT ![e] = new] /\ UNCHANGED dinode
Update(e, new) ==
    /\ inode' = [inode EXCEPT ![e] = new]
    /\ dinode' = [dinode EXCEPT ![inum[e]] = new]

Unlock(e) == locked' = [locked EXCEPT ![e] = None]

\* iput(ip[t]) is what the call does next.
PutIp(t) == put' = [put EXCEPT ![t] = ip[t]] /\ Goto(t, "iput")

-----------------------------------------------------------------------------
(* iput() *)

\* Whether the inode is freed: no links and no reference but this one.
\* Mutant: the references are not looked at.
LastUseUnlinked(e) == e \in valid /\ inode[e].nlink = 0
LastUse(e) == e \in valid /\ inode[e].nlink = 0 /\ ref[e] = 1

\* All other references belong to an iput() that made this test already, and
\* has yet to drop them: nobody will find the last one.
Missed(e) ==
    /\ e \in valid /\ inode[e].nlink = 0 /\ ref[e] > 1
    /\ ref[e] - 1 = Cardinality({t \in Threads : pc[t] = "idrop" /\ put[t] = e})

IputLock(t) == LET e == put[t] IN
    /\ pc[t] = "iput" /\ locked[e] = None
    /\ locked' = [locked EXCEPT ![e] = t]
    /\ leaked' = IF Missed(e) THEN leaked \cup {inum[e]} ELSE leaked
    /\ Goto(t, IF LastUse(e) THEN "itrunc" ELSE "irelease")
    /\ UNCHANGED <<dinode, bitmap, dir, inum, ref, valid, inode, root, ip, put, name, fd>>

\* bfree() panics when the block is already free.
Itrunc(t) == LET e == put[t] b == inode[put[t]].addr IN
    /\ pc[t] = "itrunc"
    /\ bitmap' = bitmap \ {b}
    /\ inode' = [inode EXCEPT ![e].addr = None]
    /\ Goto(t, IF b # None /\ b \notin bitmap THEN "panic" ELSE "itrunc_update")
    /\ UNCHANGED <<dinode, dir, inum, ref, valid, locked, root, ip, put, name, fd, leaked>>

ItruncUpdate(t) ==
    /\ pc[t] = "itrunc_update"
    /\ Update(put[t], inode[put[t]])
    /\ Goto(t, "ifree")
    /\ UNCHANGED <<bitmap, dir, inum, ref, valid, locked, root, ip, put, name, fd, leaked>>

\* ip->type = 0, iupdate(), ip->valid = 0.
Ifree(t) == LET e == put[t] IN
    /\ pc[t] = "ifree"
    /\ Update(e, [inode[e] EXCEPT !.type = "none"])
    /\ valid' = valid \ {e}
    /\ Goto(t, "irelease")
    /\ UNCHANGED <<bitmap, dir, inum, ref, locked, root, ip, put, name, fd, leaked>>

IputRelease(t) ==
    /\ pc[t] = "irelease"
    /\ Unlock(put[t])
    /\ Goto(t, "idrop")
    /\ UNCHANGED <<dinode, bitmap, dir, inum, ref, valid, inode, root, ip, put, name, fd, leaked>>

\* ref--.  A thread that has the root came from dirlink(): it fails, and so
\* does sys_link(), which gives the root back.
IputDrop(t) ==
    /\ pc[t] = "idrop"
    /\ ref' = [ref EXCEPT ![put[t]] = @ - 1]
    /\ put' = [put EXCEPT ![t] = NoSlot]
    /\ IF root = t THEN root' = None /\ Goto(t, "unlink_bad") /\ UNCHANGED <<ip, name>>
       ELSE /\ Goto(t, "idle")
            /\ ip' = [ip EXCEPT ![t] = NoSlot] /\ name' = [name EXCEPT ![t] = None]
            /\ UNCHANGED root
    /\ UNCHANGED <<dinode, bitmap, dir, inum, valid, inode, locked, fd, leaked>>

-----------------------------------------------------------------------------
(* sys_open(), create(), sys_close(), sys_write() *)

\* The name exists: namei(), or create() that finds it; the root is unlocked
\* before the inode is locked.
OpenFound(t, n) ==
    /\ pc[t] = "idle" /\ fd[t] = NoSlot /\ root = None /\ dir[n] # None
    /\ Iget(t, dir[n], ip, ip', "open_ilock")
    /\ UNCHANGED <<dinode, bitmap, dir, inode, locked, root, put, name, fd, leaked>>

\* create() of a new file: ialloc() marks a free disk inode while the root is
\* locked.
CreateNew(t, n, i) ==
    /\ pc[t] = "idle" /\ fd[t] = NoSlot /\ root = None /\ dir[n] = None
    /\ dinode[i].type = "none"
    /\ root' = t
    /\ dinode' = [dinode EXCEPT ![i] = [type |-> "file", nlink |-> 0, addr |-> None]]
    /\ name' = [name EXCEPT ![t] = n]
    /\ Iget(t, i, ip, ip', "create_ilock")
    /\ UNCHANGED <<bitmap, dir, inode, locked, put, fd, leaked>>

NoFreeInode == \A i \in Inums : dinode[i].type # "none"

\* ialloc() looks at all of them in vain: none was free when it began, since no other
\* create() runs while the root is locked.
IallocFails(t, n) ==
    /\ pc[t] = "idle" /\ fd[t] = NoSlot /\ root = None /\ dir[n] = None
    /\ NoFreeInode
    /\ root' = t
    /\ name' = [name EXCEPT ![t] = n]
    /\ Goto(t, "panic")
    /\ UNCHANGED <<dinode, bitmap, dir, cache, ip, put, fd, leaked>>

\* nlink = 1, iupdate(), dirlink(), iunlockput(dp).
CreateEntry(t) == LET e == ip[t] IN
    /\ pc[t] = "create"
    /\ Update(e, [inode[e] EXCEPT !.nlink = 1])
    /\ dir' = [dir EXCEPT ![name[t]] = inum[e]]
    /\ root' = None
    /\ Goto(t, "open")
    /\ UNCHANGED <<bitmap, inum, ref, valid, locked, ip, put, name, fd, leaked>>

\* filealloc() and fdalloc() succeed: the file takes over the reference.
OpenFile(t) ==
    /\ pc[t] = "open"
    /\ Unlock(ip[t])
    /\ fd' = [fd EXCEPT ![t] = ip[t]]
    /\ ip' = [ip EXCEPT ![t] = NoSlot] /\ name' = [name EXCEPT ![t] = None]
    /\ Goto(t, "idle")
    /\ UNCHANGED <<dinode, bitmap, dir, inum, ref, valid, inode, root, put, leaked>>

\* They fail: iunlockput().
OpenFails(t) ==
    /\ pc[t] = "open"
    /\ Unlock(ip[t])
    /\ PutIp(t)
    /\ UNCHANGED <<dinode, bitmap, dir, inum, ref, valid, inode, root, ip, name, fd, leaked>>

\* fileclose() of the last reference to the file.
Close(t) ==
    /\ pc[t] = "idle" /\ fd[t] # NoSlot
    /\ put' = [put EXCEPT ![t] = fd[t]] /\ fd' = [fd EXCEPT ![t] = NoSlot]
    /\ Goto(t, "iput")
    /\ UNCHANGED <<dinode, bitmap, dir, cache, root, ip, name, leaked>>

WriteCall(t) ==
    /\ pc[t] = "idle" /\ fd[t] # NoSlot
    /\ ip' = [ip EXCEPT ![t] = fd[t]]
    /\ Goto(t, "write_ilock")
    /\ UNCHANGED <<dinode, bitmap, dir, cache, root, put, name, fd, leaked>>

\* writei(): bmap() allocates the block, iupdate() comes last.
Balloc(t, b) == LET e == ip[t] IN
    /\ pc[t] = "write" /\ inode[e].addr = None /\ b \notin bitmap
    /\ bitmap' = bitmap \cup {b}
    /\ inode' = [inode EXCEPT ![e].addr = b]
    /\ Goto(t, "write_update")
    /\ UNCHANGED <<dinode, dir, inum, ref, valid, locked, root, ip, put, name, fd, leaked>>

\* balloc() has found no free block.
BallocFails(t) ==
    /\ pc[t] = "write" /\ inode[ip[t]].addr = None /\ bitmap = Blocks
    /\ Goto(t, "panic")
    /\ UNCHANGED <<dinode, bitmap, dir, cache, root, ip, put, name, fd, leaked>>

\* With a block already there, iupdate() writes what is on disk.
WriteUpdate(t) == LET e == ip[t] IN
    /\ \/ pc[t] = "write_update"
       \/ pc[t] = "write" /\ inode[e].addr # None
    /\ Update(e, inode[e])
    /\ Unlock(e)
    /\ ip' = [ip EXCEPT ![t] = NoSlot]
    /\ Goto(t, "idle")
    /\ UNCHANGED <<bitmap, dir, inum, ref, valid, root, put, name, fd, leaked>>

-----------------------------------------------------------------------------
(* sys_unlink() *)

\* The root stays locked while the inode of the entry is locked.
UnlinkFound(t, n) ==
    /\ pc[t] = "idle" /\ root = None /\ dir[n] # None
    /\ root' = t
    /\ name' = [name EXCEPT ![t] = n]
    /\ Iget(t, dir[n], ip, ip', "unlink_ilock")
    /\ UNCHANGED <<dinode, bitmap, dir, inode, locked, put, fd, leaked>>

\* The entry is erased and the root released.
UnlinkEntry(t) ==
    /\ pc[t] = "unlink"
    /\ IF inode[ip[t]].nlink < 1 THEN Goto(t, "panic") /\ UNCHANGED <<dir, root>>
       ELSE Goto(t, "unlinked") /\ dir' = [dir EXCEPT ![name[t]] = None] /\ root' = None
    /\ UNCHANGED <<dinode, bitmap, cache, ip, put, name, fd, leaked>>

\* nlink--, iupdate(), iunlockput(ip); the end of a failed sys_link() too.
DropLink(t) == LET e == ip[t] IN
    /\ pc[t] \in {"unlinked", "bad"}
    /\ Update(e, [inode[e] EXCEPT !.nlink = @ - 1])
    /\ Unlock(e)
    /\ PutIp(t)
    /\ UNCHANGED <<bitmap, dir, inum, ref, valid, root, ip, name, fd, leaked>>

-----------------------------------------------------------------------------
(* sys_link() *)

LinkFound(t, old, new) ==
    /\ pc[t] = "idle" /\ root = None /\ dir[old] # None
    /\ name' = [name EXCEPT ![t] = new]
    /\ Iget(t, dir[old], ip, ip', "link_ilock")
    /\ UNCHANGED <<dinode, bitmap, dir, inode, locked, root, put, fd, leaked>>

\* nlink++, iupdate(), iunlock(), before the entry exists.
AddLink(t) == LET e == ip[t] IN
    /\ pc[t] = "link" /\ inode[e].nlink < MaxLink
    /\ Update(e, [inode[e] EXCEPT !.nlink = @ + 1])
    /\ Unlock(e)
    /\ Goto(t, "dirlink")
    /\ UNCHANGED <<bitmap, dir, inum, ref, valid, root, ip, put, name, fd, leaked>>

\* dirlink() with the root locked: the name is new, or its inode is looked up
\* and put again under the root's lock.
Dirlink(t) == LET new == name[t] IN
    /\ pc[t] = "dirlink" /\ root = None
    /\ IF dir[new] = None
       THEN /\ dir' = [dir EXCEPT ![new] = inum[ip[t]]]
            /\ PutIp(t)
            /\ UNCHANGED <<inum, ref, valid, root>>
       ELSE /\ root' = t
            /\ Iget(t, dir[new], put, put', "iput")
            /\ UNCHANGED dir
    /\ UNCHANGED <<dinode, bitmap, inode, locked, ip, name, fd, leaked>>

-----------------------------------------------------------------------------
Step(t) ==
    \/ Ilock(t, "open_ilock", "open") \/ Ilock(t, "create_ilock", "create")
    \/ Ilock(t, "unlink_ilock", "unlink") \/ Ilock(t, "link_ilock", "link")
    \/ Ilock(t, "unlink_bad", "bad") \/ Ilock(t, "write_ilock", "write")
    \/ IputLock(t) \/ Itrunc(t) \/ ItruncUpdate(t) \/ Ifree(t) \/ IputRelease(t) \/ IputDrop(t)
    \/ CreateEntry(t) \/ OpenFile(t) \/ OpenFails(t) \/ Close(t) \/ WriteCall(t) \/ WriteUpdate(t)
    \/ UnlinkEntry(t) \/ DropLink(t) \/ AddLink(t) \/ Dirlink(t)
    \/ (\E b \in Blocks : Balloc(t, b)) \/ BallocFails(t)
    \/ \E n \in Names : OpenFound(t, n) \/ UnlinkFound(t, n) \/ IallocFails(t, n)
    \/ \E n \in Names, i \in Inums : CreateNew(t, n, i)
    \/ \E old, new \in Names : LinkFound(t, old, new)

NoFsPanic == \A t \in Threads : pc[t] # "panic"

\* panic() stops the machine for good: nothing follows it.
Next ==
    \/ NoFsPanic /\ \E t \in Threads : Step(t)
    \/ ~NoFsPanic /\ UNCHANGED vars

Spec == Init /\ [][Next]_vars

-----------------------------------------------------------------------------
(* Properties *)

\* Some inode is not in icache and every entry is in use by a thread: as the inode
\* its call works on, the one it drops, or its open file.
IcacheFull ==
    /\ \E i \in Inums : Cached(i) = {}
    /\ \A e \in Slots : \E t \in Threads : e \in {ip[t], put[t], fd[t]}

\* Only a full table panics: iget()'s "no inodes" (fs.c:262), in a call that looks an
\* inode up while threads use every entry; ialloc()'s when no disk inode is free;
\* balloc()'s when no block is.  No interleaving loses an entry, an inode or a block
\* that is not in use, and none reaches ilock's "no type", unlink's "nlink < 1" or
\* bfree's "freeing free block".  param.h has 50 entries for 64 processes and mkfs.c
\* makes 200 inodes on 1000 blocks, so the code excludes none of the three.
OnlyFullPanics == [][\A t \in Threads : pc[t] # "panic" /\ pc'[t] = "panic" =>
    \/ pc[t] \in {"idle", "dirlink"} /\ IcacheFull
    \/ pc[t] = "idle" /\ NoFreeInode
    \/ pc[t] = "write" /\ bitmap = Blocks]_vars

\* Threads that have counted a link whose entry does not exist, yet or any more.
Uncounted(i) == {t \in Threads :
    /\ ip[t] # NoSlot /\ inum[ip[t]] = i
    /\ \/ pc[t] \in {"dirlink", "unlink_bad", "bad", "unlinked"}
       \/ pc[t] \in PutPCs /\ root = t}

\* A link count is the number of the directory entries and of the calls that are
\* half way; a file that has either, or is open, is allocated, and one with
\* neither that nobody uses is free, unless two iput() of its last references
\* overlapped: the one that tests last still counts the other, which will not
\* test again.
LinksCounted == \A i \in Inums :
    /\ dinode[i].nlink = Cardinality({n \in Names : dir[n] = i}) + Cardinality(Uncounted(i))
    /\ dinode[i].nlink > 0 => dinode[i].type = "file"
    /\ (\E t \in Threads : fd[t] # NoSlot /\ inum[fd[t]] = i) => dinode[i].type = "file"
    /\ dinode[i].type = "file" /\ dinode[i].nlink = 0 => i \in leaked \/ Cached(i) # {}

\* The block of an inode, as iput() and writei() know it.
Block(i) == IF Cached(i) \cap valid # {} THEN inode[CHOOSE e \in Cached(i) : TRUE].addr
            ELSE dinode[i].addr

\* Threads between a change of the copy of entry e and its iupdate().
Updating(e) == {t \in Threads :
    \/ pc[t] = "itrunc_update" /\ put[t] = e
    \/ pc[t] = "write_update" /\ ip[t] = e}

\* An inode has one entry of icache, whose copy is what is on disk except before
\* an iupdate(); its block is marked in use and belongs to it alone, and no other
\* block is marked, also while itrunc() and writei() run for other inodes.
CacheCoherent ==
    /\ \A i \in Inums : Cardinality(Cached(i)) <= 1
    /\ \A e \in valid : ref[e] > 0 /\ Updating(e) = {} => inode[e] = dinode[inum[e]]
    /\ bitmap = {Block(i) : i \in Inums} \ {None}
    /\ \A i, j \in Inums : i # j /\ Block(i) # None => Block(i) # Block(j)

\* The directory, the disk inodes, the bitmap and icache agree at every step, until
\* a panic, which may stop a create() half way.
TreeConsistent == NoFsPanic => LinksCounted /\ CacheCoherent
=============================================================================
