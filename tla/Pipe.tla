-------------------------------- MODULE Pipe --------------------------------
(***************************************************************************)
(* Pipes (pipe.c), the open-file table (file.c) and the descriptors of the *)
(* processes that share them (sysfile.c; fork() and exit() of proc.c).     *)
(*                                                                         *)
(* A critical section of p->lock or ftable.lock is one step, except that   *)
(* the test of myproc()->killed and the sleep() after it are two: kill()   *)
(* takes only ptable.lock and may come between them.  A system call is     *)
(* otherwise interrupted wherever it holds no lock.                        *)
(*                                                                         *)
(* init stays outside: it holds file 1, the console, for ever, and starts  *)
(* programs with it.  Pipes share one page (a bound): kalloc() fails while *)
(* a pipe is in it.                                                        *)
(***************************************************************************)
EXTENDS Integers, Sequences, FiniteSets

CONSTANTS
    Procs,
    NoResult,      \* no read() is about to return
    Junk,          \* what a slot of data[] holds before it is written
    NFILE, NOFILE, PIPESIZE,
    WORD,          \* uint counts modulo WORD: 2^32 in the code
    Lengths        \* the n of read() and write(), a bound

ASSUME PipeAssumption ==
    /\ NFILE \in Nat \ {0} /\ NOFILE \in Nat \ {0} /\ PIPESIZE \in Nat \ {0}
    /\ WORD \in Nat /\ WORD % PIPESIZE = 0 /\ WORD > PIPESIZE
    /\ Lengths \subseteq Nat \ {0} /\ IsFiniteSet(Procs)      \* NPROC of them
    /\ Junk \notin 0..WORD - 1

Files == 1..NFILE
FDs == 1..NOFILE
NoFile == 0
Console == 1
\* The pipe never looks at a byte, so a byte is the number nwrite had when it
\* was stored: it stands for any byte, and tells its place in the stream.
Bytes == 0..WORD - 1

VARIABLES
    ref, type,                 \* of each struct file
    ofile,                     \* ofile[p][fd]
    page,                      \* the page is allocated
    nread, nwrite, data, readopen, writeopen,
    lock,                      \* p->lock is held between a test and a sleep()
    killed,
    pc,
    n,                         \* n[p]: bytes the call still has to move
    exiting,                   \* processes in exit()
    work,                      \* work[p]: files p holds outside its descriptors
    got,                       \* got[p]: what a read() that returns has copied
    unannounced                \* ghost: bytes stored since the last wakeup(&p->nread)

pipe == <<nread, nwrite, data, readopen, writeopen>>
vars == <<ref, type, ofile, page, pipe, lock, killed, exiting, pc, n, work, got, unannounced>>

ReadPCs == {"read", "rsleep", "rasleep", "copied"}
WritePCs == {"write", "wsleep", "wasleep"}
ClosePCs == {"close", "close_read", "close_write", "kfree"}
PCs == {"dead", "user", "alloc1", "alloc_page"} \cup ReadPCs \cup WritePCs \cup ClosePCs

TypeOK ==
    /\ ref \in [Files -> 0..Cardinality(Procs) * (NOFILE + 1) + 1]
    /\ type \in [Files -> {"none", "inode", "read", "write"}]
    /\ ofile \in [Procs -> [FDs -> Files \cup {NoFile}]]
    /\ page \in BOOLEAN /\ readopen \in BOOLEAN /\ writeopen \in BOOLEAN
    /\ nread \in 0..WORD - 1 /\ nwrite \in 0..WORD - 1
    /\ data \in [0..PIPESIZE - 1 -> Bytes \cup {Junk}]
    /\ lock \in BOOLEAN /\ unannounced \in BOOLEAN
    /\ killed \subseteq Procs /\ exiting \subseteq Procs
    /\ pc \in [Procs -> PCs]
    /\ n \in [Procs -> {0} \cup UNION {0..m : m \in Lengths}]
    /\ \A p \in Procs : work[p] \in Seq(Files) /\ (got[p] # NoResult => got[p] \in Seq(Bytes))

EmptyPage == [i \in 0..PIPESIZE - 1 |-> Junk]
NoFds == [fd \in FDs |-> NoFile]

Init ==
    /\ ref = [f \in Files |-> IF f = Console THEN 1 ELSE 0]
    /\ type = [f \in Files |-> IF f = Console THEN "inode" ELSE "none"]
    /\ ofile = [p \in Procs |-> NoFds]
    /\ page = FALSE /\ nread = 0 /\ nwrite = 0 /\ data = EmptyPage
    /\ readopen = FALSE /\ writeopen = FALSE /\ lock = FALSE
    /\ killed = {} /\ exiting = {} /\ pc = [p \in Procs |-> "dead"]
    /\ n = [p \in Procs |-> 0]
    /\ work = [p \in Procs |-> <<>>] /\ got = [p \in Procs |-> NoResult]
    /\ unannounced = FALSE

Least(S) == CHOOSE x \in S : \A y \in S : x <= y
Smaller(a, b) == IF a < b THEN a ELSE b
Goto(p, label) == pc' = [pc EXCEPT ![p] = label]

\* wakeup() of the processes asleep on a channel, with p going on at label.
WakeAndGoto(p, label, sleeping, awake) ==
    pc' = [q \in Procs |-> IF q = p THEN label ELSE IF pc[q] = sleeping THEN awake ELSE pc[q]]

\* A process that was killed goes no further than the return to user mode.
Running(p) == pc[p] = "user" /\ p \notin killed

Holds(p, kind) == \E fd \in FDs : ofile[p][fd] # NoFile /\ type[ofile[p][fd]] = kind

-----------------------------------------------------------------------------
(* Processes *)

\* init starts a program: fork(), with the descriptor of the console.
Start(p) ==
    /\ pc[p] = "dead"
    /\ ref' = [ref EXCEPT ![Console] = @ + 1]
    /\ ofile' = [ofile EXCEPT ![p][1] = Console]
    /\ Goto(p, "user")
    /\ UNCHANGED <<exiting, type, page, pipe, lock, killed, n, work, got, unannounced>>

\* How many of the descriptors fds name file f.
Copies(fds, f) == Cardinality({fd \in FDs : fds[fd] = f})

\* fork(): filedup() of every open descriptor.  The parent's own references
\* keep the files open, so the calls are one step.
ForkDup(p) == [f \in Files |-> ref[f] + Copies(ofile[p], f)]

Fork(p, child) ==
    /\ Running(p) /\ pc[child] = "dead"
    /\ ref' = ForkDup(p)
    /\ ofile' = [ofile EXCEPT ![child] = ofile[p]]
    /\ Goto(child, "user")
    /\ UNCHANGED <<exiting, type, page, pipe, lock, killed, n, work, got, unannounced>>

\* exit(), of its own or because p was killed.
Exit(p) ==
    /\ pc[p] = "user"
    /\ exiting' = exiting \cup {p}
    /\ Goto(p, "close")
    /\ UNCHANGED <<ref, type, ofile, page, pipe, lock, killed, n, work, got, unannounced>>

OpenFds(p) == {fd \in FDs : ofile[p][fd] # NoFile}

\* One turn of exit()'s loop over the descriptors, up to fileclose().
ExitCloses(p) == LET fd == Least(OpenFds(p)) IN
    /\ pc[p] = "close" /\ work[p] = <<>> /\ p \in exiting /\ OpenFds(p) # {}
    /\ ofile' = [ofile EXCEPT ![p][fd] = NoFile]
    /\ work' = [work EXCEPT ![p] = <<ofile[p][fd]>>]
    /\ UNCHANGED <<exiting, ref, type, page, pipe, lock, killed, pc, n, got, unannounced>>

\* The zombie is reaped by wait(), which clears the slot.
Reap(p) ==
    /\ pc[p] = "close" /\ work[p] = <<>> /\ p \in exiting /\ OpenFds(p) = {}
    /\ exiting' = exiting \ {p} /\ killed' = killed \ {p}
    /\ Goto(p, "dead")
    /\ UNCHANGED <<ref, type, ofile, page, pipe, lock, n, work, got, unannounced>>

\* kill(): a sleeper is made runnable, whatever it waits for.
Kill(p) ==
    /\ pc[p] # "dead" /\ p \notin exiting         \* which no longer looks at killed
    /\ p \notin killed \/ pc[p] \in {"rasleep", "wasleep"}   \* else nothing changes
    /\ killed' = killed \cup {p}
    /\ Goto(p, CASE pc[p] = "rasleep" -> "read" [] pc[p] = "wasleep" -> "write" [] OTHER -> pc[p])
    /\ UNCHANGED <<exiting, ref, type, ofile, page, pipe, lock, n, work, got, unannounced>>

-----------------------------------------------------------------------------
(* Descriptors *)

FreeFds(p) == {fd \in FDs : ofile[p][fd] = NoFile}

\* sys_dup(): fdalloc(), then filedup().
Dup(p, fd) ==
    /\ Running(p) /\ ofile[p][fd] # NoFile /\ FreeFds(p) # {}
    /\ ofile' = [ofile EXCEPT ![p][Least(FreeFds(p))] = ofile[p][fd]]
    /\ ref' = [ref EXCEPT ![ofile[p][fd]] = @ + 1]
    /\ UNCHANGED <<exiting, type, page, pipe, lock, killed, pc, n, work, got, unannounced>>

\* sys_close()
Close(p, fd) ==
    /\ Running(p) /\ ofile[p][fd] # NoFile
    /\ ofile' = [ofile EXCEPT ![p][fd] = NoFile]
    /\ work' = [work EXCEPT ![p] = <<ofile[p][fd]>>]
    /\ Goto(p, "close")
    /\ UNCHANGED <<exiting, ref, type, page, pipe, lock, killed, n, got, unannounced>>

\* fileclose() up to the release of ftable.lock; pc keeps what ff says.
FileClose(p) == LET f == Head(work[p]) IN
    /\ pc[p] = "close" /\ work[p] # <<>>
    /\ ref' = [ref EXCEPT ![f] = @ - 1]
    /\ work' = [work EXCEPT ![p] = Tail(@)]
    /\ type' = IF ref[f] > 1 THEN type ELSE [type EXCEPT ![f] = "none"]
    /\ Goto(p, IF ref[f] > 1 \/ type[f] = "none" THEN "close"
               ELSE IF type[f] = "read" THEN "close_read" ELSE "close_write")
    /\ UNCHANGED <<exiting, ofile, page, pipe, lock, killed, n, got, unannounced>>

\* sys_close() and a failed sys_pipe() return.
Closed(p) ==
    /\ pc[p] = "close" /\ work[p] = <<>> /\ p \notin exiting
    /\ Goto(p, "user")
    /\ UNCHANGED <<exiting, ref, type, ofile, page, pipe, lock, killed, n, work, got, unannounced>>

-----------------------------------------------------------------------------
(* sys_pipe(): pipealloc(), then two descriptors *)

FreeFiles == {f \in Files : ref[f] = 0}

\* filealloc(); mutant: the file is handed out with no reference.
FileAllocNoRef(f) == UNCHANGED ref
FileAlloc(f) == ref' = [ref EXCEPT ![f] = 1]

\* The first filealloc(); when it fails sys_pipe() just returns.
PipeAlloc0(p) ==
    /\ Running(p) /\ FreeFiles # {}
    /\ FileAlloc(Least(FreeFiles))
    /\ work' = [work EXCEPT ![p] = <<Least(FreeFiles)>>]
    /\ Goto(p, "alloc1")
    /\ UNCHANGED <<exiting, type, ofile, page, pipe, lock, killed, n, got, unannounced>>

PipeAlloc1(p) ==
    /\ pc[p] = "alloc1" /\ FreeFiles # {}
    /\ FileAlloc(Least(FreeFiles))
    /\ work' = [work EXCEPT ![p] = Append(@, Least(FreeFiles))]
    /\ Goto(p, "alloc_page")
    /\ UNCHANGED <<exiting, type, ofile, page, pipe, lock, killed, n, got, unannounced>>

\* "bad": the second filealloc() or kalloc() failed; close what there is.
PipeAllocBad(p) ==
    /\ \/ pc[p] = "alloc1" /\ FreeFiles = {}
       \/ pc[p] = "alloc_page" /\ page
    /\ Goto(p, "close")
    /\ UNCHANGED <<exiting, ref, type, ofile, page, pipe, lock, killed, n, work, got, unannounced>>

\* kalloc() and the rest of pipealloc(): both ends are open and the pipe is empty.
NewPipe(p) ==
    /\ page' = TRUE /\ readopen' = TRUE /\ writeopen' = TRUE
    /\ nread' = 0 /\ nwrite' = 0 /\ data' = EmptyPage /\ unannounced' = FALSE
    /\ type' = [type EXCEPT ![work[p][1]] = "read", ![work[p][2]] = "write"]

\* fdalloc() for both files or for neither.
FdAllocBoth(p) ==
    IF Cardinality(FreeFds(p)) >= 2
    THEN LET fd0 == Least(FreeFds(p))
             fd1 == Least(FreeFds(p) \ {fd0})
         IN  /\ ofile' = [ofile EXCEPT ![p][fd0] = work[p][1], ![p][fd1] = work[p][2]]
             /\ work' = [work EXCEPT ![p] = <<>>]
             /\ Goto(p, "user")
    ELSE Goto(p, "close") /\ UNCHANGED <<ofile, work>>

PipeAllocPage(p) ==
    /\ pc[p] = "alloc_page" /\ ~page
    /\ NewPipe(p) /\ FdAllocBoth(p)
    /\ UNCHANGED <<exiting, ref, lock, killed, n, got>>

-----------------------------------------------------------------------------
(* pipeclose() *)

\* The end that closes wakes the sleepers of the other one.
\* Mutant: the wakeups of the two ends are swapped.
CloseEndWrongWake(p, back, end) ==
    IF end = "write" THEN WakeAndGoto(p, back, "wasleep", "write")
    ELSE WakeAndGoto(p, back, "rasleep", "read")
CloseEndWake(p, back, end) ==
    IF end = "write" THEN WakeAndGoto(p, back, "rasleep", "read")
    ELSE WakeAndGoto(p, back, "wasleep", "write")

\* readopen == 0 && writeopen == 0; mutant: the page goes with the first end.
FreesEither(r, w) == ~r \/ ~w
Frees(r, w) == ~r /\ ~w

PipeClose(p, label, end) == LET r == readopen /\ end # "read"
                                w == writeopen /\ end # "write" IN
    /\ pc[p] = label /\ ~lock
    /\ readopen' = r /\ writeopen' = w
    /\ CloseEndWake(p, IF Frees(r, w) THEN "kfree" ELSE "close", end)
    /\ UNCHANGED <<exiting, ref, type, ofile, page, nread, nwrite, data, lock, killed, n, work, got>>
    /\ unannounced' = (unannounced /\ end # "write")

\* kfree(), after the release of the pipe's lock.
PipeFree(p) ==
    /\ pc[p] = "kfree"
    /\ page' = FALSE /\ nread' = 0 /\ nwrite' = 0 /\ data' = EmptyPage
    /\ unannounced' = FALSE
    /\ Goto(p, "close")
    /\ UNCHANGED <<exiting, ref, type, ofile, readopen, writeopen, lock, killed, n, work, got>>

-----------------------------------------------------------------------------
(* pipewrite() *)

\* Bytes in the buffer: nwrite - nread, of unsigned ints.
Count == (nwrite - nread) % WORD
\* Slots the writer's loop fills before nwrite == nread + PIPESIZE.
Space == PIPESIZE - Count

WriteCall(p, m) ==
    /\ Running(p) /\ Holds(p, "write")
    /\ n' = [n EXCEPT ![p] = m]
    /\ Goto(p, "write")
    /\ UNCHANGED <<exiting, ref, type, ofile, page, pipe, lock, killed, work, got, unannounced>>

\* p->data[p->nwrite++ % PIPESIZE] = addr[i], k times.
\* Mutant: nwrite is taken modulo PIPESIZE and no longer tells full from empty.
NwriteSmall(k) == (nwrite + k) % PIPESIZE
Nwrite(k) == (nwrite + k) % WORD

Put(k) ==
    /\ nwrite' = Nwrite(k)
    /\ data' = [i \in DOMAIN data |->
                    LET j == (i - nwrite) % PIPESIZE
                    IN  IF j < k THEN (nwrite + j) % WORD ELSE data[i]]

\* The rest fits: wakeup(&p->nread), return.
WriteAll(p) ==
    /\ pc[p] = "write" /\ ~lock /\ n[p] <= Space
    /\ Put(n[p])
    /\ n' = [n EXCEPT ![p] = 0]
    /\ WakeAndGoto(p, "user", "rasleep", "read")
    /\ unannounced' = FALSE
    /\ UNCHANGED <<ref, type, ofile, page, nread, readopen, writeopen, lock, killed, exiting, work, got>>

\* The buffer is full: wakeup(&p->nread) and on to sleep(), the lock still held.
WriteFull(p) ==
    /\ pc[p] = "write" /\ ~lock /\ n[p] > Space
    /\ readopen /\ p \notin killed
    /\ Put(Space)
    /\ n' = [n EXCEPT ![p] = @ - Space]
    /\ lock' = TRUE
    /\ WakeAndGoto(p, "wsleep", "rasleep", "read")
    /\ unannounced' = FALSE
    /\ UNCHANGED <<ref, type, ofile, page, nread, readopen, writeopen, killed, exiting, work, got>>

\* Full, and no reader is left or p was killed: return -1, waking nobody.
WriteFails(p) ==
    /\ pc[p] = "write" /\ ~lock /\ n[p] > Space
    /\ ~readopen \/ p \in killed
    /\ Put(Space)
    /\ n' = [n EXCEPT ![p] = 0]
    /\ Goto(p, "user")
    /\ unannounced' = (unannounced \/ Space > 0)
    /\ UNCHANGED <<ref, type, ofile, page, nread, readopen, writeopen, lock, killed, exiting, work, got>>

\* sleep() gives the lock up in one step with going to sleep (module Proc).
Sleep(p, about, asleep) ==
    /\ pc[p] = about
    /\ lock' = FALSE
    /\ Goto(p, asleep)
    /\ UNCHANGED <<exiting, ref, type, ofile, page, pipe, killed, n, work, got, unannounced>>

-----------------------------------------------------------------------------
(* piperead() *)

ReadCall(p, m) ==
    /\ Running(p) /\ Holds(p, "read")
    /\ n' = [n EXCEPT ![p] = m]
    /\ Goto(p, "read")
    /\ UNCHANGED <<exiting, ref, type, ofile, page, pipe, lock, killed, work, got, unannounced>>

\* while(p->nread == p->nwrite && p->writeopen)
MustWait == Count = 0 /\ writeopen

ReadEmpty(p) ==
    /\ pc[p] = "read" /\ ~lock /\ MustWait
    /\ IF p \in killed THEN Goto(p, "user") /\ UNCHANGED lock
       ELSE Goto(p, "rsleep") /\ lock' = TRUE
    /\ n' = IF p \in killed THEN [n EXCEPT ![p] = 0] ELSE n
    /\ UNCHANGED <<exiting, ref, type, ofile, page, pipe, killed, work, got, unannounced>>

\* Copies up to n bytes (none at end of file), then wakeup(&p->nwrite).
ReadBytes(p) == LET k == Smaller(n[p], Count) IN
    /\ pc[p] = "read" /\ ~lock /\ ~MustWait
    /\ got' = [got EXCEPT ![p] = [i \in 1..k |-> data[(nread + i - 1) % PIPESIZE]]]
    /\ nread' = (nread + k) % WORD
    /\ n' = [n EXCEPT ![p] = 0]
    /\ WakeAndGoto(p, "copied", "wasleep", "write")
    /\ UNCHANGED <<exiting, ref, type, ofile, page, nwrite, data, readopen, writeopen, lock,
                   killed, work, unannounced>>

ReadReturns(p) ==
    /\ pc[p] = "copied"
    /\ got' = [got EXCEPT ![p] = NoResult]
    /\ Goto(p, "user")
    /\ UNCHANGED <<exiting, ref, type, ofile, page, pipe, lock, killed, n, work, unannounced>>

-----------------------------------------------------------------------------
\* The steps a process takes inside the kernel.
Kernel(p) ==
    \/ ExitCloses(p) \/ FileClose(p) \/ Closed(p) \/ Reap(p)
    \/ PipeAlloc1(p) \/ PipeAllocBad(p) \/ PipeAllocPage(p)
    \/ PipeClose(p, "close_read", "read") \/ PipeClose(p, "close_write", "write") \/ PipeFree(p)
    \/ WriteAll(p) \/ WriteFull(p) \/ WriteFails(p)
    \/ Sleep(p, "wsleep", "wasleep") \/ Sleep(p, "rsleep", "rasleep")
    \/ ReadEmpty(p) \/ ReadBytes(p) \/ ReadReturns(p)
    \/ (p \in killed /\ Exit(p))

\* What a program asks for.
Calls(p) ==
    \/ Start(p) \/ PipeAlloc0(p)
    \/ p \notin killed /\ Exit(p)
    \/ \E q \in Procs : Fork(p, q)
    \/ \E fd \in FDs : Dup(p, fd) \/ Close(p, fd)
    \/ \E m \in Lengths : WriteCall(p, m) \/ ReadCall(p, m)

Next == \E p \in Procs : Kernel(p) \/ Calls(p) \/ Kill(p)

Spec == Init /\ [][Next]_vars

-----------------------------------------------------------------------------
(* Properties *)

References(f) ==
    Cardinality({s \in Procs \X FDs : ofile[s[1]][s[2]] = f})
    + Cardinality({p \in Procs : \E i \in DOMAIN work[p] : work[p][i] = f})

\* A file stays open exactly as long as something refers to it, an end of the
\* pipe as long as one of its files, and the page as long as an end: nobody
\* inside piperead(), pipewrite() or pipeclose() uses a page that was freed or
\* became another pipe, and none is leaked by a failed sys_pipe().
PipeInUse ==
    /\ \A f \in Files \ {Console} : ref[f] = 0 => References(f) = 0 /\ type[f] = "none"
    /\ \A p \in Procs, fd \in FDs : ofile[p][fd] # NoFile => type[ofile[p][fd]] # "none"
    /\ readopen = ((\E f \in Files : type[f] = "read")
                   \/ \E p \in Procs : pc[p] = "close_read")
    /\ writeopen = ((\E f \in Files : type[f] = "write")
                    \/ \E p \in Procs : pc[p] = "close_write")
    /\ page = (readopen \/ writeopen \/ \E p \in Procs : pc[p] = "kfree")
    /\ \A p \in Procs : /\ pc[p] \in ReadPCs => page /\ readopen
                        /\ pc[p] \in WritePCs => page /\ writeopen

\* Nobody sleeps through the change it waits for: a sleeping reader has an empty
\* pipe and a writer that may come, a sleeping writer a full pipe and a reader.
\* The one exception is in the code: a killed pipewrite() that filled the buffer
\* returns without wakeup(&p->nread).
NoLostWakeup == \A p \in Procs :
    /\ pc[p] = "rasleep" => writeopen /\ (Count = 0 \/ unannounced)
    /\ pc[p] = "wasleep" => readopen /\ Count = PIPESIZE

Contents == [i \in 1..Count |-> data[(nread + i - 1) % PIPESIZE]]

Queue == INSTANCE ByteQueue WITH
    Capacity <- PIPESIZE,
    queue <- IF readopen \/ writeopen THEN Contents ELSE <<>>,
    canRead <- readopen, canWrite <- writeopen

\* Through every reuse of the page and every wrap of the counters, bytes come
\* out once, in the order written, and read() returns 0 only at end of file.
ImplementsByteQueue == Queue!Spec
=============================================================================
