# A TLA+ verification of the xv6 kernel of the CS236 labs

The repository collects the lab work of one semester. Its substance is the
operating-systems course (`CS236`): several near-identical copies of the xv6
kernel, each with the extensions of one lab, and user-space labs on shells,
IPC and pthreads. The rest (`CS240` machine learning in Python, documents of
`CS217`-`CS219`, CAD files of `DE250`) keeps no concurrent or persistent state.

The modules follow the tree `src/CS236/Lab04&05-xv6-proc`, the most complete
xv6 copy (priority scheduler, `kill`, `setprio`, process queries, full file
system). Below, a bare file name means a file of that tree. `PROJECT.json`
relates every definition to its source lines.

Running it, in this directory:

    tlc -workers 2 -config MCProc.cfg MCProc      # model-check one run
    tlapm ProcProofs.tla                          # check the proofs

## 1. Inventory

| Component | State | Operations | Talks to | What is hard | What makes it correct |
|---|---|---|---|---|---|
| Spin locks (`spinlock.c`) | `locked`, `cpu` per lock; `ncli`, `intena`, interrupt flag per CPU | `acquire`, `release`, `holding`, `pushcli`, `popcli` | every kernel file; interrupt gates | interleaving of single instructions; an interrupt between any two | mutual exclusion, no self-deadlock with a handler, interrupt flag restored |
| Processes (`proc.c`) | the process table, `nextpid`, `ptable.lock`, per-CPU `proc` and scan | `scheduler`, `sched`, `fork`, `exit`, `wait`, `sleep`, `wakeup`, `kill`, `yield`, `setprio` | clock, system calls, `kalloc`, `init.c` | the lock crosses `swtch()`; lost wakeups; orphans; a stack freed while in use; `fork` failing half-way | a process on one CPU, no lost exit or tick, no leak, unique pids, progress |
| Traps, system calls (`trap.c`, `syscall.c`, `sysproc.c`) | `ticks`, `tickslock` | clock interrupt, faults, the three tests of `killed`, `sys_sleep` | `proc.c` | `killed` is read without a lock | a killed process exits, `sleep` returns |
| `init.c` | the pid of its shell | fork/wait loop | `proc.c` | reaps orphans; exits when `fork` fails, and the kernel panics | orphans are reaped |
| Log (`log.c`) | header and log blocks on disk; `lh`, `outstanding`, `committing` | `begin_op`, `log_write`, `end_op`, `commit`, recovery | buffer cache; all file system calls | crashes at every write, group commit, reservations | crash atomicity, no overflow, no forgotten sleeper |
| Sleep locks, buffer cache, disk (`sleeplock.c`, `bio.c`, `ide.c`) | buffers with `refcnt` and flags, LRU list, request queue | `bget`, `bread`, `bwrite`, `brelse`, `iderw`, `ideintr` | `proc.c`, log | identity of a buffer while its sleep lock is awaited; the interrupt before the sleep; `NBUF` exhausted | one buffer per block, every request answered |
| Inodes (`fs.c`, `sysfile.c`) | inode cache, link counts, block bitmap | `iget`, `ilock`, `iput`, `link`, `unlink`, `create` | log, buffer cache | `iput` drops a lock between test and free | no inode freed while reachable |
| File table, pipes (`file.c`, `pipe.c`) | `ref` counts; `nread`, `nwrite`, open flags, ring | `filealloc`, `filedup`, `fileclose`, `pipewrite`, `piperead`, `pipeclose` | `proc.c` | close against a sleeping peer; `killed` tested outside `ptable.lock`; counters that wrap | a byte FIFO; no use after free; nobody sleeps for ever |
| Memory (`kalloc.c`, `vm.c`, `exec.c`), lazy `mmap` (Lab07) | free list, page tables | `kalloc`, `kfree`, `copyuvm`, page fault | `proc.c`, `trap.c` | failure half-way through a copy | no page owned twice, none leaked |
| Console (`console.c`, `kbd.c`, `uart.c`) | input ring `r`, `w`, `e` | interrupt, `consoleread` | `proc.c` | ring at its limit | lines are delivered once |
| Hardware and boot (`lapic.c`, `mp.c`, `main.c`, ...) | device registers | start-up | - | - | - |
| User programs (`sh.c`, `umalloc.c`, tests) | - | - | system calls | - | - |
| Pthread labs (`Lab08and09-*`) | mutexes, condition variables, buffer | reader/writer locks, zemaphore, master-worker, batch processing | - | lost signals, early wakeups, termination | exclusion, stated preference, all items consumed once |
| Shell labs (`Lab03-*`), IPC labs (`Lab06-*`) | child lists; shared ring, sockets | - | the host OS | signal handler against the main loop | children reaped |

`PROJECT.json` lists what can go wrong in each of them, with the line where it
bites and the property that would catch it ("hazards").

## 2. Modules and the code

### `AtomicLock`, `Spinlock`, `SpinlockProofs`, `MCSpinlock`

`Spinlock` has one action per instruction that another CPU or an interrupt can
be ordered against: reading `eflags` and `cli()` in `pushcli` are two steps,
the `xchg`, the store to `lk->cpu`, its reset, the store of 0 and `popcli` are
one each. A CPU has two execution contexts: its thread, and the handler of an
interrupt that came in while the flag was set. The panics are states, not
assumptions. Which lock may be taken while another is held is the constant
`Order`; the instance uses the nesting of `sys_sleep` and of the clock handler
(`tickslock` before `ptable.lock`). A lock is released by the context that
acquired it; the one place where the kernel does otherwise, `ptable.lock`
across `swtch()`, is modelled in `Proc`.

`AtomicLock` is what all other code takes a lock to be, and `Spinlock`
implements it. That is why the other modules hold a lock in one step.

### `Proc`, `ProcProofs`, `ProcTableProofs`, `MCProc`

State: the fields of `struct proc` per slot, what each process is doing in the
kernel (`pc`, with the locals `np` of `fork` and `ticks0 + n` of `sys_sleep`),
the globals, and per CPU `c->proc`, the local variables of `scheduler()`
and what it executes (`cpc`). A step is what happens between two points where
another CPU or an interrupt can interfere:

| Code | Actions |
|---|---|
| `scheduler()` | `SchedAcquire`, `SchedDispatch`, `SchedEndPass` (raises the threshold, or `NewRound`: `sti()` and threshold 0) |
| `sched()`, `swtch()` | `SchedSwtch` with `sched()`'s panics; the lock stays with the CPU |
| `forkret`, ends of `yield` and `sleep` | `ForkRet`, `YieldReturn`, `TicksReturn`; a process that slept in `wait()` goes on in that loop |
| `trap()` | `TimerTick`, `TimerWakeup`, `TimerOther`, `Yield`, `Fault`, `Trap`; `Return` and `AfterTick` hold the tests of `killed` |
| `fork()`/`allocproc()` | `ForkSlot`/`ForkNoSlot`, `ForkStack`/`ForkNoStack`, `ForkCopy`/`ForkNoCopy`, `ForkRun`: only the first and the last are under the lock |
| `exit()` | `CallExit`, `Exit`, `InitExiting` (the panic) |
| `wait()` | `WaitReap`, `WaitFails`, `WaitSleep`, from a call or after a wakeup |
| `sys_sleep()`, `sleep()` | `SleepCall`, `SleepDone`, `SleepAgain`, `SleepEnter` (takes `ptable.lock`, then gives up `tickslock`), `SleepRelock` |
| `kill()`, `setprio()` | `Kill` (first slot with the pid, whatever its state), `KillNobody`, `SetPrio` |

User programs are the nondeterminism: a process may make any call, compute, or
fault at any time. `init.c` is the exception, because the kernel depends on
it: it forks when it has no shell and otherwise waits. One page stands for a
kernel stack and one for all that `copyuvm()` allocates.

### `TransDisk`, `Log`, `LogProofs`, `MCLog`

`Log` has the disk (home blocks, log blocks, header) and the memory (cached
data, dirty set, `log.lh`, `outstanding`, `committing`). Every block write is
one step: one turn of `write_log()`, `write_head()` ("the real commit"), one
turn of `install_trans()`, the erasing `write_head()`. `log_write()` is two
steps, since its panics are tested before `log.lock` is acquired. A crash may
happen anywhere, recovery included, and clears the memory; `recover_from_log()`
is `ReadHead`, `RecoverInstall`, `RecoverErase`. Of the buffer cache the model
has what the log relies on: one user per buffer, and `bget()` recycling any
buffer that is neither in use nor dirty, which makes forgetting to pin a block
fatal.

`TransDisk` is the promise to the file system: the disk after a restart
(`durable`) is replaced by what the calls see (`view`) in one step, and only
while no call is half done. The refinement mapping reads `durable` off the disk
as recovery would: from the log where the header names the block, else from its
home.

### `ByteQueue`, `Pipe`, `PipeProofs`, `MCPipe`

Pipes with the file table and the descriptors that lead to them. State: `ref`
and type of each `struct file`, `ofile` of each process, the pipe's page with
`nread`, `nwrite` (modulo `WORD`), `data` and the two open flags, and what each
process does in the kernel. A critical section of `p->lock` or `ftable.lock` is
one step, but the test of `killed` and the `sleep()` that follows are two, since
`kill()` needs neither lock. `fileclose()` is two steps, and a third one when
`pipeclose()` frees the page. `exit()` closes the descriptors one by one (`ExitCloses`), and the process can be reaped
when none is left. Pipes share one page, so that a new pipe takes
the place of the old one at once: whoever still used the old one would be seen.

| Code | Actions |
|---|---|
| `fork()`, `exit()`, `wait()`, `kill()` | `Start`, `Fork`, `Exit`, `Reap`, `Kill` |
| `sys_dup`, `sys_close`, `fileclose` | `Dup`, `Close`, `FileClose`, `Closed` |
| `sys_pipe`, `pipealloc` | `PipeAlloc0`, `PipeAlloc1`, `PipeAllocPage` (`NewPipe`, `FdAllocBoth`), `PipeAllocBad` |
| `pipeclose` | `PipeClose`, `PipeFree` |
| `pipewrite` | `WriteCall`, `WriteAll`, `WriteFull`, `WriteFails`, `Sleep` |
| `piperead` | `ReadCall`, `ReadEmpty`, `ReadBytes`, `ReadReturns`, `Sleep` |

`ByteQueue` is the promise: a bounded queue of bytes with two ends that are
opened together and closed one by one; `read()` returns nothing only at the end.

### `BlockStore`, `Bcache`, `BcacheProofs`, `MCBcache`

`bio.c`, the sleep locks of its buffers and the request queue of `ide.c`. A
thread looks a block up (`BgetHit`, `BgetMiss` with the LRU list), waits for the sleep lock
(`AcquireSleep`, `WaitForLock`), reads it if need be (`Iderw`, `IderwWoken`), changes it,
pins it (`LogWrite`) or writes it (`Bwrite`), and releases it in two steps
(`ReleaseSleep`, `Brelse`), between which others may take it. The drive (external)
finishes at any time (`DriveDone`), and `Ideintr` serves the queue. A thread has several `Hands`, with
a buffer in each: `install_trans()` and `write_log()` hold a log block and a home block, `bmap()` an indirect
block over `balloc()`'s bitmap block. Which block may be asked for over which is the constant `Nested`; while one hand
works or waits the other only holds (`InTurn`). A panic stops the machine. `BlockStore` is
what `Log` and the file system assume: one user per block, who sees its latest
value; the disk changes only inside a `bwrite()`, which returns after it did.

### `Inode`, `InodeProofs`, `MCInode`

The life of an inode: disk inodes, block bitmap, entries of the root directory,
the table `icache` with `ref`, `valid`, the copy and the sleep lock. `iput()` is
taken apart at every point where another thread can come in: the test
(`IputLock`), `bfree()` and `iupdate()` of `itrunc()` (`Itrunc`, `ItruncUpdate`), the freeing
`iupdate()` (`Ifree`), the release of the sleep lock (`IputRelease`) and `ref--` (`IputDrop`).
`sys_open`/`create` are `OpenFound`, `CreateNew`, `CreateEntry`, `OpenFile`, `OpenFails`; `sys_unlink` is
`UnlinkFound`, `UnlinkEntry`, `DropLink`; `sys_link` is `LinkFound`, `AddLink`, `Dirlink` and,
when the name exists, `DropLink`; writing is `WriteCall`, `Balloc`, `WriteUpdate`;
`Ilock` comes between. The three tables of fixed size can be full: `Iget` finds no entry of `icache`,
`IallocFails` no inode, `BallocFails` no block. A panic is a state in which everything stops. `leaked` is a history variable for what is
described under "Behaviours the properties allow for".

### `RWLock`, `MasterWorker`, `Semaphores`, `PthreadLab`, `PthreadLabProofs`, `MCPthreadLab`

The programs of the threads lab (`Lab08and09-*`), the author's ("lab") and the course's
("solution"). `RWLock` has four read-write locks, `MasterWorker` the
solution's stack and the lab's ring, `Semaphores` the zemaphore under `test-toggle.c` and
`batch-processing-semaphore.c`. `PthreadLab` composes them: its variable
`lab` names the program that runs, and each component is an `INSTANCE` that sees it.
A section of a mutex in which nothing blocks is one step; mutexes that are held while
another is awaited are variables. Every `pthread_cond_wait()` may return for no reason. Where the code
waits in a loop (`Spurious`) it tests again. At the two waits with `if` the thread goes on: a reader of the lab's
`reader_pref` reads (`PrefReaderStrays`), a toggling thread prints (`ZemStrays`). `ZemDown`, `ZemWaits` and `ZemStrays`
together are `zem_down()`.

## 3. Runs

| Run | Instance | Checks | Shows |
|---|---|---|---|
| `spinlock` | 2 CPUs with handlers, 2 locks; 131k states | `TypeOK`, `MutualExclusion`, `OwnerUninterruptible`, `NoPanic`, `InterruptsRestored`, `ImplementsAtomicLock`, no deadlock | nesting, handlers and contention leave the locks exclusive and the interrupt flag as it was |
| `proc` | 2 CPUs, 3 slots; 358k states | `TypeOK`, `RunningOnOneCPU`, `StackInUse`, `NoMissedExit`, `NoMissedTick`, `NoSchedPanic`, `ReapedByParent`, no deadlock | the hand-over of `ptable.lock` through `swtch()` protects what it must |
| `proc_full` | 1 CPU, 4 slots, 6 pages, 5 pids; 915k states | `PagesConserved`, `PidsUnique`, `ParentAlive` | every failing step of `fork()` undoes what came before |
| `proc_live` | 1 CPU, 3 slots, fair; 33k states | `RunnableRuns`, `KilledExits`, `OrphanReaped`, `SleepEnds` | progress, also for a process of the lowest priority and one killed while asleep |
| `proc_starve` | 1 CPU, priority -1 | `RunnableRuns`, violated | finding 1 |
| `proc_kill_free` | 1 CPU, `kill(0)` | `KillHitsProcess`, violated | finding 2 |
| `log` | 2 threads, 2 blocks, 2 values, 2 crashes; 908k states | `TypeOK`, `NoLogPanic`, `SleeperHasWaker`, `QuiescentDurable`, `ImplementsTransDisk`, `CommitEnds` | crash atomicity, a crash during the recovery from a crash included |
| `log_full` | 3 threads, calls as large as allowed | `NoLogPanic`, violated | finding 3 |
| `pipe` | 2 processes, 3 files, 2 descriptors, 2 bytes, counters modulo 4; 2.1M states | `TypeOK`, `PipeInUse`, `NoLostWakeup`, `ImplementsByteQueue`, no deadlock | the page is freed once and by the last user; wrapping counters keep full and empty apart; bytes come out once and in order |
| `bcache` | 2 threads of 2 hands, 4 blocks, 2 buffers, 2 values; 212k states | `TypeOK`, `OnlyBgetPanics`, `SleeperHasWaker`, `ImplementsBlockStore`, no deadlock | a buffer keeps its block while somebody waits for it; dirty blocks stay; every request is answered; `bget()` panics only when callers and log may have all buffers |
| `inode` | 2 threads, 2 names, 3 inodes, 2 entries of `icache`, 2 blocks; 2.4M states | `TypeOK`, `OnlyFullPanics`, `TreeConsistent`, no deadlock | nothing reachable is freed, no block has two owners, link counts equal entries, the lock order root before file holds; only a full table panics |
| `pthread_lab` | 3 readers, 2 writers; 2 masters, 2 workers, 4 items, 2 slots; 3 toggling threads; a batch of 3; 9.9k states | `LabSafe`, `WriterPreference`, `LabEnds` | exclusion, preference, items kept and consumed once, turns, with the exceptions below; all threads end but for the two hangs below |

Deadlock is checked except in `proc_full` and `pthread_lab`, whose programs end,
and irrelevant in the violated runs. In `proc_full` memory or table may be full when `init.c` forks, `init` exits and
the kernel panics, as the code says it does.

Every property has a mutant: a definition changed the way a plausible bug
would change it (a dropped test, a lock released early, a forgotten wakeup or
free), under which TLC finds the property violated. The mutated definitions
stand in the modules just before the ones they mutate.

### Bounds

- `NPROC` 3 has a parent, its child and `init`, the smallest table with
  orphans, and one slot that is reused; 4 slots with 6 pages let the table and
  the memory run out independently, with `kalloc()` failing at the stack as well
  as at the copy.
- `MaxPid` ends the forks, `MaxTicks` stops `ticks`. At `MaxPid` processes go on
  exiting and waiting, and `init` waits instead of forking; at `MaxTicks` the
  clock still interrupts and wakes. 5 pids over 4 slots reuse slots.
- `SleepArgs` {1}: one tick must pass, which is the race with the clock. `KillArgs`
  holds pids of live, dead and future processes, and in `proc_full` 0.
- `MAX_PRIORITY` 4 with granularity 2 gives two passes per round; the default
  priority 2 is in both and priority 0 only in the first.
- `MaxCrashes` 2: a crash, and one during recovery. `MaxOpWrites` 2 of
  `MAXOPBLOCKS` 4, in a log of 8 blocks with its header, the smallest sizes with room for two calls
  under the condition of `NoLogPanicHolds`: two blocks in a transaction, so that a torn one can be seen.
  It is less than `MAXOPBLOCKS` because of finding 3. Two values tell old from
  new.
- `pipe`: `PIPESIZE` 2 with lengths 1 and 3 gives writes that fit, that fill the
  buffer and that block in the middle; `WORD` 4 wraps the counters after two
  buffers (the code's 2^32 is a multiple of `PIPESIZE` as well). Three files, one of
  them the console's, let `filealloc()` fail for the second end, two descriptors let
  `fdalloc()` fail. `Lengths` bounds the arguments.
- `bcache`: 4 blocks do not fit 2 buffers, so buffers are recycled; one of the blocks is a log block, held
  over the others. `MaxPinned` 1 leaves one buffer for two threads of two hands, so `bget()` often finds none and
  panics: in `param.h` `NBUF` equals `LOGSIZE`, of which the log may pin all but one, and only the usual size of a
  transaction keeps the kernel away from that. `OnlyBgetPanics` says what the code does ensure.
- `inode`: two names for the same file are what `link()` needs. Three inodes with two entries of `icache` and two
  blocks let `iget()`, `ialloc()` and `balloc()` find nothing, as they can in the kernel (50 entries for 64 processes,
  200 inodes, 1000 blocks), and entries and numbers are reused. `MaxLink` 4 is never reached: two entries and two calls
  under way.
- `pthread_lab`: two readers behind a first one, writers that compete, more items than
  slots. A ring of `max_buf_size` 1 can hold nothing and never moves. Wakeups for no reason are not counted: a wait that is
  tested again goes back to where it was, and each thread can stray once per reading or turn.

Symmetry is used in `bcache` and `inode` only, over threads, blocks, values, names and inode
numbers, which no definition orders; slots of tables are ordered (the scans take the first match) and
kept apart. It is never used with liveness.

### Fairness

`Proc!Fairness` says, per CPU: weak fairness of the steps between scheduler and
process; strong fairness of `scheduler()`, of a process in the kernel and
of the clock, since each of them competes for `ptable.lock`, `tickslock` or an
enabled interrupt flag again and again. This is the usual reading of a spin
lock and of a periodic clock: no CPU spins for ever for a lock that is free
infinitely often, and a pending clock interrupt is taken once interrupts come on
often enough. `xchg` itself guarantees no such fairness; the progress
results depend on it. `init.c` is assumed to go on making system calls; no
other user program is assumed to do anything. `Log!FairSpec` assumes that a commit
and a recovery continue while the machine is up, and nothing of the callers.
`PthreadLab!Fairness` is weak fairness of each thread: a thread that can go on does. For the ring it is
strong: there a thread holds the mutex for a whole loop and others get it only in between,
and every implementation of a mutex lets a waiter have it eventually.
`Pipe`, `Bcache` and `Inode` claim no progress; that a sleeper has a waker is stated as an invariant.

### Behaviours the properties allow for

Four properties name exceptions, because the code has them. Without them TLC
shows each as a counterexample.

- `NoLostWakeup` (`pipe.c:86`): a `pipewrite()` that filled the buffer and finds itself
  killed returns without `wakeup(&p->nread)`. A reader that went to sleep on the empty pipe
  stays asleep on a full one until the next write or close (`unannounced`). `exit()` of the killed
  writer wakes it only if it closes the last writing end.
- `TreeConsistent` (`fs.c:349`): `iput()` tests `ref == 1` under the inode's lock and lowers
  `ref` after it released that lock. Of two overlapping calls for the last two references each can
  count the other; neither frees the file without links, whose inode and blocks are lost
  (`leaked`). `fs.c:327` says that the inode is freed "If that was the last reference".
  This is a leak only: nothing in use is freed.
- `LabEnds`, `Stranded` (`rwlock-reader-pref.cpp:21`): a reader that comes while the first one has
  not yet set `read_avail` waits on `cond_reader`. It is counted, so no later reader is a first
  one, and nobody broadcasts to it.
- `LabEnds`, `Overrun` (`master-worker.c:55`): a master woken with `ready` 0 leaves the inner loop and stores
  its item into the full ring, which then looks empty: items are lost and the workers wait for them. The lab's
  `check.awk:21` counts each item produced and consumed once and so rejects such an execution. `LabSafe` (`ItemsKept`)
  claims conservation for the stack always and for the ring until then; that nothing is consumed twice it claims always.
- `LabSafe`, "strayed" (`rwlock-reader-pref.cpp:21`): a wakeup for no reason ends the `if`, and the reader reads although
  its batch's first reader may still wait for `lock`, which a writer has. `Exclusive` allows that reader then, and no
  other; once the first reader has `lock` the strayed one is a reader like the rest. Since it is counted, `lock` is never
  given up under it.
- `LabSafe`, `stray` (`zemaphore.c:19`): the same at the `if` of `zem_down()`, whose thread goes on without a signal.
  `InTurn` lets a thread be ahead of the one before it by the number of times it went on so (`stray`), and no
  further; when nobody did, threads print strictly in turn.


## 4. Proofs

TLC's instances are small; these results hold for every value of the constants that the
module's assumption admits. Every inductive invariant named here was checked by TLC on the
instance of its component before it was proved. Sets of threads, processes, readers and so on
are finite, because the kernel has `NPROC` slots and the lab programs create fixed numbers of
threads; the proofs need that to count them.

**`SpinlockProofs`**, from `LockAssumption` (no lock is taken while it is already
held; any numbers of CPUs and locks, any other `Order`): `TypeCorrect`, `MutualExclusionHolds`,
`OwnerUninterruptibleHolds`, `NoPanicHolds`, `InterruptsRestoredHolds`, `Refinement`.
Mutual exclusion alone is not inductive: `LockInv` adds that `locked[l]` is true exactly
while somebody is in the section of `l` (so the successful `xchg` finds nobody
there), and that a context about to record or clear the owner, or to store 0, is in the section.
`CliInv` is about interrupts: `ncli` is the number of locks the running context holds, plus one
inside a `pushcli()` or before a `popcli()` (`Depth`); the flag is on exactly when that is 0 and the
context wants it on, and `intena` remembers the wish; a context that was interrupted holds nothing.
The `eflags` read before `cli()` may be stale only when they do not matter (`SavedFlags`).
The refinement follows step by step: `Xchg` is the abstract acquire,
`StoreZero` the release, everything else stutters.

**`ProcProofs`**, from `ProcAssumption` (at least one slot, memory for `init`,
a boot CPU, a default priority in range): `TypeCorrect`, `RunningOnOneCPUHolds`,
`NoSchedPanicHolds`, `StackInUseHolds`, for any table size, number of CPUs, memory and argument
sets. The inductive invariant `IInv` says what a CPU's position implies:

- `CPUShape`: `c->proc` is set exactly when the CPU executes a process;
- `LockShape`: `ptable.lock` is held by exactly the CPU that is scanning, landing in
  a process or leaving one, so that hand-over through `swtch()` never has two owners;
- `TickShape`: `tickslock` is held only by the clock handler and by a `sys_sleep()`
  whose process stays on its CPU, which is why `sched()` never sees a second lock;
- `SwtchShape`: a process in `sched()` is no longer `RUNNING`;
- `ForkShape`, `MemoryShape`: `fork()`'s slot is an `EMBRYO` no other `fork()` has, and owns what
  the finished steps allocated. Between `allocproc()` and the last step of `fork()` no
  lock is held, so the slot's state is all that protects it.

`StackInUse` then follows: a `ZOMBIE` in `sched()` holds the lock that `wait()` needs to
free its stack.

**`ProcTableProofs`**, over `IInv`: `PidsUniqueHolds`, `ParentAliveHolds`, `PagesConservedHolds`,
`NoMissedExitHolds`, `NoMissedTickHolds`, `ReapedByParentHolds`. None of these is inductive alone;
`TableInv` joins them with

- `PidShape`: every pid given out is less than `nextpid`;
- `TreeShape`: the parent of a free slot is null, and that of a slot in `fork()` is null until
  `fork()` sets it; a process in `fork()` is alive, and so is `init`;
- `PageShape`: what the slot that `fork()` works on owns, so that each failing exit gives back exactly that;
- `ContextShape`: where a process will resume says what it sleeps on (`wait()` on itself,
  `sys_sleep()` on `&ticks`), so that `wakeup1()` finds it;
- `WakeupShape`: between `sys_sleep()`'s test and `sleep()` the ticks cannot advance.

Most steps change nothing of this kind. Three frame predicates say so (`Calm`: no slot is allocated,
filled or freed; `SameContexts`; `Quiet`: nothing that a sleeper waits for), and the proof treats the
actions that are not frames one by one.

**`BcacheProofs`**, from `BcacheAssumption` (finitely many threads and hands; no block is asked for over
itself; any number of buffers and of pinned blocks): `TypeCorrect`, `OnlyBgetPanicsHolds`, `SleeperHasWakerHolds`,
`Refinement` (of `BlockStore`). There is no assumption that the buffers suffice, because `param.h` does not make them.
`IInv` counts the references (`RefCounts`: `refcnt` is the number of hands between `bget()` and
`brelse()`), so that a buffer that may be recycled has no user; has one buffer per block
(`CachedOnce`) and different blocks in a thread's hands (`HandShape`), so that no thread waits for itself; says whose a
sleep lock is and what `B_VALID` and `B_DIRTY` are at each
point of a caller (`LockShape`, `FlagShape`); ties `idequeue` to the threads asleep in `iderw()`, each once,
and the drive to the head of the queue (`QueueShape`, `DriveShape`). `PinnedBound` counts the dirty
buffers that are the log's; when `bget()` finds nothing every buffer is one of these or in a hand.

**`LogProofs`**, from `LogAssumption` (`MAXOPBLOCKS` at most `LOGSIZE`; any number of threads, blocks
and crashes): `TypeCorrect`, `QuiescentDurableHolds`, `SleeperHasWakerHolds`, `Refinement` (of
`TransDisk`), and `NoLogPanicHolds` under a condition on the constants, that a call writes so many blocks
fewer than `MAXOPBLOCKS` that the log has room for the rest (at most 8 with the sizes of `param.h`);
without it the panic is reached (finding 3). The argument for the reservation of `begin_op()` counts pairs of a
running call and a block that it has recorded (`Spent`): `log.lh.n` and the reservations of all calls together never
exceed `LOGSIZE` plus these pairs (`Budget`). A count of blocks alone is not inductive, because of
absorption: two calls may record the same block.
Crash atomicity rests on `HeadShape` (the header on disk is empty until `write_head()` makes the whole transaction
valid, and until it is erased it is the transaction being installed), `DirtyShape` (what the log or the
cache alone has is pinned) and `CopyShape` (the log holds what the cache held, and the part of
it before `tail` is at home). In every state of a recovery the disk therefore says the same as before the crash.

**`PipeProofs`**, from `PipeAssumption` (the counters' width is a multiple of `PIPESIZE` and larger than it):
`TypeCorrect`, `PipeInUseHolds`, `NoLostWakeupHolds`, `Refinement` (of `ByteQueue`).
`f->ref` is the number of places that name the file: descriptors of a process and the files
it has outside of them, in `sys_pipe()` or on the way through `fileclose()` (`RefShape`, with one function
`held` over all places). `KindShape`, `EndShape` and `UserShape` go from there to the page: each end is one file or
the process that closes it, and whoever reads or writes has a descriptor of that end.
`LockShape` says what the process about to sleep has seen; `DataShape` that the bytes between `nread` and `nwrite` are
written ones. The counters are taken modulo `WORD`; that slots stay apart when they wrap is a
lemma on `%` (`SlotPeriod`).

**`PthreadLabProofs`**, from `LabAssumption`: `LabSafeHolds` and `WriterPreferenceHolds`, for any number of
threads, items, slots, turns and requests. Per program:

- read-write locks: `numreader` and `numwriter` count threads by where they are; the first reader of a batch is
  alone until it has `lock`, and holds the common mutex in all but the lab's reader-preference one
  (`FirstAlone`); `lock` has one holder, a writer, a last reader or a batch (`OneHolder`);
- the stack: an item that was produced is in one slot or was consumed, once;
- the ring: the slots from the consumer's index on hold the last items produced, in order (`RingItems`). Until a master
  overruns it, what was read is what was produced and does not wait any more, and masters are told to stop only when all
  is produced (`RingKept`), so that each item is in one slot or was consumed. Each master overruns it by at most one
  item (`RingTurns`): items are lost then, none is consumed twice;
- the toggle: a semaphore's value is the number of times it was raised less the number of times it was lowered, by
  threads that passed or wait (`Balanced`); a thread has passed at most once for each raise, and `stray` times more;
- the batch: the producer is woken once, and posts as often as requests are served or will be (`BatchInv`).

**`InodeProofs`**, from `InodeAssumption` (finitely many threads, names and disk inodes; any number of blocks and of
entries of `icache`): `TypeCorrect`, `TreeConsistentHolds` and `OnlyFullPanicsHolds`. No size of a table is
assumed to suffice: `NINODE` is 50, `mkfs.c` makes 200 inodes and 64 processes can each use several, so `iget()` may panic, and
`OnlyFullPanicsHolds` says exactly when. `TreeConsistent` is about the states before a panic, after which
nothing happens; types hold in all states.
Two entries of one inode, or a stale `ref`, would let `iput()` free a file in use, so `IInv` needs:

- `RefInv`: `ref` counts the references, those of calls at work (`IpUsers`), of `iput()`s
  that have yet to drop theirs (`PutUsers`) and of open files (`FdUsers`). This is why `ref == 1` in `iput()` means that nobody
  else can reach the inode (`FreeInv`), although `icache.lock` is released before the inode is freed: with no entry of the
  directory left and one reference, no `iget()` can find it;
- `EntryInv`, `CopyInv`, `ValidInv`: one entry per inode, whose valid copy is the disk's except between a change and its
  `iupdate()`; and who can meet an entry that is not valid, as `iput()` leaves it after a free;
- `LockInv`, `RootInv`: the sleep locks by position, and that the name a call looked up stays what it was while
  the root is locked;
- `LinkInv`: `nlink` is the number of entries and of calls between changing the one and the other (`Uncounted`);
- `CreateInv`, `NoneInv`, `LastInv`: `create()` is alone with its inode until the entry is made; a free inode has no links
  and no user but calls that drop it; an allocated one without links has a user who will test for it, or is `leaked`;
- `BlockInv`: the bitmap is exactly the blocks of the inodes, no two of which share one.

**Only model-checked**: all liveness (the prover has no fairness reasoning): `RunnableRuns`, `KilledExits`,
`OrphanReaped`, `SleepEnds`, `CommitEnds`, `LabEnds`; the absence of deadlock (it is about ENABLED); and the
three properties that are violated.

## 5. Findings

1. *A negative priority starves* (`proc.c:131`). `setprio()` clips only from
   above and the scheduler's thresholds start at 0, so `setprio(-1)` and one clock tick leave
   a process `RUNNABLE` for ever, also when every CPU is idle. `yield()` is documented as giving up
   the CPU "for one scheduling round".
2. *`kill(0)` marks a free slot* (`proc.c:587`). `kill()` compares pids and not
   states; a free slot has pid 0, and `allocproc()` does not clear `killed`, so the next process
   in that slot is born killed. The comment promises to kill "the process with the given pid".
3. *The log holds one block less than reserved* (`log.c:218`). `begin_op()` admits calls up
   to `LOGSIZE` blocks, `mkfs.c` makes the log `LOGSIZE` blocks long with the
   header included, and `log_write()` panics at `LOGSIZE - 1`. Three concurrent calls that use their
   whole reservation reach the panic.

## 6. Not modelled, and why

- In `proc.c`: `growproc` (memory module), `getNumProc`, `getMaxPid`, `getProcInfo` (they only
  read), `welcomeFunction` (user program counters are not in the model), `nextpid` and `ticks` beyond their bounds, negative
  arguments of `sys_sleep`, faults of `init`.
- In `spinlock.c`: `getcallerpcs` records debugging data only. Memory is sequentially
  consistent, which the `__sync_synchronize()` calls are there to give.
- In `log.c`: starvation in `begin_op()`. Woken callers compete again and
  nothing in the code orders them, so no progress is claimed for them.
- In `ide.c`: a read that fails (`ide.c:118` sets `B_VALID` all the same), `ideinit()`. `memide.c` answers at
  once and has no queue.
- In `fs.c` and `sysfile.c`: subdirectories, pathnames, `chdir`, `mkdir`, devices, indirect blocks, sizes.
  `dirlink()` of the name "." is left out: `dirlookup()` then returns the directory itself, and `iput()` waits for the
  lock the caller holds (`fs.c:559`), for ever. Crashes belong to `Log`: a call is one
  transaction. File descriptors of inodes are not shared by `dup` or `fork` in `Inode`; that is in `Pipe`.
- In the threads lab: `master-worker-semaphore.c` posts its mutex twice and so excludes nobody;
  `batch-processing.c` says "Wrong code" of itself. A mutex unlocked by another thread than its owner (the last
  reader's `unlock(&rw->lock)`) is undefined by POSIX and modelled as the usual plain release.
- Page tables, `exec()`, and the lazy `mmap` of Lab07: sequential code over large data; only its counts would
  show in a model (plan).
- Hardware, boot code and user programs: no state machine of their own, or
  clients of the kernel. The other xv6 trees: copies. Python, documents and CAD files: no system.

## 7. Plan

1. Memory: `kalloc`, page tables, lazy `mmap` and page counters of Lab07. Known there already: `fork()` of a
   process with an untouched lazy page reaches the panic of `copyuvm()`.
2. Subdirectories in `Inode`: `unlink` of a directory against `create` in it.
3. The input ring of `console.c`, the process queries of `proc.c`.
