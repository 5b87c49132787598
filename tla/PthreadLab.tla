----------------------------- MODULE PthreadLab ------------------------------
(***************************************************************************)
(* The programs of the threads lab, one of which runs: lab is its name.    *)
(***************************************************************************)
EXTENDS Integers, FiniteSets

CONSTANTS
    Programs,      \* the programs of which one runs
    Readers, Writers,
    Masters, Workers, NoOne, total_items, max_buf_size,
    NUM_THREADS, NUM_ITER, BATCH

RWLocks == {"writer_pref", "reader_pref", "sol_writer_pref", "sol_reader_pref"}
MasterWorkers == {"stack", "ring"}
Tasks == {"toggle", "batch"}

ASSUME LabAssumption ==
    /\ Programs \subseteq RWLocks \cup MasterWorkers \cup Tasks
    /\ IsFiniteSet(Readers) /\ IsFiniteSet(Writers) /\ Readers \cap Writers = {}
    /\ IsFiniteSet(Masters) /\ IsFiniteSet(Workers) /\ Masters \cap Workers = {}
    /\ NoOne \notin Masters \cup Workers
    /\ total_items \in Nat /\ max_buf_size \in Nat \ {0}
    /\ NUM_THREADS \in Nat \ {0} /\ NUM_ITER \in Nat \ {0} /\ BATCH \in Nat \ {0}

VARIABLES
    lab,
    numreader, numwriter, read_avail, commonlock, lock, rwpc,
    holder, item_to_produce, item_to_read, buffer, curr_buf_size, curr_cons_size,
    ready, consumed, mwpc,
    value, iter, stray, zpc, cnt, cv_prod, cv_req, posts, bpc

RW == INSTANCE RWLock WITH kind <- lab
MW == INSTANCE MasterWorker WITH program <- lab
Sem == INSTANCE Semaphores WITH task <- lab

rwVars == <<numreader, numwriter, read_avail, commonlock, lock, rwpc>>
mwVars == <<holder, item_to_produce, item_to_read, buffer, curr_buf_size,
            curr_cons_size, ready, consumed, mwpc>>
semVars == <<value, iter, stray, zpc, cnt, cv_prod, cv_req, posts, bpc>>
vars == <<lab, rwVars, mwVars, semVars>>

Init == lab \in Programs /\ RW!Init /\ MW!Init /\ Sem!Init

Next ==
    \/ lab \in RWLocks /\ RW!Next /\ UNCHANGED <<lab, mwVars, semVars>>
    \/ lab \in MasterWorkers /\ MW!Next /\ UNCHANGED <<lab, rwVars, semVars>>
    \/ lab \in Tasks /\ Sem!Next /\ UNCHANGED <<lab, rwVars, mwVars>>

\* Every thread that can go on does; a mutex or semaphore that stays free is taken.
Fairness ==
    /\ lab \in RWLocks => RW!Fairness
    /\ lab \in MasterWorkers => MW!Fairness
    /\ lab \in Tasks => Sem!Fairness

FairSpec == Init /\ [][Next]_vars /\ Fairness

-----------------------------------------------------------------------------
(* Properties *)

\* What the tests of the lab look for in a program's output, and what is left of it
\* where the code falls short: a writer writes alone, but for a reader that a
\* spurious wakeup lets in before its batch has the lock; an item is consumed once
\* and kept until then, but in a ring that was overrun; threads print in turn, but
\* for spurious wakeups; a batch is served as a whole; and no index or count leaves
\* its range.
LabSafe ==
    /\ RW!TypeOK /\ MW!TypeOK /\ Sem!TypeOK
    /\ RW!Exclusive
    /\ MW!ItemsKept
    /\ Sem!InTurn /\ Sem!ServedTogether

\* With the writer-preference locks no reader starts to read while a writer
\* waits, however the first reader of a batch and the writers interleave.
WriterPreference == [][RW!WriterGoesFirst]_vars

Finished == CASE lab \in RWLocks -> RW!AllDone
              [] lab \in MasterWorkers -> MW!AllDone
              [] lab \in Tasks -> Sem!AllDone

\* Every thread ends: nobody waits for ever on a mutex, a condition variable or
\* a semaphore.  The lab's "reader_pref" and "ring" may hang, and only when a
\* reader that came before the first one had set read_avail waits for ever, or
\* after a master stored an item when it was told to stop.
LabEnds == <>Finished \/ <>[](RW!Stranded \/ MW!Overrun)
=============================================================================
