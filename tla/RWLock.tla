------------------------------- MODULE RWLock --------------------------------
(***************************************************************************)
(* The read-write locks of the threads lab.  Each thread takes the lock    *)
(* once and gives it back, as the Reader() and Writer() threads of the     *)
(* tests do.  kind says which implementation runs:                         *)
(*   "writer_pref"      the lab's rwlock-writer-pref.cpp                   *)
(*   "reader_pref"      the lab's rwlock-reader-pref.cpp                   *)
(*   "sol_writer_pref"  the solution's rwlock-writer-pref.cpp              *)
(*   "sol_reader_pref"  the solution's rwlock-reader-pref.cpp              *)
(* A section of the common mutex (commonlock, lock_w, lock_r) in which     *)
(* nothing blocks is one step.                                             *)
(***************************************************************************)
EXTENDS Integers, FiniteSets

CONSTANTS Readers, Writers

VARIABLES
    kind,          \* never changes; the composing module chooses it
    numreader, numwriter,
    read_avail,    \* used by "reader_pref" only
    commonlock,    \* held across a step, by the first reader of a batch
    lock,          \* held by a writer or by the batch of readers
    rwpc

vars == <<numreader, numwriter, read_avail, commonlock, lock, rwpc>>

WriterFirst == kind \in {"writer_pref", "sol_writer_pref"}
Solution == kind \in {"sol_writer_pref", "sol_reader_pref"}

TypeOK ==
    /\ numreader \in 0..Cardinality(Readers) /\ numwriter \in 0..Cardinality(Writers)
    /\ read_avail \in BOOLEAN /\ commonlock \in BOOLEAN /\ lock \in BOOLEAN
    /\ \A r \in Readers : rwpc[r] \in {"start", "cond", "first", "set_avail", "reading",
                                   "strayed", "last", "done"}
    /\ \A w \in Writers : rwpc[w] \in {"start", "cond", "want", "writing", "last", "done"}

Init ==
    /\ numreader = 0 /\ numwriter = 0 /\ read_avail = FALSE
    /\ commonlock = FALSE /\ lock = FALSE
    /\ rwpc = [t \in Readers \cup Writers |-> "start"]

Goto(t, label) == rwpc' = [rwpc EXCEPT ![t] = label]

\* pthread_cond_broadcast() to the threads of S, with t going on at label.
BroadcastAndGoto(t, label, S, awake) ==
    rwpc' = [u \in Readers \cup Writers |-> IF u = t THEN label
                 ELSE IF u \in S /\ rwpc[u] = "cond" THEN awake ELSE rwpc[u]]

-----------------------------------------------------------------------------
(* ReaderLock() *)

ReaderWaits(r) ==
    /\ rwpc[r] = "start" /\ ~commonlock
    /\ WriterFirst /\ numwriter > 0
    /\ Goto(r, "cond")
    /\ UNCHANGED <<numreader, numwriter, read_avail, commonlock, lock>>

\* The first of a batch keeps the common mutex while it waits for lock.
\* Mutant: it releases the common mutex first.
HoldCommonNot == FALSE
HoldCommon == TRUE

ReaderEnters(r) ==
    /\ rwpc[r] = "start" /\ ~commonlock
    /\ kind # "reader_pref" /\ (WriterFirst => numwriter = 0)
    /\ numreader' = numreader + 1
    /\ IF numreader = 0 THEN Goto(r, "first") /\ commonlock' = HoldCommon
       ELSE Goto(r, "reading") /\ UNCHANGED commonlock
    /\ UNCHANGED <<numwriter, read_avail, lock>>

ReaderTakesLock(r) ==
    /\ rwpc[r] = "first" /\ ~lock /\ kind # "reader_pref"
    /\ lock' = TRUE /\ commonlock' = FALSE
    /\ Goto(r, "reading")
    /\ UNCHANGED <<numreader, numwriter, read_avail>>

\* "reader_pref": the first reader broadcasts and goes on to wait for lock, a
\* later one waits, with if and not while, unless read_avail is already set.
PrefReaderEnters(r) ==
    /\ rwpc[r] = "start" /\ kind = "reader_pref"
    /\ numreader' = numreader + 1
    /\ IF numreader = 0 THEN BroadcastAndGoto(r, "first", Readers, "reading")
       ELSE Goto(r, IF read_avail THEN "reading" ELSE "cond")
    /\ UNCHANGED <<numwriter, read_avail, commonlock, lock>>

\* Its pthread_cond_wait() may return for no reason: the reader reads, whoever has lock.
PrefReaderStrays(r) ==
    /\ rwpc[r] = "cond" /\ kind = "reader_pref"
    /\ Goto(r, "strayed")
    /\ UNCHANGED <<numreader, numwriter, read_avail, commonlock, lock>>

PrefReaderTakesLock(r) ==
    /\ rwpc[r] = "first" /\ ~lock /\ kind = "reader_pref"
    /\ lock' = TRUE
    /\ Goto(r, "set_avail")
    /\ UNCHANGED <<numreader, numwriter, read_avail, commonlock>>

\* rw->read_avail = 1, under no mutex that its readers hold.
PrefReaderSets(r) ==
    /\ rwpc[r] = "set_avail"
    /\ read_avail' = TRUE
    /\ Goto(r, "reading")
    /\ UNCHANGED <<numreader, numwriter, commonlock, lock>>

-----------------------------------------------------------------------------
(* ReaderUnlock() *)

ReaderLeaves(r) ==
    /\ rwpc[r] \in {"reading", "strayed"} /\ ~commonlock
    /\ numreader' = numreader - 1
    /\ IF numreader > 1
       THEN Goto(r, "done") /\ UNCHANGED <<read_avail, lock>>
       ELSE /\ BroadcastAndGoto(r, IF Solution THEN "done" ELSE "last",
                                IF kind = "reader_pref" THEN Writers ELSE {}, "start")
            /\ read_avail' = FALSE
            /\ lock' = (lock /\ ~Solution)
    /\ UNCHANGED <<numwriter, commonlock>>

\* The lab's versions unlock lock after the common mutex; so do their writers.
LastUnlocks(t) ==
    /\ rwpc[t] = "last"
    /\ lock' = FALSE
    /\ Goto(t, "done")
    /\ UNCHANGED <<numreader, numwriter, read_avail, commonlock>>

-----------------------------------------------------------------------------
(* WriterLock(), WriterUnlock() *)

WriterCounts(w) ==
    /\ rwpc[w] = "start" /\ ~commonlock
    /\ WriterFirst
    /\ numwriter' = numwriter + 1
    /\ Goto(w, "want")
    /\ UNCHANGED <<numreader, read_avail, commonlock, lock>>

\* "reader_pref" waits until no reader is counted, the solution for nothing.
WriterTests(w) ==
    /\ rwpc[w] = "start" /\ ~WriterFirst
    /\ Goto(w, IF kind = "reader_pref" /\ numreader > 0 THEN "cond" ELSE "want")
    /\ UNCHANGED <<numreader, numwriter, read_avail, commonlock, lock>>

WriterTakesLock(w) ==
    /\ rwpc[w] = "want" /\ ~lock
    /\ lock' = TRUE
    /\ Goto(w, "writing")
    /\ UNCHANGED <<numreader, numwriter, read_avail, commonlock>>

\* The last counted writer wakes the readers; mutant: it wakes nobody.
WokenByNone == {}
WokenByLast == IF numwriter = 1 THEN Readers ELSE {}

WriterUncounts(w) ==
    /\ rwpc[w] = "writing" /\ WriterFirst /\ ~commonlock
    /\ numwriter' = numwriter - 1
    /\ BroadcastAndGoto(w, "last", WokenByLast, "start")
    /\ UNCHANGED <<numreader, read_avail, commonlock, lock>>

WriterUnlocks(w) ==
    /\ rwpc[w] = "writing" /\ ~WriterFirst
    /\ lock' = FALSE
    /\ Goto(w, "done")
    /\ UNCHANGED <<numreader, numwriter, read_avail, commonlock>>

-----------------------------------------------------------------------------
Reader(r) ==
    \/ ReaderWaits(r) \/ ReaderEnters(r) \/ ReaderTakesLock(r)
    \/ PrefReaderEnters(r) \/ PrefReaderTakesLock(r) \/ PrefReaderSets(r)
    \/ ReaderLeaves(r) \/ LastUnlocks(r)

Writer(w) ==
    \/ WriterCounts(w) \/ WriterTests(w) \/ WriterTakesLock(w)
    \/ WriterUncounts(w) \/ WriterUnlocks(w) \/ LastUnlocks(w)

\* pthread_cond_wait() may return for no reason: where a while loop tests again.
Spurious(t) ==
    /\ rwpc[t] = "cond" /\ (t \in Readers => kind # "reader_pref")
    /\ Goto(t, "start")
    /\ UNCHANGED <<numreader, numwriter, read_avail, commonlock, lock>>

Next ==
    \/ \E r \in Readers : Reader(r)
    \/ \E w \in Writers : Writer(w)
    \/ \E t \in Readers \cup Writers : Spurious(t)
    \/ \E r \in Readers : PrefReaderStrays(r)

Fairness == (\A r \in Readers : WF_vars(Reader(r))) /\ \A w \in Writers : WF_vars(Writer(w))

AllDone == \A t \in Readers \cup Writers : rwpc[t] = "done"

\* A reader of "reader_pref" that found read_avail unset: nobody will wake it.
Stranded == kind = "reader_pref" /\ \E r \in Readers : rwpc[r] = "cond"

-----------------------------------------------------------------------------
\* A writer has the lock alone.  Only in "reader_pref" is a reader beside it, after
\* a pthread_cond_wait() that returned for no reason, and only until the first
\* reader of its batch has lock.
Exclusive == \A w \in Writers : rwpc[w] = "writing" =>
    \A t \in (Readers \cup Writers) \ {w} :
        /\ rwpc[t] \notin {"reading", "writing"}
        /\ rwpc[t] = "strayed" => kind = "reader_pref" /\ \E r \in Readers : rwpc[r] = "first"

\* With writer preference no reader starts to read past a writer that is waiting.
WriterGoesFirst == \A r \in Readers :
    (WriterFirst /\ rwpc[r] # "reading" /\ rwpc'[r] = "reading")
        => \A w \in Writers : rwpc[w] # "want"
=============================================================================
