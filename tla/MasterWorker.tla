---------------------------- MODULE MasterWorker -----------------------------
(***************************************************************************)
(* The master-worker programs of the threads lab: masters put the numbers  *)
(* 0, 1, ... total_items - 1 into a bounded buffer, workers take them.     *)
(*   "stack"  the solution's master-worker.c; the mutex is taken for each  *)
(*            item, so a turn of a loop is one step                        *)
(*   "ring"   the lab's master-worker.c; the mutex is held from the start  *)
(*            to the end of a loop, except inside pthread_cond_wait()      *)
(***************************************************************************)
EXTENDS Integers, FiniteSets

CONSTANTS Masters, Workers, NoOne, total_items, max_buf_size

VARIABLES
    program,          \* never changes; the composing module chooses it
    holder,           \* of the mutex, between two steps of "ring"
    item_to_produce, item_to_read,
    buffer, curr_buf_size, curr_cons_size,
    ready,
    consumed,         \* consumed[i]: how often item i was printed as consumed
    mwpc

vars == <<holder, item_to_produce, item_to_read, buffer, curr_buf_size,
          curr_cons_size, ready, consumed, mwpc>>

Threads == Masters \cup Workers
\* A master of "ring" that is told to stop may still produce one item.
Items == 0..total_items + Cardinality(Masters)
Slots == 0..max_buf_size - 1

TypeOK ==
    /\ holder \in Threads \cup {NoOne}
    /\ item_to_produce \in Items /\ item_to_read \in 0..total_items
    /\ buffer \in [Slots -> Items]
    /\ curr_buf_size \in 0..max_buf_size /\ curr_cons_size \in Slots
    /\ ready \in BOOLEAN
    /\ consumed \in [Items -> 0..total_items]
    /\ mwpc \in [Threads -> {"start", "loop", "test", "waiting", "woken", "done"}]

Init ==
    /\ holder = NoOne
    /\ item_to_produce = 0 /\ item_to_read = 0
    /\ buffer = [s \in Slots |-> 0] /\ curr_buf_size = 0 /\ curr_cons_size = 0
    /\ ready = TRUE
    /\ consumed = [i \in Items |-> 0]
    /\ mwpc = [t \in Threads |-> "start"]

Goto(t, label) == mwpc' = [mwpc EXCEPT ![t] = label]
Waiting(S) == {t \in S : mwpc[t] = "waiting"}

\* The threads W are woken while t goes on at label.
WakeAndGoto(t, label, W) ==
    mwpc' = [u \in Threads |-> IF u = t THEN label ELSE IF u \in W THEN "woken" ELSE mwpc[u]]

\* pthread_cond_signal(): one of the waiting threads, if there is one.
SignalAndGoto(t, label, S) ==
    IF Waiting(S) = {} THEN Goto(t, label)
    ELSE \E u \in Waiting(S) : WakeAndGoto(t, label, {u})

Produce(slot) ==
    /\ buffer' = [buffer EXCEPT ![slot] = item_to_produce]
    /\ item_to_produce' = item_to_produce + 1

Consume(slot) ==
    /\ consumed' = [consumed EXCEPT ![buffer[slot]] = @ + 1]

-----------------------------------------------------------------------------
(* "stack" *)

AtTop(t) == program = "stack" /\ mwpc[t] \in {"start", "woken"}

Room == curr_buf_size < max_buf_size

StackProduces(m) ==
    /\ AtTop(m) /\ Room /\ item_to_produce < total_items
    /\ Produce(curr_buf_size)
    /\ curr_buf_size' = curr_buf_size + 1
    /\ WakeAndGoto(m, "start", Waiting(Workers))
    /\ UNCHANGED <<holder, item_to_read, curr_cons_size, ready, consumed>>

StackMasterDone(m) ==
    /\ AtTop(m) /\ Room /\ item_to_produce >= total_items
    /\ WakeAndGoto(m, "done", Waiting(Masters))
    /\ UNCHANGED <<holder, item_to_produce, item_to_read, buffer, curr_buf_size,
                   curr_cons_size, ready, consumed>>

\* buffer[--curr_buf_size]; mutant: the item is read before the decrement.
TopBefore == curr_buf_size % max_buf_size
Top == curr_buf_size - 1

StackConsumes(w) ==
    /\ AtTop(w) /\ curr_buf_size > 0
    /\ Consume(Top)
    /\ curr_buf_size' = curr_buf_size - 1
    /\ WakeAndGoto(w, "start", Waiting(Masters))
    /\ UNCHANGED <<holder, item_to_produce, item_to_read, buffer, curr_cons_size, ready>>

StackWorkerDone(w) ==
    /\ AtTop(w) /\ curr_buf_size = 0 /\ item_to_produce >= total_items
    /\ WakeAndGoto(w, "done", Waiting(Workers))
    /\ UNCHANGED <<holder, item_to_produce, item_to_read, buffer, curr_buf_size,
                   curr_cons_size, ready, consumed>>

StackWaits(t) ==
    /\ AtTop(t)
    /\ \/ t \in Masters /\ ~Room
       \/ t \in Workers /\ curr_buf_size = 0 /\ item_to_produce < total_items
    /\ Goto(t, "waiting")
    /\ UNCHANGED <<holder, item_to_produce, item_to_read, buffer, curr_buf_size,
                   curr_cons_size, ready, consumed>>

-----------------------------------------------------------------------------
(* "ring" *)

\* The thread has the mutex, or takes it now, at the head of its outer loop.
AtLoop(t) == /\ program = "ring"
             /\ \/ mwpc[t] = "start" /\ holder = NoOne
                \/ mwpc[t] = "loop" /\ holder = t

Finish(t, S) ==
    /\ ready' = FALSE /\ holder' = NoOne
    /\ WakeAndGoto(t, "done", Waiting(S))
    /\ UNCHANGED <<item_to_produce, item_to_read, buffer, curr_buf_size,
                   curr_cons_size, consumed>>

RingMasterDone(m) ==
    /\ AtLoop(m) /\ (~ready \/ item_to_produce >= total_items)
    /\ Finish(m, Masters)

RingWorkerDone(w) ==
    /\ item_to_read >= total_items
    /\ AtLoop(w) \/ (mwpc[w] = "test" /\ program = "ring")
    /\ Finish(w, Workers)

RingGoesOn(t) ==
    /\ AtLoop(t)
    /\ \/ t \in Masters /\ ready /\ item_to_produce < total_items
       \/ t \in Workers /\ item_to_read < total_items
    /\ holder' = t /\ Goto(t, "test")
    /\ UNCHANGED <<item_to_produce, item_to_read, buffer, curr_buf_size,
                   curr_cons_size, ready, consumed>>

Full == (curr_buf_size + 1) % max_buf_size = curr_cons_size
Empty == curr_buf_size = curr_cons_size

RingWaits(t) ==
    /\ mwpc[t] = "test"
    /\ \/ t \in Masters /\ Full
       \/ t \in Workers /\ Empty /\ item_to_read < total_items
    /\ holder' = NoOne /\ Goto(t, "waiting")
    /\ UNCHANGED <<item_to_produce, item_to_read, buffer, curr_buf_size,
                   curr_cons_size, ready, consumed>>

\* pthread_cond_wait() returns with the mutex, and the inner while tests again.
RingWoken(t) ==
    /\ program = "ring" /\ mwpc[t] = "woken" /\ holder = NoOne
    /\ t \in Masters => ready
    /\ holder' = t /\ Goto(t, "test")
    /\ UNCHANGED <<item_to_produce, item_to_read, buffer, curr_buf_size,
                   curr_cons_size, ready, consumed>>

\* The buffer has room; or the inner loop is left because ready is 0, and the
\* item is stored whether there is room or not.
RingProduces(m) ==
    /\ program = "ring"
    /\ \/ mwpc[m] = "test" /\ ~Full
       \/ mwpc[m] = "woken" /\ holder = NoOne /\ ~ready
    /\ Produce(curr_buf_size)
    /\ curr_buf_size' = (curr_buf_size + 1) % max_buf_size
    /\ holder' = m
    /\ SignalAndGoto(m, "loop", Workers)
    /\ UNCHANGED <<item_to_read, curr_cons_size, ready, consumed>>

RingConsumes(w) ==
    /\ program = "ring"
    /\ mwpc[w] = "test" /\ ~Empty /\ item_to_read < total_items
    /\ Consume(curr_cons_size)
    /\ curr_cons_size' = (curr_cons_size + 1) % max_buf_size
    /\ item_to_read' = item_to_read + 1
    /\ SignalAndGoto(w, "loop", Masters)
    /\ UNCHANGED <<holder, item_to_produce, buffer, curr_buf_size, ready>>

-----------------------------------------------------------------------------
Master(m) ==
    \/ StackProduces(m) \/ StackMasterDone(m) \/ StackWaits(m)
    \/ RingMasterDone(m) \/ RingGoesOn(m) \/ RingWaits(m) \/ RingWoken(m) \/ RingProduces(m)

Worker(w) ==
    \/ StackConsumes(w) \/ StackWorkerDone(w) \/ StackWaits(w)
    \/ RingWorkerDone(w) \/ RingGoesOn(w) \/ RingWaits(w) \/ RingWoken(w) \/ RingConsumes(w)

\* pthread_cond_wait() may return for no reason; every wait is in a while loop.
Spurious(t) ==
    /\ mwpc[t] = "waiting" /\ Goto(t, "woken")
    /\ UNCHANGED <<holder, item_to_produce, item_to_read, buffer, curr_buf_size,
                   curr_cons_size, ready, consumed>>

Next ==
    \/ \E m \in Masters : Master(m)
    \/ \E w \in Workers : Worker(w)
    \/ \E t \in Threads : Spurious(t)

\* "ring" holds its mutex across steps: it is got by whoever waits long enough.
Fairness ==
    /\ \A m \in Masters : IF program = "ring" THEN SF_vars(Master(m)) ELSE WF_vars(Master(m))
    /\ \A w \in Workers : IF program = "ring" THEN SF_vars(Worker(w)) ELSE WF_vars(Worker(w))

AllDone == \A t \in Threads : mwpc[t] = "done"

\* A master of "ring" that was told to stop has stored an item all the same.
Overrun == item_to_produce > total_items

-----------------------------------------------------------------------------
\* The slots in use: those below the top of the stack; those from the consumers'
\* index to the producers' in the ring.
InUse == IF program = "stack" THEN {s \in Slots : s < curr_buf_size}
         ELSE IF curr_cons_size <= curr_buf_size THEN curr_cons_size..curr_buf_size - 1
         ELSE Slots \ (curr_buf_size..curr_cons_size - 1)
Copies(i) == Cardinality({s \in InUse : buffer[s] = i})

\* Nothing is consumed twice; an item that was produced is in the buffer until it
\* is consumed, and it is never both, unless a master of the ring has stored an
\* item when it was told to stop, which in a full ring discards all of them.
ItemsKept ==
    /\ \A i \in Items : consumed[i] <= IF i < item_to_produce THEN 1 ELSE 0
    /\ ~Overrun => \A i \in 0..item_to_produce - 1 : consumed[i] + Copies(i) = 1
=============================================================================
