----------------------------- MODULE Semaphores ------------------------------
(***************************************************************************)
(* Two programs of the threads lab that order threads with semaphores:     *)
(*   "toggle"  test-toggle.c over the lab's own zemaphore.c: threads print *)
(*             in turn                                                     *)
(*   "batch"   batch-processing-semaphore.c: requests wait until BATCH of  *)
(*             them are there and the producer serves them together        *)
(* zem_down() waits with if, so that a spurious wakeup lets it go on.      *)
(***************************************************************************)
EXTENDS Integers, FiniteSets

CONSTANTS NUM_THREADS, NUM_ITER, BATCH

VARIABLES
    task,          \* never changes; the composing module chooses it
    value,         \* value[i] of zem[i]
    iter,          \* iter[t]: lines thread t has printed
    stray,         \* history: stray[t] counts the waits of t that ended for no reason
    zpc,
    cnt, cv_prod, cv_req,
    posts,         \* the producer's loop variable
    bpc            \* bpc[r] of a request, bpc[0] of the producer

vars == <<value, iter, stray, zpc, cnt, cv_prod, cv_req, posts, bpc>>
toggle == <<value, iter, stray, zpc>>
batch == <<cnt, cv_prod, cv_req, posts, bpc>>

Ids == 0..NUM_THREADS - 1
Requests == 1..BATCH

TypeOK ==
    /\ value \in [Ids -> -NUM_ITER..NUM_ITER + 1]
    /\ iter \in [Ids -> 0..NUM_ITER] /\ stray \in [Ids -> 0..NUM_ITER]
    /\ zpc \in [Ids -> {"down", "waiting", "print", "up", "done"}]
    /\ cnt \in 0..BATCH /\ cv_prod \in 0..1 /\ cv_req \in 0..BATCH /\ posts \in 0..BATCH
    /\ bpc \in [0..BATCH -> {"start", "blocked", "posting", "done"}]

\* main() of test-toggle.c raises zem[0] before it creates the threads.
Init ==
    /\ value = [i \in Ids |-> IF i = 0 THEN 1 ELSE 0]
    /\ iter = [t \in Ids |-> 0] /\ stray = [t \in Ids |-> 0]
    /\ zpc = [t \in Ids |-> "down"]
    /\ cnt = 0 /\ cv_prod = 0 /\ cv_req = 0 /\ posts = 0
    /\ bpc = [r \in 0..BATCH |-> "start"]

-----------------------------------------------------------------------------
(* zemaphore.c and justprint() *)

\* --value < 0, then pthread_cond_wait().
ZemWaits(i) == value[i] - 1 < 0

ZemDown(t) ==
    /\ task = "toggle" /\ zpc[t] = "down"
    /\ value' = [value EXCEPT ![t] = @ - 1]
    /\ zpc' = [zpc EXCEPT ![t] = IF ZemWaits(t) THEN "waiting" ELSE "print"]
    /\ UNCHANGED <<iter, stray, batch>>

\* pthread_cond_wait() returns for no reason, and nothing tests value again.
ZemStrays(t) ==
    /\ task = "toggle" /\ zpc[t] = "waiting"
    /\ stray' = [stray EXCEPT ![t] = @ + 1]
    /\ zpc' = [zpc EXCEPT ![t] = "print"]
    /\ UNCHANGED <<value, iter, batch>>

PrintLine(t) ==
    /\ task = "toggle" /\ zpc[t] = "print"
    /\ iter' = [iter EXCEPT ![t] = @ + 1]
    /\ zpc' = [zpc EXCEPT ![t] = "up"]
    /\ UNCHANGED <<value, stray, batch>>

\* value++, and pthread_cond_signal() lets the waiting thread out of zem_down().
ZemUp(t) == LET u == (t + 1) % NUM_THREADS IN
    /\ task = "toggle" /\ zpc[t] = "up"
    /\ value' = [value EXCEPT ![u] = @ + 1]
    /\ zpc' = [v \in Ids |-> IF v = t THEN (IF iter[t] = NUM_ITER THEN "done" ELSE "down")
                             ELSE IF v = u /\ zpc[v] = "waiting" THEN "print" ELSE zpc[v]]
    /\ UNCHANGED <<iter, stray, batch>>

-----------------------------------------------------------------------------
(* request() and producer() *)

\* The section of mutex; the last request raises cv_prod.
Raises == IF cnt + 1 = BATCH THEN 1 ELSE 0

RequestArrives(r) ==
    /\ task = "batch" /\ bpc[r] = "start"
    /\ cnt' = cnt + 1
    /\ cv_prod' = cv_prod + Raises
    /\ bpc' = [bpc EXCEPT ![r] = "blocked"]
    /\ UNCHANGED <<toggle, cv_req, posts>>

RequestServed(r) ==
    /\ task = "batch" /\ bpc[r] = "blocked" /\ cv_req > 0
    /\ cv_req' = cv_req - 1
    /\ bpc' = [bpc EXCEPT ![r] = "done"]
    /\ UNCHANGED <<toggle, cnt, cv_prod, posts>>

ProducerWoken ==
    /\ task = "batch" /\ bpc[0] = "start" /\ cv_prod > 0
    /\ cv_prod' = cv_prod - 1
    /\ bpc' = [bpc EXCEPT ![0] = "posting"]
    /\ UNCHANGED <<toggle, cnt, cv_req, posts>>

ProducerPosts ==
    /\ task = "batch" /\ bpc[0] = "posting"
    /\ cv_req' = cv_req + 1 /\ posts' = posts + 1
    /\ bpc' = [bpc EXCEPT ![0] = IF posts + 1 = BATCH THEN "done" ELSE "posting"]
    /\ UNCHANGED <<toggle, cnt, cv_prod>>

-----------------------------------------------------------------------------
Thread(t) == ZemDown(t) \/ PrintLine(t) \/ ZemUp(t)
Request(r) == RequestArrives(r) \/ RequestServed(r)
Producer == ProducerWoken \/ ProducerPosts

Next == (\E t \in Ids : Thread(t) \/ ZemStrays(t)) \/ (\E r \in Requests : Request(r)) \/ Producer

Fairness ==
    /\ \A t \in Ids : WF_vars(Thread(t))
    /\ \A r \in Requests : WF_vars(Request(r))
    /\ WF_vars(Producer)

AllDone == IF task = "toggle" THEN \A t \in Ids : zpc[t] = "done"
           ELSE \A r \in 0..BATCH : bpc[r] = "done"

-----------------------------------------------------------------------------
\* The threads print in turn, thread 0 first: none gets ahead of the one before it,
\* but for the times its pthread_cond_wait() returned for no reason.
InTurn == \A t \in Ids :
    iter[t] <= stray[t] + IF t = 0 THEN iter[NUM_THREADS - 1] + 1 ELSE iter[t - 1]

\* No request is served before the batch is complete.
ServedTogether == (\E r \in Requests : bpc[r] = "done") => cnt = BATCH
=============================================================================
