------------------------------ MODULE BlockStore -----------------------------
(***************************************************************************)
(* What the buffer cache promises its callers: every block has one current *)
(* value and at most one user at a time, and its durable copy changes only *)
(* while its user saves it; when the save returns the two are equal.       *)
(***************************************************************************)
CONSTANTS Threads, Blocks, Values

VARIABLES
    users,         \* users[b]: the thread that has block b, if any
    value, durable,
    saving         \* blocks whose user is inside bwrite()

Init ==
    /\ users = [b \in Blocks |-> {}]
    /\ value \in [Blocks -> Values] /\ durable = value
    /\ saving = {}

Acquire(t, b) ==
    /\ users[b] = {}
    /\ users' = [users EXCEPT ![b] = {t}]
    /\ UNCHANGED <<value, durable, saving>>

Change(t, b, v) ==
    /\ users[b] = {t} /\ b \notin saving
    /\ value' = [value EXCEPT ![b] = v]
    /\ UNCHANGED <<users, durable, saving>>

Save(t, b) ==
    /\ users[b] = {t}
    /\ saving' = saving \cup {b}
    /\ UNCHANGED <<users, value, durable>>

Persist(b) ==
    /\ b \in saving
    /\ durable' = [durable EXCEPT ![b] = value[b]]
    /\ UNCHANGED <<users, value, saving>>

Saved(b) ==
    /\ b \in saving /\ durable[b] = value[b]
    /\ saving' = saving \ {b}
    /\ UNCHANGED <<users, value, durable>>

Release(t, b) ==
    /\ users[b] = {t} /\ b \notin saving
    /\ users' = [users EXCEPT ![b] = {}]
    /\ UNCHANGED <<value, durable, saving>>

Next == \E b \in Blocks :
    \/ Persist(b) \/ Saved(b)
    \/ \E t \in Threads : Acquire(t, b) \/ Save(t, b) \/ Release(t, b)
    \/ \E t \in Threads, v \in Values : Change(t, b, v)

Spec == Init /\ [][Next]_<<users, value, durable, saving>>
=============================================================================
