----------------------------- MODULE TransDisk ------------------------------
(***************************************************************************)
(* What log.c promises the file system: a disk whose updates survive a     *)
(* crash by whole groups of system calls, never part of a call.            *)
(***************************************************************************)
CONSTANTS Threads, Blocks, Values

VARIABLES
    view,      \* view[b]: what a system call reads in block b
    durable,   \* durable[b]: what block b holds after a crash and a restart
    active     \* the threads between begin_op() and end_op()

vars == <<view, durable, active>>

Init == /\ durable \in [Blocks -> Values]
        /\ view = durable
        /\ active = {}

Begin(t) == /\ t \notin active
            /\ active' = active \cup {t}
            /\ UNCHANGED <<view, durable>>

Write(t, b, v) == /\ t \in active
                  /\ view' = [view EXCEPT ![b] = v]
                  /\ UNCHANGED <<durable, active>>

End(t) == /\ t \in active
          /\ active' = active \ {t}
          /\ UNCHANGED <<view, durable>>

\* All updates so far become durable at once, while no call is half done.
Commit == /\ active = {}
          /\ durable' = view
          /\ UNCHANGED <<view, active>>

Crash == /\ view' = durable
         /\ active' = {}
         /\ UNCHANGED durable

Next == \/ \E t \in Threads : Begin(t) \/ End(t)
        \/ \E t \in Threads, b \in Blocks, v \in Values : Write(t, b, v)
        \/ Commit \/ Crash

Spec == Init /\ [][Next]_vars
=============================================================================
