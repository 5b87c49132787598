----------------------------- MODULE AtomicLock -----------------------------
(***************************************************************************)
(* What a spin lock promises the rest of the kernel: acquire and release   *)
(* look like single steps, and a lock has at most one owner.  Proc takes   *)
(* ptable.lock and tickslock to be locks of this kind.                     *)
(***************************************************************************)
CONSTANTS Threads,  \* who may own a lock
          Locks

VARIABLE owner      \* owner[l]: who is in the critical section of l, {} or {x}

Init == owner = [l \in Locks |-> {}]

Acquire(x, l) == /\ owner[l] = {}
                 /\ owner' = [owner EXCEPT ![l] = {x}]

Release(x, l) == /\ owner[l] = {x}
                 /\ owner' = [owner EXCEPT ![l] = {}]

Next == \E x \in Threads, l \in Locks : Acquire(x, l) \/ Release(x, l)

Spec == Init /\ [][Next]_owner
=============================================================================
