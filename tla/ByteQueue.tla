------------------------------ MODULE ByteQueue ------------------------------
(***************************************************************************)
(* What a pipe promises: a bounded queue of bytes with a read end and a    *)
(* write end.  A reader takes a prefix in the order written; it is told    *)
(* "end of file" only when the queue is empty and no writer can come.      *)
(***************************************************************************)
EXTENDS Integers, Sequences

CONSTANTS Procs, Bytes, Capacity, NoResult

VARIABLES queue, canRead, canWrite, got

Init ==
    /\ queue = <<>> /\ canRead = FALSE /\ canWrite = FALSE
    /\ got = [p \in Procs |-> NoResult]

Create ==
    /\ ~canRead /\ ~canWrite
    /\ canRead' = TRUE /\ canWrite' = TRUE
    /\ UNCHANGED <<queue, got>>

Write(bs) ==
    /\ canWrite /\ Len(queue) + Len(bs) <= Capacity
    /\ queue' = queue \o bs
    /\ UNCHANGED <<canRead, canWrite, got>>

Read(p, k) ==
    /\ canRead
    /\ k \in 1..Len(queue)
    /\ got' = [got EXCEPT ![p] = SubSeq(queue, 1, k)]
    /\ queue' = SubSeq(queue, k + 1, Len(queue))
    /\ UNCHANGED <<canRead, canWrite>>

EndOfFile(p) ==
    /\ canRead /\ ~canWrite /\ queue = <<>>
    /\ got' = [got EXCEPT ![p] = <<>>]
    /\ UNCHANGED <<queue, canRead, canWrite>>

\* The reader has used what it got.
Consume(p) ==
    /\ got' = [got EXCEPT ![p] = NoResult]
    /\ UNCHANGED <<queue, canRead, canWrite>>

\* With the last end goes what was never read.
CloseRead ==
    /\ canRead /\ canRead' = FALSE
    /\ queue' = IF canWrite THEN queue ELSE <<>>
    /\ UNCHANGED <<canWrite, got>>

CloseWrite ==
    /\ canWrite /\ canWrite' = FALSE
    /\ queue' = IF canRead THEN queue ELSE <<>>
    /\ UNCHANGED <<canRead, got>>

Next ==
    \/ Create \/ CloseRead \/ CloseWrite
    \/ \E bs \in UNION {[1..n -> Bytes] : n \in 1..Capacity} : Write(bs)
    \/ \E p \in Procs, k \in 1..Capacity : Read(p, k)
    \/ \E p \in Procs : EndOfFile(p) \/ Consume(p)

Spec == Init /\ [][Next]_<<queue, canRead, canWrite, got>>
=============================================================================
