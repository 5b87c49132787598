------------------------------- MODULE MCProc -------------------------------
(* Constants for TLC: one or two CPUs.                                       *)
EXTENDS Proc

CONSTANTS cpu0, cpu1

NegativePrio == {-1}
=============================================================================
