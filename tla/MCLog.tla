-------------------------------- MODULE MCLog -------------------------------
(* Constants for TLC.                                                        *)
EXTENDS Log
=============================================================================
