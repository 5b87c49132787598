-------------------------------- MODULE MCPipe ------------------------------
(* Constants for TLC.                                                        *)
EXTENDS Pipe
=============================================================================
