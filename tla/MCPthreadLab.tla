---------------------------- MODULE MCPthreadLab -----------------------------
(* Constants for TLC.                                                        *)
EXTENDS PthreadLab
=============================================================================
