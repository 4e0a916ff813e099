----------------------------- MODULE MCProcLife -----------------------------
(* ProcLife for TLC.                                                       *)
EXTENDS ProcLife
=============================================================================
