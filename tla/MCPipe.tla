------------------------------- MODULE MCPipe -------------------------------
(* Pipe for TLC: readers are told from writers, so nothing is symmetric    *)
(* with one of each.                                                       *)
EXTENDS Pipe, TLC
=============================================================================
