---------------------------- MODULE MCScheduler -----------------------------
(* Scheduler for TLC.                                                      *)
EXTENDS Scheduler, TLC

Symmetry == Permutations(Threads)
=============================================================================
