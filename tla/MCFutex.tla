------------------------------ MODULE MCFutex -------------------------------
(* Futex for TLC: threads are interchangeable.                             *)
EXTENDS Futex, TLC

ThreadSymmetry == Permutations(Tasks)
=============================================================================
