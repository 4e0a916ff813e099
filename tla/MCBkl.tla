------------------------------- MODULE MCBkl --------------------------------
(* Instances of Bkl for TLC. *)
EXTENDS Bkl, TLC

Symmetry == Permutations(Threads) \cup Permutations(CPUs \ {BSP})
=============================================================================
