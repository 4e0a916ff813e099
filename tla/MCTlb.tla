------------------------------- MODULE MCTlb --------------------------------
(* Instances of TlbShootdown for TLC. *)
EXTENDS TlbShootdown, TLC

Symmetry == Permutations(CPUs) \cup Permutations(Frames)
=============================================================================
