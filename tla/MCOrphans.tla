----------------------------- MODULE MCOrphans ------------------------------
(* Instances of Orphans for TLC. *)
EXTENDS Orphans, TLC

Symmetry == Permutations(Inodes)
=============================================================================
