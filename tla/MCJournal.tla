----------------------------- MODULE MCJournal ------------------------------
(* Instances of Journal for TLC. *)
EXTENDS Journal, TLC

Symmetry == Permutations(Files) \cup Permutations(DataBlocks)
=============================================================================
