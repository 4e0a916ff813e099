---------------------------- MODULE MCFileLocks -----------------------------
(* Instances of FileLocks for TLC: the lengths a call may be given, and    *)
(* the threads of a table, which are alike.                                *)
EXTENDS FileLocks, TLC

MCLens == {-1, 0, 1, 3}
Alike == Permutations(ThreadIds)
=============================================================================
