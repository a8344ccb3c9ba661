---------------------------- MODULE MCInodeAlloc ----------------------------
(* Tasks run the same code: they are interchangeable. *)
EXTENDS InodeAlloc, TLC

TaskSymmetry == Permutations(Task)
=============================================================================
