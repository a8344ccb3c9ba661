-------------------------- MODULE MCJournalV3Ring --------------------------
(* Model-checking instances of JournalV3Ring. *)
EXTENDS JournalV3Ring, TLC

HomeSymmetry == Permutations(Home)
=============================================================================
