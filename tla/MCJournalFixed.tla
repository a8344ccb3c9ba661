--------------------------- MODULE MCJournalFixed ---------------------------
(* Model-checking instances of JournalFixed. *)
EXTENDS JournalFixed, TLC

HomeSymmetry == Permutations(Home)
=============================================================================
