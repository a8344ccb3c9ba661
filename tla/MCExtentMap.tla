---------------------------- MODULE MCExtentMap -----------------------------
(* Model-checking instance of ExtentMap. *)
EXTENDS ExtentMap
=============================================================================
