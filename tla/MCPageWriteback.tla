-------------------------- MODULE MCPageWriteback --------------------------
(* Model-checking instances of PageWriteback. *)
EXTENDS PageWriteback
=============================================================================
