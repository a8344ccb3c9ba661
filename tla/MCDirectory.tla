---------------------------- MODULE MCDirectory -----------------------------
EXTENDS Directory, TLC
CONSTANTS n1, n2, n3
(* Two short names in one bucket, a long one that shares the other with the dots. *)
MCNeed == n1 :> 1 @@ n2 :> 1 @@ n3 :> 2
MCHash == n1 :> 0 @@ n2 :> 0 @@ n3 :> 1 @@ "dot" :> 1 @@ "dotdot" :> 1
=============================================================================
