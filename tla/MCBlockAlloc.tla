---------------------------- MODULE MCBlockAlloc ----------------------------
(* Three groups of five blocks, the last one short: bitmaps and tables in  *)
(* 0..1, 5 and 10, the root directory in 2, the journal in 12.             *)
EXTENDS BlockAlloc, TLC

MCDataStart == 0 :> 2 @@ 1 :> 6 @@ 2 :> 11
=============================================================================
