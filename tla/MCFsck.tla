------------------------------- MODULE MCFsck -------------------------------
EXTENDS Fsck, TLC
(* Two groups: metadata, root, policy table, journal and no data in the    *)
(* first; metadata and two data blocks in the second.                       *)
MCGroupBlocks == 0 :> 0 .. 3 @@ 1 :> 4 .. 6
MCKind == 2 :> "extents" @@ 3 :> "blocks"
MCOwns == 2 :> {5} @@ 3 :> {6}
MCGroupInodes == 0 :> {1, 2} @@ 1 :> {3}
=============================================================================
