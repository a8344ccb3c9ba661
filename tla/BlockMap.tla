------------------------------ MODULE BlockMap ------------------------------
(* What the mapping of a file promises: a partial map from the blocks of    *)
(* the file to blocks of the volume, none of them free, no two the same.    *)
EXTENDS Naturals

CONSTANTS Logical, Blocks

VARIABLES map, free

Mapped == {map[l] : l \in Logical} \ {0}

Init == map = [l \in Logical |-> 0] /\ free \subseteq Blocks

(* A block comes from the free ones and none of the others moves. *)
Map ==
  \E l \in Logical :
    /\ map[l] = 0 /\ map'[l] \in free \ free'
    /\ \A k \in Logical \ {l} : map'[k] = map[k]
    /\ free' \subseteq free

(* Blocks that are taken out of the map are free again. *)
Unmap ==
  /\ \A l \in Logical : map'[l] = map[l] \/ (map'[l] = 0 /\ map[l] \in free')
  /\ free \subseteq free'

(* The blocks that hold the map itself come and go. *)
Meta == UNCHANGED map

Next == (Map \/ Unmap \/ Meta) /\ Mapped' \cap free' = {}

Spec == Init /\ [][Next]_<<map, free>>
=============================================================================
