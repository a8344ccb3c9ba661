------------------------------ MODULE FreePool ------------------------------
(***************************************************************************)
(* What an allocator of cryexts promises its callers, whatever its bitmaps,*)
(* counters, groups and hints: an allocation hands out something that was  *)
(* free and is free no longer, it is refused only when nothing is free, and*)
(* a release makes one thing free.                                         *)
(***************************************************************************)
CONSTANTS Resource,   \* what may ever be handed out
          Nothing     \* the answer -ENOSPC

VARIABLES free,       \* what may be handed out now
          got         \* the answer of the last allocation

Init == free \subseteq Resource /\ got = Nothing

Take == \E r \in free : free' = free \ {r} /\ got' = r

Full == free = {} /\ free' = free /\ got' = Nothing

Give == \E r \in Resource \ free : free' = free \cup {r} /\ got' = got

Next == Take \/ Full \/ Give

Spec == Init /\ [][Next]_<<free, got>>
=============================================================================
