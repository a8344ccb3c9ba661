------------------------------- MODULE Search -------------------------------
(* The two searches of balloc.c: the first clear bit of a bitmap, and the  *)
(* round over the groups that starts at a given one.                       *)
EXTENDS Integers

Least(S) == CHOOSE x \in S : \A y \in S : x <= y

(* The k-th group of the round. *)
RoundGroup(start, k, n) == (start + k) % n
=============================================================================
