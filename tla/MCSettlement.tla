---------------------------- MODULE MCSettlement ----------------------------
(* Two batches, the second of which the indexes hold back. *)
EXTENDS Settlement, TLC

CONSTANTS r1, r2, b1, b2

Alike == Permutations({r1, r2}) \cup Permutations({b1, b2})
=============================================================================
