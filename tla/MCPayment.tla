----------------------------- MODULE MCPayment -----------------------------
(* One checkout with two gateways and two attempts. *)
EXTENDS PaymentOrchestrator, TLC

CONSTANTS r1, r2, gA, gB, o1, o2

Alike == Permutations({r1, r2}) \cup Permutations({gA, gB})
=============================================================================
