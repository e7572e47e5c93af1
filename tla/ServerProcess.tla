--------------------------- MODULE ServerProcess ---------------------------
(***************************************************************************)
(* What the background workers of the server share: they run in processes  *)
(* that may crash (and start again), and the number of things that go      *)
(* wrong is bounded.                                                       *)
(***************************************************************************)
EXTENDS Integers, FiniteSets

CONSTANTS
    Processes,    \* server processes with their workers
    MaxFaults     \* bound: failed accesses and crashes, together

ASSUME ServerProcessAssumption == MaxFaults \in Nat /\ Processes # {}

VARIABLE faults

Fault == faults < MaxFaults /\ faults' = faults + 1
=============================================================================
