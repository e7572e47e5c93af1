----------------------------- MODULE Background -----------------------------
(***************************************************************************)
(* The background work of the server: every process sweeps the outbox and  *)
(* works on the e-mail queue, and a crash ends both. (The events that the  *)
(* outbox emits on the e-mail bus have no template there, so no job comes  *)
(* from a dispatch.)                                                       *)
(***************************************************************************)
EXTENDS Outbox, EmailQueue

vars == <<outboxVars, emailVars, faults>>

Init == OutboxInit /\ EmailInit /\ faults = 0

Crash(p) == Fault /\ SweepDies(p) /\ EmailsDie(p)

Next ==
    \/ OutboxStep /\ UNCHANGED emailVars
    \/ EmailStep /\ UNCHANGED outboxVars
    \/ \E p \in Processes : Crash(p)

\* The timers of a process tick while it runs, its accesses are answered, and the time
\* of a retry comes.
Fairness ==
    /\ \A p \in Processes : WF_vars((StartSweep(p) \/ SweepStep(p)) /\ UNCHANGED emailVars)
    /\ \A e \in Events : WF_vars(Due(e) /\ UNCHANGED emailVars)
    /\ \A j \in Jobs : WF_vars((\E p \in Processes : JobStep(j, p)) /\ UNCHANGED outboxVars)

Spec == Init /\ [][Next]_vars /\ Fairness

TypeOK == OutboxTypeOK /\ EmailTypeOK /\ faults \in 0 .. MaxFaults
=============================================================================
