--------------------------- MODULE PayoutPromise ---------------------------
(***************************************************************************)
(* What the settlement of sellers promises about money: the bank pays a    *)
(* batch out at most once, and only a batch that the bank has paid is put  *)
(* down as paid. That is taken back only where operations came apart.      *)
(***************************************************************************)
EXTENDS Integers

CONSTANT Batches

VARIABLES
    paidOut,     \* how often the bank has paid each batch
    closed,      \* the batches put down as paid
    calm         \* the batches that one operation at a time has touched

promiseVars == <<paidOut, closed, calm>>

Init ==
    /\ paidOut = [b \in Batches |-> 0]
    /\ closed = {}
    /\ calm = Batches

Pay(b) ==
    /\ paidOut[b] = 0
    /\ paidOut' = [paidOut EXCEPT ![b] = 1]
    /\ UNCHANGED <<closed, calm>>

Close(b) ==
    /\ paidOut[b] = 1 /\ b \notin closed
    /\ closed' = closed \cup {b}
    /\ UNCHANGED <<paidOut, calm>>

Reopen(b) ==
    /\ b \in closed \ calm
    /\ closed' = closed \ {b}
    /\ UNCHANGED <<paidOut, calm>>

Disturb(b) ==
    /\ b \in calm
    /\ calm' = calm \ {b}
    /\ UNCHANGED <<paidOut, closed>>

Next == \E b \in Batches : Pay(b) \/ Close(b) \/ Reopen(b) \/ Disturb(b)

Spec == Init /\ [][Next]_promiseVars
=============================================================================
