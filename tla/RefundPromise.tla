--------------------------- MODULE RefundPromise ---------------------------
(***************************************************************************)
(* What the refunds of an order promise about money: each is opened within *)
(* what is left of the order's total, pays once, is in the ledger once,    *)
(* and is over when it is paid and booked, or has failed.                  *)
(***************************************************************************)
EXTENDS Integers, FiniteSets

CONSTANTS
    Refunds,
    Amount,
    OrderTotal,
    PaidFirst      \* the refunds that are booked only when they are paid

VARIABLES
    state,         \* "NONE", "OPEN", "COMPLETED" or "FAILED"
    paidOut,       \* how often each refund has paid
    inLedger,      \* the refunds that the ledger has in full
    told,          \* the refunds whose event is in the outbox
    guarded        \* are refunds decided on one at a time

promiseVars == <<state, paidOut, inLedger, told, guarded>>

Init ==
    /\ state = [k \in Refunds |-> "NONE"]
    /\ paidOut = [k \in Refunds |-> 0]
    /\ inLedger = {} /\ told = {}
    /\ guarded = TRUE

Money(ks) == Cardinality(UNION {{k} \X (1 .. Amount[k]) : k \in ks})
Counting == {k \in Refunds : state[k] \in {"OPEN", "COMPLETED"}}

Open(k) ==
    /\ state[k] = "NONE"
    /\ guarded => Money(Counting \cup {k}) <= OrderTotal
    /\ state' = [state EXCEPT ![k] = "OPEN"]
    /\ UNCHANGED <<paidOut, inLedger, told, guarded>>

Pay(k) ==
    /\ state[k] = "OPEN" /\ paidOut[k] = 0
    /\ paidOut' = [paidOut EXCEPT ![k] = 1]
    /\ UNCHANGED <<state, inLedger, told, guarded>>

Book(k) ==
    /\ state[k] = "OPEN" /\ k \notin inLedger
    /\ k \in PaidFirst => paidOut[k] = 1
    /\ inLedger' = inLedger \cup {k}
    /\ UNCHANGED <<state, paidOut, told, guarded>>

Complete(k) ==
    /\ state[k] = "OPEN" /\ paidOut[k] = 1 /\ k \in inLedger
    /\ state' = [state EXCEPT ![k] = "COMPLETED"]
    /\ UNCHANGED <<paidOut, inLedger, told, guarded>>

Fail(k) ==
    /\ state[k] = "OPEN"
    /\ state' = [state EXCEPT ![k] = "FAILED"]
    /\ UNCHANGED <<paidOut, inLedger, told, guarded>>

Tell(k) ==
    /\ state[k] = "COMPLETED" /\ k \notin told
    /\ told' = told \cup {k}
    /\ UNCHANGED <<state, paidOut, inLedger, guarded>>

\* Two requests may be at it from now on.
Doubt ==
    /\ guarded /\ guarded' = FALSE
    /\ UNCHANGED <<state, paidOut, inLedger, told>>

Next ==
    \/ \E k \in Refunds : Open(k) \/ Pay(k) \/ Book(k) \/ Complete(k) \/ Fail(k) \/ Tell(k)
    \/ Doubt

Spec == Init /\ [][Next]_promiseVars
=============================================================================
