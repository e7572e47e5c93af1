--------------------------- MODULE WalletPromise ---------------------------
(***************************************************************************)
(* What the wallet promises the rest of the payment platform, with no      *)
(* locks, documents or journals: money is credited once, held for a        *)
(* checkout, and then either handed back or spent, each in one step.       *)
(***************************************************************************)
EXTENDS Integers

CONSTANTS Intents, Credits, Amount

VARIABLES
    funds,     \* what the customer may spend
    hold,      \* the state of the hold of each intent
    owed,      \* what the books say the platform owes the customer
    credited   \* credits that have been applied

vars == <<funds, hold, owed, credited>>

Init ==
    /\ funds = 0 /\ owed = 0 /\ credited = {}
    /\ hold = [i \in Intents |-> "NONE"]

Credit(k) ==
    /\ k \notin credited
    /\ credited' = credited \cup {k}
    /\ funds' = funds + Amount[k] /\ owed' = owed + Amount[k]
    /\ UNCHANGED hold

Reserve(i) ==
    /\ hold[i] \in {"NONE", "RELEASED"} /\ funds >= Amount[i]
    /\ funds' = funds - Amount[i]
    /\ hold' = [hold EXCEPT ![i] = "RESERVED"]
    /\ UNCHANGED <<owed, credited>>

Release(i) ==
    /\ hold[i] = "RESERVED"
    /\ funds' = funds + Amount[i]
    /\ hold' = [hold EXCEPT ![i] = "RELEASED"]
    /\ UNCHANGED <<owed, credited>>

Commit(i) ==
    /\ hold[i] = "RESERVED"
    /\ owed' = owed - Amount[i]
    /\ hold' = [hold EXCEPT ![i] = "COMMITTED"]
    /\ UNCHANGED <<funds, credited>>

Next ==
    \/ \E k \in Credits : Credit(k)
    \/ \E i \in Intents : Reserve(i) \/ Release(i) \/ Commit(i)

Spec == Init /\ [][Next]_vars
=============================================================================
