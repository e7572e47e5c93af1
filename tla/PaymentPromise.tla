--------------------------- MODULE PaymentPromise ---------------------------
(***************************************************************************)
(* What a checkout promises about money: the gateway pays before the       *)
(* ledger books, the ledger books before an order is confirmed (unless a   *)
(* booking slips), and an order is confirmed before the customer is told,  *)
(* once for each attempt. The wallet's share is held until a payment or a  *)
(* failure, and once it is spent it stays spent.                           *)
(***************************************************************************)
EXTENDS Integers

CONSTANTS
    Attempts,
    Orders

VARIABLES
    paid,          \* the attempts that a gateway has captured
    inLedger,      \* those with a capture journal
    slipped,       \* has a paid attempt been passed over by the ledger
    confirmed,     \* the orders that are paid for
    hold,          \* what has become of the wallet's share
    told           \* the attempt and the order of each capture event

promiseVars == <<paid, inLedger, slipped, confirmed, hold, told>>

Init ==
    /\ paid = {} /\ inLedger = {} /\ confirmed = {} /\ told = {}
    /\ slipped = FALSE
    /\ hold \in {"NONE", "RESERVED"}

\* The gateway's own step; a payment is not taken back.
Capture(a) ==
    /\ a \notin paid
    /\ paid' = paid \cup {a}
    /\ UNCHANGED <<inLedger, slipped, confirmed, hold, told>>

Book(a) ==
    /\ a \in paid /\ a \notin inLedger
    /\ inLedger' = inLedger \cup {a}
    /\ UNCHANGED <<paid, slipped, confirmed, hold, told>>

\* A journal that cannot be written is not waited for.
Slip ==
    /\ paid # {} /\ ~slipped /\ slipped' = TRUE
    /\ UNCHANGED <<paid, inLedger, confirmed, hold, told>>

Confirm(o) ==
    /\ paid # {}
    /\ inLedger # {} \/ slipped
    /\ o \notin confirmed
    /\ confirmed' = confirmed \cup {o}
    /\ UNCHANGED <<paid, inLedger, slipped, hold, told>>

Tell(a, o) ==
    /\ a \in paid
    /\ a \in inLedger \/ slipped
    /\ o \in confirmed
    /\ \A t \in told : t[1] # a
    /\ told' = told \cup {<<a, o>>}
    /\ UNCHANGED <<paid, inLedger, slipped, confirmed, hold>>

\* A share that was given back may be held again for another attempt.
MoveHold ==
    /\ \/ hold = "RESERVED" /\ hold' = "RELEASED"
       \/ hold = "RELEASED" /\ hold' = "RESERVED"
       \/ hold = "RESERVED" /\ paid # {} /\ hold' = "COMMITTED"
    /\ UNCHANGED <<paid, inLedger, slipped, confirmed, told>>

Next ==
    \/ \E a \in Attempts : Capture(a) \/ Book(a) \/ \E o \in Orders : Tell(a, o)
    \/ \E o \in Orders : Confirm(o)
    \/ Slip \/ MoveHold

Spec == Init /\ [][Next]_promiseVars
=============================================================================
