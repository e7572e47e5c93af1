------------------------------ MODULE MCRefund ------------------------------
(* One order, refunds with two keys and with none, any two of which exceed its *)
(* total but for the two smallest, and one chargeback. The refunds and the     *)
(* chargeback share only the requests and the count of events, so a behaviour  *)
(* of this instance has refunds or the chargeback, not both.                   *)
EXTENDS Refund, TLC

CONSTANTS r1, r2, k1, k2, d1

MCAmount == k1 :> 2 @@ k2 :> 2 @@ NoKey :> 1
MCDestination == k1 :> "WALLET" @@ k2 :> "ORIGINAL_PAYMENT_METHOD" @@ NoKey :> "WALLET"

NoChargeback == \A d \in Disputes : dispute[d] = "NONE"
NoRefund == lock = Free /\ \A k \in Refunds : ~Created(k)

MCNext ==
    \/ \E r \in Requests : Advance(r) \/ Fail(r)
    \/ \E r \in Requests : \E k \in Refunds : NoChargeback /\ Ask(r, k)
    \/ \E d \in Disputes : NoRefund /\ Working = {} /\ OpenChargeback(d)
    \/ \E r \in Requests : \E d \in Disputes :
          \E outcome \in {"CHARGEBACK_WON", "CHARGEBACK_LOST"} : ResolveChargeback(r, d, outcome)
    \/ \E d \in Disputes : MoveChargeback(d)
    \/ Expire

MCSpec == Init /\ [][MCNext]_vars

Alike == Permutations({r1, r2})
=============================================================================
