--------------------------- MODULE PaymentStatus ---------------------------
(***************************************************************************)
(* The status tables of server/src/modules/payment/domain that decide      *)
(* which write a handler may make. A handler asks the table about the      *)
(* document it holds in memory, not about the stored one.                  *)
(***************************************************************************)

\* PaymentIntentStatus.VALID_INTENT_TRANSITIONS
IntentStatuses ==
    {"CREATED", "REQUIRES_PAYMENT_METHOD", "REQUIRES_ACTION", "PROCESSING",
     "SUCCEEDED", "FAILED", "CANCELLED", "EXPIRED"}

IntentStops == {"FAILED", "CANCELLED", "EXPIRED"}

IntentSuccessors(s) ==
    CASE s = "CREATED" ->
            {"REQUIRES_PAYMENT_METHOD", "REQUIRES_ACTION", "PROCESSING"} \cup IntentStops
      [] s = "REQUIRES_PAYMENT_METHOD" -> {"REQUIRES_ACTION", "PROCESSING"} \cup IntentStops
      [] s = "REQUIRES_ACTION" -> {"PROCESSING", "SUCCEEDED"} \cup IntentStops
      [] s = "PROCESSING" ->
            {"SUCCEEDED", "REQUIRES_ACTION", "REQUIRES_PAYMENT_METHOD"} \cup IntentStops
      [] s = "FAILED" -> {"REQUIRES_PAYMENT_METHOD", "CANCELLED"}
      [] OTHER -> {}

IntentMayBecome(from, to) == from = to \/ to \in IntentSuccessors(from)

\* PaymentAttemptStatus.VALID_ATTEMPT_TRANSITIONS
AttemptStatuses ==
    {"INITIATED", "PENDING", "REQUIRES_ACTION", "AUTHORIZED", "CAPTURED",
     "SETTLEMENT_PENDING", "SETTLED", "FAILED", "TIMED_OUT", "CANCELLED", "VOIDED",
     "RECOVERING", "UNKNOWN", "REFUND_PENDING", "REFUNDED", "PARTIALLY_REFUNDED",
     "CHARGEBACK_OPEN", "CHARGEBACK_WON", "CHARGEBACK_LOST"}

Concluded == {"CAPTURED", "FAILED", "TIMED_OUT", "CANCELLED"}
AfterCapture == {"REFUND_PENDING", "REFUNDED", "PARTIALLY_REFUNDED", "CHARGEBACK_OPEN"}

AttemptSuccessors(s) ==
    CASE s = "INITIATED" -> Concluded \cup
            {"PENDING", "REQUIRES_ACTION", "AUTHORIZED", "VOIDED", "UNKNOWN", "RECOVERING"}
      [] s = "PENDING" -> Concluded \cup
            {"REQUIRES_ACTION", "AUTHORIZED", "VOIDED", "UNKNOWN", "RECOVERING"}
      [] s = "REQUIRES_ACTION" -> Concluded \cup
            {"PENDING", "AUTHORIZED", "UNKNOWN", "RECOVERING"}
      [] s = "AUTHORIZED" -> {"CAPTURED", "VOIDED", "CANCELLED", "FAILED"}
      [] s = "UNKNOWN" -> Concluded \cup {"RECOVERING"}
      [] s = "RECOVERING" -> Concluded
      [] s = "CAPTURED" -> AfterCapture \cup {"SETTLEMENT_PENDING", "SETTLED"}
      [] s = "SETTLEMENT_PENDING" -> AfterCapture \cup {"SETTLED"}
      [] s = "SETTLED" -> AfterCapture
      [] s = "REFUND_PENDING" -> {"REFUNDED", "PARTIALLY_REFUNDED", "CAPTURED"}
      [] s = "PARTIALLY_REFUNDED" -> {"REFUND_PENDING", "REFUNDED"}
      [] s = "CHARGEBACK_OPEN" -> {"CHARGEBACK_WON", "CHARGEBACK_LOST"}
      [] s = "TIMED_OUT" -> {"RECOVERING", "FAILED"}
      [] OTHER -> {}

AttemptMayBecome(from, to) == from = to \/ to \in AttemptSuccessors(from)
=============================================================================
