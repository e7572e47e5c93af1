---------------------------- MODULE OrderStatus ----------------------------
(***************************************************************************)
(* The statuses of an order and the transitions that updateOrderStatus     *)
(* accepts (domain/OrderStatus.js).                                        *)
(***************************************************************************)
OrderStatuses ==
    {"PENDING", "CONFIRMED", "PROCESSING", "PACKED", "SHIPPED", "OUT_FOR_DELIVERY", "DELIVERED",
     "CANCELLED", "RETURN_REQUESTED", "RETURNED", "REFUNDED", "FAILED"}

\* A mutant of OrderSuccessors: a cancelled order may be confirmed again
RevivableSuccessors(status) ==
    CASE status = "CONFIRMED" -> {"PROCESSING", "PACKED", "SHIPPED", "CANCELLED"}
      [] status = "CANCELLED" -> {"CONFIRMED"}
      [] OTHER -> {}

OrderSuccessors(status) ==
    CASE status = "PENDING" -> {"CONFIRMED", "CANCELLED", "FAILED"}
      [] status = "CONFIRMED" -> {"PROCESSING", "PACKED", "SHIPPED", "CANCELLED"}
      [] status = "PROCESSING" -> {"PACKED", "SHIPPED", "CANCELLED"}
      [] status = "PACKED" -> {"SHIPPED", "CANCELLED"}
      [] status = "SHIPPED" -> {"OUT_FOR_DELIVERY", "DELIVERED"}
      [] status = "OUT_FOR_DELIVERY" -> {"DELIVERED", "FAILED"}
      [] status = "DELIVERED" -> {"RETURN_REQUESTED"}
      [] status = "RETURN_REQUESTED" -> {"RETURNED", "DELIVERED"}
      [] status = "RETURNED" -> {"REFUNDED"}
      [] OTHER -> {}

OrderMayBecome(current, next) == current # next /\ next \in OrderSuccessors(current)

\* The statuses in which updateOrderStatus has put the units of the order back.
Restocked == {"CANCELLED", "RETURNED", "REFUNDED"}
PutsBack(next) == next \in {"CANCELLED", "RETURNED"}
=============================================================================
