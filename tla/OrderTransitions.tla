-------------------------- MODULE OrderTransitions --------------------------
(***************************************************************************)
(* The constant tables the order handlers consult: the order status map    *)
(* with its runtime gate, the dispatch status map, the projection of a     *)
(* dispatch status onto an order status, and the status groups that decide *)
(* whether goods are still in the warehouse.                               *)
(*                                                                         *)
(* The rows are functions over finite sets of names, so that a gate reads  *)
(* "to \in OrderNext[from]" as the code reads allowed.includes(name).      *)
(***************************************************************************)

EXTENDS Naturals

(* The statuses of an order.  "None" is not a row of the table: it stands  *)
(* for an order that has not been created.                                 *)
OrderStatuses ==
  {"Pending", "Payment Pending", "Payment Verifying", "Recall", "No Response",
   "Hold", "Confirmed", "Packed", "Packing Hold", "Shipping", "Delivered",
   "Partial", "Return Pending", "Returned", "Cancelled", "Damaged"}

(* ORDER_TRANSITIONS.                                                      *)
CallGroup == {"Recall", "No Response"}

OrderNext ==
  [s \in OrderStatuses |->
     CASE s = "Pending" ->
            {"Payment Pending", "Hold", "Confirmed", "Cancelled"} \cup CallGroup
       [] s = "Payment Pending" ->
            {"Payment Verifying", "Hold", "Confirmed", "Cancelled"} \cup CallGroup
       [] s = "Payment Verifying" -> {"Confirmed", "Hold", "Cancelled"} \cup CallGroup
       [] s \in CallGroup ->
            ({"Pending", "Payment Pending", "Payment Verifying", "Hold",
              "Confirmed", "Cancelled"} \cup CallGroup) \ {s}
       [] s = "Hold" -> {"Pending", "Confirmed", "Cancelled"} \cup CallGroup
       [] s = "Confirmed" -> {"Hold", "Packed", "Packing Hold", "Cancelled"}
       [] s = "Packed" -> {"Shipping", "Packing Hold"}
       [] s = "Packing Hold" -> {"Packed", "Cancelled"}
       [] s = "Shipping" -> {"Delivered", "Partial", "Return Pending", "Cancelled"}
       [] s \in {"Delivered", "Partial"} -> {"Return Pending"}
       [] s = "Return Pending" -> {"Returned", "Damaged"}
       [] s = "Returned" -> {"Damaged"}
       [] s = "Cancelled" -> {"Hold", "Confirmed"}
       [] s = "Damaged" -> {}]

(* ITEM_EDIT_BLOCKED_STATUSES: the units have left the warehouse.          *)
GoodsAlreadyLeft ==
  {"Shipping", "Delivered", "Partial", "Return Pending", "Returned", "Damaged"}

(* RETURN_ELIGIBLE_STATUSES.                                               *)
ReturnEligible == {"Shipping", "Partial", "Delivered"}

-----------------------------------------------------------------------------
DispatchStatuses ==
  {"DISPATCHED", "HANDED_OVER", "PICKED_UP", "IN_TRANSIT", "ASSIGNED_TO_HUB",
   "ASSIGNED_TO_RIDER", "PICKUP_FAILED", "HOLD", "DELIVERED", "PARTIAL",
   "RETURN_PENDING", "RETURNED", "CANCELLED"}

(* DISPATCH_TRANSITIONS.                                                   *)
DispatchNext ==
  [d \in DispatchStatuses |->
     CASE d = "DISPATCHED"        -> {"HANDED_OVER", "HOLD", "CANCELLED", "PICKUP_FAILED"}
       [] d = "HANDED_OVER"       -> {"PICKED_UP", "HOLD", "CANCELLED", "PICKUP_FAILED"}
       [] d = "PICKED_UP"         -> {"IN_TRANSIT", "HOLD", "CANCELLED"}
       [] d = "IN_TRANSIT"        -> {"ASSIGNED_TO_HUB", "ASSIGNED_TO_RIDER", "HOLD", "CANCELLED"}
       [] d = "ASSIGNED_TO_RIDER" -> {"HOLD", "DELIVERED", "CANCELLED"}
       [] d = "PICKUP_FAILED"     -> {"PICKED_UP", "HOLD", "CANCELLED"}
       [] d = "ASSIGNED_TO_HUB"   -> {"ASSIGNED_TO_RIDER", "HOLD", "DELIVERED", "CANCELLED"}
       [] d = "HOLD"              -> {"PICKED_UP", "IN_TRANSIT", "ASSIGNED_TO_HUB",
                                      "ASSIGNED_TO_RIDER", "PICKUP_FAILED", "DELIVERED",
                                      "CANCELLED"}
       [] d = "DELIVERED"         -> {"PARTIAL", "RETURN_PENDING"}
       [] d = "PARTIAL"           -> {"RETURN_PENDING", "CANCELLED"}
       [] d = "RETURN_PENDING"    -> {"RETURNED", "CANCELLED"}
       [] d = "RETURNED"          -> {"CANCELLED"}
       [] d = "CANCELLED"         -> {}]

(* PRE_PICKUP_DISPATCH_STATUSES: the booking can still be cancelled.       *)
PrePickup == {"DISPATCHED", "PICKUP_FAILED"}

(* The dispatch statuses whose transition stamps handedOverAt, pickedUpAt  *)
(* or deliveredAt: from then on the courier is known to have the parcel.   *)
StampsPossession ==
  {"HANDED_OVER", "PICKED_UP", "IN_TRANSIT", "ASSIGNED_TO_HUB", "ASSIGNED_TO_RIDER",
   "DELIVERED", "PARTIAL", "RETURN_PENDING", "RETURNED"}

-----------------------------------------------------------------------------
(* syncOrderStatus: the order status a dispatch status is projected to.    *)
(* PICKUP_FAILED moves no order, hence "None".                             *)
SyncTarget ==
  [d \in DispatchStatuses |->
     CASE d \in {"HANDED_OVER", "PICKED_UP", "IN_TRANSIT", "HOLD",
                 "ASSIGNED_TO_RIDER", "ASSIGNED_TO_HUB"} -> "Shipping"
       [] d = "DELIVERED" -> "Delivered"
       [] d = "PARTIAL" -> "Partial"
       [] d \in {"RETURN_PENDING", "RETURNED"} -> "Return Pending"
       [] d = "CANCELLED" -> "Cancelled"
       [] OTHER -> "None"]

(* syncOrderStatus: forder, the progression the sync may only climb.       *)
(* A status the list lacks (Recall, No Response) is never advanced.        *)
SyncOrder ==
  <<"Pending", "Payment Pending", "Payment Verifying", "Hold", "Confirmed",
    "Packed", "Packing Hold", "Shipping", "Delivered", "Partial",
    "Return Pending", "Returned", "Damaged", "Cancelled">>

SyncAdvances(from, to) ==
  \E i, j \in DOMAIN SyncOrder : i < j /\ SyncOrder[i] = from /\ SyncOrder[j] = to
=============================================================================
