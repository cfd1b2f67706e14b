----------------------------- MODULE Transitions -----------------------------
(***************************************************************************)
(* The status tables of packages/domain/src/transitions.ts: every document *)
(* has one, the server refuses a step that is not listed, and the screens  *)
(* draw their buttons from the same data.  A table is an operator from a   *)
(* status to the set of statuses that may follow it.                       *)
(***************************************************************************)

ReqStatus == {"Draft", "Request sent", "Manager approved", "Partially approved",
              "Ticket issued", "Collected", "Received", "Closed", "Rejected", "Cancelled"}

REQUEST_TRANSITIONS(st) ==
    CASE st = "Draft"              -> {"Request sent", "Cancelled"}
      [] st = "Request sent"       -> {"Manager approved", "Partially approved",
                                       "Rejected", "Cancelled"}
      [] st = "Manager approved"   -> {"Ticket issued", "Cancelled"}
      [] st = "Partially approved" -> {"Ticket issued", "Cancelled"}
      [] st = "Ticket issued"      -> {"Collected"}
      [] st = "Collected"          -> {"Closed"}
      [] st = "Received"           -> {"Closed"}
      [] OTHER                     -> {}

TktStatus == {"Issued", "Collected", "Received", "Cancelled"}

TICKET_TRANSITIONS(st) ==
    CASE st = "Issued"    -> {"Collected", "Cancelled"}
      [] st = "Collected" -> {"Received"}
      [] OTHER            -> {}

PordStatus == {"New", "Accepted", "In kitchen", "Ready", "Dispatched", "Declined"}

PROD_ORDER_TRANSITIONS(st) ==
    CASE st = "New"        -> {"Accepted", "Declined", "Dispatched"}
      [] st = "Accepted"   -> {"In kitchen", "Dispatched"}
      [] st = "In kitchen" -> {"Ready", "Dispatched"}
      [] st = "Ready"      -> {"Dispatched"}
      [] st = "Dispatched" -> {"Ready"}
      [] OTHER             -> {}

ShopAskStatus == {"Asked", "Sent", "Declined"}

SHOP_ASK_TRANSITIONS(st) ==
    CASE st = "Asked" -> {"Sent", "Declined"}
      [] st = "Sent"  -> {"Asked"}
      [] OTHER        -> {}

REQUISITION_TRANSITIONS(st) ==
    IF st = "Sent" THEN {"Approved", "Partially approved", "Declined"} ELSE {}

PO_TRANSITIONS(st) ==
    CASE st = "Draft"              -> {"Ordered", "Cancelled"}
      [] st = "Ordered"            -> {"Partially received", "Received", "Cancelled"}
      [] st = "Partially received" -> {"Partially received", "Received"}
      [] OTHER                     -> {}

ADJUSTMENT_REQUEST_TRANSITIONS(st) ==
    IF st = "Request sent" THEN {"Approved", "Rejected", "Cancelled"} ELSE {}

\* A support ticket (support.ts): the user's edges and the desk's are drawn from one table.
SUPPORT_TRANSITIONS(st) ==
    CASE st = "Open"           -> {"With support", "Waiting on you", "Resolved", "Closed"}
      [] st = "With support"   -> {"Waiting on you", "Resolved", "Closed"}
      [] st = "Waiting on you" -> {"With support", "Resolved", "Closed"}
      [] st = "Resolved"       -> {"With support", "Closed"}
      [] OTHER                 -> {}

QrOrderStatus == {"Awaiting payment", "Expired", "Paid", "Preparing", "Ready",
                  "Out for delivery", "Collected", "Delivered", "Refunded", "Voided"}

QR_ORDER_TRANSITIONS(st) ==
    CASE st = "Awaiting payment" -> {"Paid", "Refunded", "Expired"}
      [] st = "Expired"          -> {"Paid", "Refunded"}
      [] st = "Paid"             -> {"Preparing", "Voided"}
      [] st = "Preparing"        -> {"Ready", "Out for delivery", "Voided"}
      [] st = "Ready"            -> {"Collected", "Voided"}
      [] st = "Out for delivery" -> {"Delivered", "Voided"}
      [] st \in {"Collected", "Delivered"} -> {"Voided"}
      [] OTHER                   -> {}

RefundStatus == {"Pending", "Sent", "Processed", "Failed"}

REFUND_TRANSITIONS(st) ==
    CASE st = "Pending" -> {"Sent", "Failed"}
      [] st = "Sent"    -> {"Processed", "Failed"}
      [] st = "Failed"  -> {"Pending"}
      [] OTHER          -> {}
=============================================================================
