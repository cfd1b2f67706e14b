---------------------------- MODULE StockMovement ----------------------------
(***************************************************************************)
(* The hospital's stock and the documents that move it: requests, shop     *)
(* asks, kitchen orders, tickets, sales, adjustments, batches and receipts *)
(* of apps/api/src, over the balances of lib/ledger.ts and the holds of    *)
(* lib/reservations.ts.  "Approval authorises, the scan moves": a ticket   *)
(* holds stock where it stands, the handover takes it off that shelf and   *)
(* the receipt lands it on another.                                        *)
(*                                                                         *)
(* One action is one committed transaction.  Every write that promises     *)
(* against a balance locks the balance row before it reads it and keeps it *)
(* to the end, so those transactions are atomic here.  The ones that read  *)
(* first without a lock are split at each unlocked read: the approval      *)
(* (three reads, then the write), the redirect (the open outlets, then the *)
(* write) and the closing of an outlet (blockers counted, then the write). *)
(* A refused request changes nothing and is no step.                       *)
(*                                                                         *)
(* Quantities are naturals: the smallest unit the wire accepts, 0.001.     *)
(***************************************************************************)
EXTENDS Integers, FiniteSets, Transitions

CONSTANTS
    Outlets,        \* the shops, the only locations that open and close
    Store,          \* the central store
    Kitchen,        \* the production kitchen
    Items,
    RawItems,       \* raw materials and packaging: used as they reach the kitchen
    Requests, Asks, Orders, Tickets, Bills,   \* document numbers, drawn once each
    NoDocument,     \* what a ticket names when no document is behind it
    Counted,        \* bound: the locations whose shelves are corrected by count
    MaxQty,         \* bound: the largest quantity on a line
    MaxOnHand,      \* bound: no count-up, batch or receipt lifts a balance past it
    OTP_ATTEMPTS    \* wrong codes a ticket takes before it is shut (5 in the code)

Locs == Outlets \cup {Store, Kitchen}
Documents == Requests \cup Asks \cup Orders

ASSUME LocationAssumption == /\ Store \notin Outlets
                             /\ Kitchen \notin Outlets
                             /\ Store # Kitchen
ASSUME ItemAssumption == RawItems \subseteq Items
ASSUME DocumentAssumption == /\ NoDocument \notin Documents
                             /\ Requests \cap Asks = {}
                             /\ Requests \cap Orders = {}
                             /\ Asks \cap Orders = {}
ASSUME OutletAssumption == IsFiniteSet(Outlets)
ASSUME TicketAssumption == IsFiniteSet(Tickets)
ASSUME RequestAssumption == IsFiniteSet(Requests)
ASSUME BoundAssumption == /\ MaxQty \in Nat
                          /\ MaxOnHand \in Nat
                          /\ OTP_ATTEMPTS \in Nat
                          /\ Counted \subseteq Locs

VARIABLES
    onHand,     \* stock_balances.on_hand
    rsv,        \* open rows of reservations, by ticket; they stand at the ticket's `from`
    tkt,        \* tickets
    req,        \* stock_requests with their lines
    pend,       \* how far a decision holding a request's row has read
    ask,        \* shop_asks
    ord,        \* prod_orders
    bill,       \* bills, as the sale moves they posted
    active,     \* locations.active
    closing     \* outlets whose row a close holds FOR UPDATE, blockers counted

vars == <<onHand, rsv, tkt, req, pend, ask, ord, bill, active, closing>>

-----------------------------------------------------------------------------
(* Quantities on documents, and the shelf arithmetic every rule reads.     *)

Lines == [Items -> 0..MaxQty]
Nothing == [i \in Items |-> 0]
RealLines == Lines \ {Nothing}
One(i, q) == [Nothing EXCEPT ![i] = q]

\* One unit of a ticket's hold is one element, so the sum over tickets is a cardinality.
HeldUnits(l, i) ==
    {u \in Tickets \X (1..MaxQty) : tkt[u[1]].from = l /\ u[2] <= rsv[u[1]][i]}

\* reservedAt: the open holds on one shelf.
Held(l, i) == Cardinality(HeldUnits(l, i))

\* What may be sold, sent or written off: on hand less what tickets hold.
Free(l, i) == onHand[l][i] - Held(l, i)

CoversIgnoringHolds(l, q) == \A i \in Items : q[i] <= onHand[l][i]
Covers(l, q) == \A i \in Items : q[i] <= Free(l, i)

CommittedUnits(i) ==
    {u \in Requests \X (1..MaxQty) : /\ req[u[1]].st \in {"Manager approved", "Partially approved"}
                                     /\ req[u[1]].ticket = NoDocument
                                     /\ u[2] <= req[u[1]].appr[i]}

\* committed: approvals that have not become tickets; they all stand at the store.
Committed(i) == Cardinality(CommittedUnits(i))

LandWithoutUse(l, q) == [onHand EXCEPT ![l] = [i \in Items |-> @[i] + q[i]]]

UsedOnArrival(l, i) == l = Kitchen /\ i \in RawItems

\* postMoves of withUseOnArrival: what lands, less what the kitchen uses as it lands.
Land(l, q) == [onHand EXCEPT ![l] =
                  [i \in Items |-> IF UsedOnArrival(l, i) THEN @[i] ELSE @[i] + q[i]]]

\* postMoves of moves that only leave a shelf.
Take(l, q) == [onHand EXCEPT ![l] = [i \in Items |-> @[i] - q[i]]]

\* lockLocation and assertOpen: a write that names a shop waits for a close that holds the row.
MayNameWithoutLock(l) == l \in Outlets => active[l]
MayName(l) == l \in Outlets => active[l] /\ ~closing[l]

\* A request's row is locked by the decision in progress on it.
RowFree(r) == pend[r].at = "idle"

-----------------------------------------------------------------------------
(* Tickets as lib/tickets.ts writes and withdraws them.                    *)

RefTypes == {"request", "shop_transfer", "shop_ask", "prod_order", "direct"}
Drawn(st) == st # "Not drawn"

NoTicket == [st |-> "Not drawn", refType |-> "direct", ref |-> NoDocument,
             from |-> Store, to |-> Store, lines |-> Nothing, otpAttempts |-> 0]

\* A fresh number, the ticket's lines, and a hold for each of them at `from`.
WriteTicket(t, refType, ref, from, to, q) ==
    /\ ~Drawn(tkt[t].st)
    /\ q # Nothing
    /\ tkt' = [tkt EXCEPT ![t] = [st |-> "Issued", refType |-> refType, ref |-> ref,
                                  from |-> from, to |-> to, lines |-> q, otpAttempts |-> 0]]
    /\ rsv' = [rsv EXCEPT ![t] = q]

KeepHold(t) == rsv' = rsv
ReleaseForTicket(t) == rsv' = [rsv EXCEPT ![t] = Nothing]

-----------------------------------------------------------------------------
(* Stock requests: modules/requests/service.ts.                            *)

NoRequest == [st |-> "Not drawn", from |-> Store, lines |-> Nothing, appr |-> Nothing,
              ticket |-> NoDocument]
Idle == [at |-> "idle", free |-> Nothing, src |-> Store]
Reading == {"idle", "stock read", "held read", "open read", "outlets read"}

CreateRequest(r, from, q) ==
    /\ ~Drawn(req[r].st)
    /\ MayName(from)
    /\ req' = [req EXCEPT ![r] = [st |-> "Request sent", from |-> from, lines |-> q,
                                  appr |-> Nothing, ticket |-> NoDocument]]
    /\ UNCHANGED <<onHand, rsv, tkt, pend, ask, ord, bill, active, closing>>

CancelRequest(r) ==
    /\ RowFree(r)
    /\ req[r].st # "Ticket issued"
    /\ "Cancelled" \in REQUEST_TRANSITIONS(req[r].st)
    /\ req' = [req EXCEPT ![r].st = "Cancelled"]
    /\ UNCHANGED <<onHand, rsv, tkt, pend, ask, ord, bill, active, closing>>

RejectRequest(r) ==
    /\ RowFree(r)
    /\ "Rejected" \in REQUEST_TRANSITIONS(req[r].st)
    /\ req' = [req EXCEPT ![r].st = "Rejected"]
    /\ UNCHANGED <<onHand, rsv, tkt, pend, ask, ord, bill, active, closing>>

\* The approval's reads are three statements with three snapshots and no balance lock.
ApproveReadStock(r) ==
    /\ RowFree(r)
    /\ req[r].st = "Request sent"
    /\ pend' = [pend EXCEPT ![r].at = "stock read", ![r].free = onHand[Store]]
    /\ UNCHANGED <<onHand, rsv, tkt, req, ask, ord, bill, active, closing>>

ApproveReadHeld(r) ==
    /\ pend[r].at = "stock read"
    /\ pend' = [pend EXCEPT ![r].at = "held read",
                            ![r].free = [i \in Items |-> @[i] - Held(Store, i)]]
    /\ UNCHANGED <<onHand, rsv, tkt, req, ask, ord, bill, active, closing>>

ApproveReadOpen(r) ==
    /\ pend[r].at = "held read"
    /\ pend' = [pend EXCEPT ![r].at = "open read",
                            ![r].free = [i \in Items |-> @[i] - Committed(i)]]
    /\ UNCHANGED <<onHand, rsv, tkt, req, ask, ord, bill, active, closing>>

Least(a, b) == IF a <= b THEN a ELSE b

ApprovedStatus(q, appr) == IF appr = q THEN "Manager approved" ELSE "Partially approved"

\* planApproval: never more than asked, than the manager typed, than was free when read.
PlanApproval(q, want, free) ==
    [i \in Items |-> LET ok == Least(Least(q[i], want[i]), free[i])
                     IN  IF ok < 0 THEN 0 ELSE ok]

ApproveCommit(r, want) ==
    LET appr == PlanApproval(req[r].lines, want, pend[r].free)
        st == IF appr = Nothing THEN "Rejected" ELSE ApprovedStatus(req[r].lines, appr)
    IN  /\ pend[r].at = "open read"
        /\ st \in REQUEST_TRANSITIONS(req[r].st)
        /\ req' = [req EXCEPT ![r].st = st, ![r].appr = appr]
        /\ pend' = [pend EXCEPT ![r] = Idle]
        /\ UNCHANGED <<onHand, rsv, tkt, ask, ord, bill, active, closing>>

\* The redirect reads which outlets are open without locking their rows.
RedirectRead(r, src) ==
    /\ RowFree(r)
    /\ req[r].st = "Request sent"
    /\ {req[r].from, src} \subseteq {o \in Outlets : active[o]}
    /\ src # req[r].from
    /\ pend' = [pend EXCEPT ![r].at = "outlets read", ![r].src = src]
    /\ UNCHANGED <<onHand, rsv, tkt, req, ask, ord, bill, active, closing>>

RedirectCommit(r, t) ==
    /\ pend[r].at = "outlets read"
    /\ Covers(pend[r].src, req[r].lines)
    /\ WriteTicket(t, "shop_transfer", r, pend[r].src, req[r].from, req[r].lines)
    /\ req' = [req EXCEPT ![r].st = "Ticket issued", ![r].appr = req[r].lines, ![r].ticket = t]
    /\ pend' = [pend EXCEPT ![r] = Idle]
    /\ UNCHANGED <<onHand, ask, ord, bill, active, closing>>

\* A refusal at the end, a dropped connection or a crash: the database rolls the decision back.
Rollback(r) ==
    /\ ~RowFree(r)
    /\ pend' = [pend EXCEPT ![r] = Idle]
    /\ UNCHANGED <<onHand, rsv, tkt, req, ask, ord, bill, active, closing>>

IssueAgain(r, t) ==
    /\ RowFree(r)
    /\ req[r].st = "Ticket issued" \/ "Ticket issued" \in REQUEST_TRANSITIONS(req[r].st)
    /\ Covers(Store, req[r].appr)
    /\ WriteTicket(t, "request", r, Store, req[r].from, req[r].appr)
    /\ req' = [req EXCEPT ![r].st = "Ticket issued", ![r].ticket = t]
    /\ UNCHANGED <<onHand, pend, ask, ord, bill, active, closing>>

Issue(r, t) ==
    /\ RowFree(r)
    /\ "Ticket issued" \in REQUEST_TRANSITIONS(req[r].st)
    /\ Covers(Store, req[r].appr)
    /\ WriteTicket(t, "request", r, Store, req[r].from, req[r].appr)
    /\ req' = [req EXCEPT ![r].st = "Ticket issued", ![r].ticket = t]
    /\ UNCHANGED <<onHand, pend, ask, ord, bill, active, closing>>

-----------------------------------------------------------------------------
(* Shop to shop: modules/shopasks/service.ts and tickets.transfer.         *)

NoAsk == [st |-> "Not drawn", from |-> Store, to |-> Store, lines |-> Nothing]

AskShop(a, from, to, i, q) ==
    /\ ~Drawn(ask[a].st)
    /\ from # to
    /\ MayName(from) /\ MayName(to)
    /\ ask' = [ask EXCEPT ![a] = [st |-> "Asked", from |-> from, to |-> to, lines |-> One(i, q)]]
    /\ UNCHANGED <<onHand, rsv, tkt, req, pend, ord, bill, active, closing>>

AnswerLeavesAsked(a, t, grant) ==
    /\ "Sent" \in SHOP_ASK_TRANSITIONS(ask[a].st)
    /\ \A i \in Items : grant[i] <= ask[a].lines[i]
    /\ Covers(ask[a].to, grant)
    /\ WriteTicket(t, "shop_ask", a, ask[a].to, ask[a].from, grant)
    /\ UNCHANGED <<onHand, req, pend, ask, ord, bill, active, closing>>

\* The shop that was asked grants no more than was asked; the ticket runs back to the asker.
Answer(a, t, grant) ==
    /\ "Sent" \in SHOP_ASK_TRANSITIONS(ask[a].st)
    /\ \A i \in Items : grant[i] <= ask[a].lines[i]
    /\ Covers(ask[a].to, grant)
    /\ WriteTicket(t, "shop_ask", a, ask[a].to, ask[a].from, grant)
    /\ ask' = [ask EXCEPT ![a].st = "Sent"]
    /\ UNCHANGED <<onHand, req, pend, ord, bill, active, closing>>

DeclineAsk(a) ==
    /\ "Declined" \in SHOP_ASK_TRANSITIONS(ask[a].st)
    /\ ask' = [ask EXCEPT ![a].st = "Declined"]
    /\ UNCHANGED <<onHand, rsv, tkt, req, pend, ord, bill, active, closing>>

Transfer(t, from, to, i, q) ==
    /\ from # to
    /\ MayName(from) /\ MayName(to)
    /\ Covers(from, One(i, q))
    /\ WriteTicket(t, "shop_transfer", NoDocument, from, to, One(i, q))
    /\ UNCHANGED <<onHand, req, pend, ask, ord, bill, active, closing>>

-----------------------------------------------------------------------------
(* The kitchen: modules/production/service.ts.                             *)

NoOrder == [st |-> "Not drawn", from |-> Store, lines |-> Nothing]

\* Finished goods only, and only for an outlet.
RaiseOrder(d, from, q) ==
    /\ ~Drawn(ord[d].st)
    /\ MayName(from)
    /\ \A i \in RawItems : q[i] = 0
    /\ ord' = [ord EXCEPT ![d] = [st |-> "New", from |-> from, lines |-> q]]
    /\ UNCHANGED <<onHand, rsv, tkt, req, pend, ask, bill, active, closing>>

\* One press on the kitchen's board; neither end of it may be "Dispatched".
SetOrderStatusBackToo(d, st) ==
    /\ st # "Dispatched"
    /\ st \in PROD_ORDER_TRANSITIONS(ord[d].st)
    /\ ord' = [ord EXCEPT ![d].st = st]
    /\ UNCHANGED <<onHand, rsv, tkt, req, pend, ask, bill, active, closing>>

SetOrderStatus(d, st) ==
    /\ st # "Dispatched"
    /\ ord[d].st # "Dispatched"
    /\ st \in PROD_ORDER_TRANSITIONS(ord[d].st)
    /\ ord' = [ord EXCEPT ![d].st = st]
    /\ UNCHANGED <<onHand, rsv, tkt, req, pend, ask, bill, active, closing>>

DispatchAgain(d, t) ==
    /\ ord[d].st \in {"Ready", "Dispatched"}
    /\ Covers(Kitchen, ord[d].lines)
    /\ WriteTicket(t, "prod_order", d, Kitchen, ord[d].from, ord[d].lines)
    /\ ord' = [ord EXCEPT ![d].st = "Dispatched"]
    /\ UNCHANGED <<onHand, req, pend, ask, bill, active, closing>>

Dispatch(d, t) ==
    /\ "Dispatched" \in PROD_ORDER_TRANSITIONS(ord[d].st)
    /\ Covers(Kitchen, ord[d].lines)
    /\ WriteTicket(t, "prod_order", d, Kitchen, ord[d].from, ord[d].lines)
    /\ ord' = [ord EXCEPT ![d].st = "Dispatched"]
    /\ UNCHANGED <<onHand, req, pend, ask, bill, active, closing>>

Distribute(t, to, i, q) ==
    /\ to # Kitchen
    /\ MayName(to)
    /\ Covers(Kitchen, One(i, q))
    /\ WriteTicket(t, "direct", NoDocument, Kitchen, to, One(i, q))
    /\ UNCHANGED <<onHand, req, pend, ask, ord, bill, active, closing>>

MakeBatch(i, q) ==
    /\ i \notin RawItems
    /\ onHand[Kitchen][i] + q <= MaxOnHand
    /\ onHand' = Land(Kitchen, One(i, q))
    /\ UNCHANGED <<rsv, tkt, req, pend, ask, ord, bill, active, closing>>

-----------------------------------------------------------------------------
(* The scans: modules/tickets/service.ts.                                  *)

\* linkedRequest: any ticket that names a request, a redirect's included.
LinkedRequest(t) == {r \in Requests : tkt[t].ref = r}

FollowRequest(t, st) ==
    req' = [r \in Requests |->
               IF r \in LinkedRequest(t) /\ st \in REQUEST_TRANSITIONS(req[r].st)
               THEN [req[r] EXCEPT !.st = st] ELSE req[r]]

Handover(t) ==
    /\ "Collected" \in TICKET_TRANSITIONS(tkt[t].st)
    /\ \A r \in LinkedRequest(t) : RowFree(r)
    /\ tkt[t].otpAttempts < OTP_ATTEMPTS
    /\ CoversIgnoringHolds(tkt[t].from, tkt[t].lines)
    /\ onHand' = Take(tkt[t].from, tkt[t].lines)
    /\ ReleaseForTicket(t)
    /\ tkt' = [tkt EXCEPT ![t].st = "Collected"]
    /\ FollowRequest(t, "Collected")
    /\ UNCHANGED <<pend, ask, ord, bill, active, closing>>

WrongOtpUncounted(t) ==
    /\ "Collected" \in TICKET_TRANSITIONS(tkt[t].st)
    /\ tkt[t].otpAttempts <= OTP_ATTEMPTS
    /\ tkt' = [tkt EXCEPT ![t].otpAttempts = @ + 1]
    /\ UNCHANGED <<onHand, rsv, req, pend, ask, ord, bill, active, closing>>

\* A wrong code is refused, and the refusal is the one that commits.
WrongOtp(t) ==
    /\ "Collected" \in TICKET_TRANSITIONS(tkt[t].st)
    /\ tkt[t].otpAttempts < OTP_ATTEMPTS
    /\ tkt' = [tkt EXCEPT ![t].otpAttempts = @ + 1]
    /\ UNCHANGED <<onHand, rsv, req, pend, ask, ord, bill, active, closing>>

Receive(t) ==
    /\ "Received" \in TICKET_TRANSITIONS(tkt[t].st)
    /\ \A r \in LinkedRequest(t) : RowFree(r)
    /\ onHand' = Land(tkt[t].to, tkt[t].lines)
    /\ tkt' = [tkt EXCEPT ![t].st = "Received"]
    /\ FollowRequest(t, "Closed")
    /\ UNCHANGED <<rsv, pend, ask, ord, bill, active, closing>>

\* The document behind a cancelled ticket, by ref_type: a redirected request's ticket is a
\* "shop_transfer", so no document is found for it.
CancelTicket(t) ==
    LET d == tkt[t].ref
        kind == tkt[t].refType
    IN  /\ "Cancelled" \in TICKET_TRANSITIONS(tkt[t].st)
        /\ kind = "request" => RowFree(d) /\ req[d].st = "Ticket issued"
        /\ kind = "prod_order" => "Ready" \in PROD_ORDER_TRANSITIONS(ord[d].st)
        /\ kind = "shop_ask" => "Asked" \in SHOP_ASK_TRANSITIONS(ask[d].st)
        /\ ReleaseForTicket(t)
        /\ tkt' = [tkt EXCEPT ![t].st = "Cancelled"]
        /\ req' = [r \in Requests |->
                      IF kind = "request" /\ r = d
                      THEN [req[r] EXCEPT !.st = ApprovedStatus(req[r].lines, req[r].appr),
                                          !.ticket = NoDocument]
                      ELSE req[r]]
        /\ ord' = [o \in Orders |-> IF kind = "prod_order" /\ o = d
                                    THEN [ord[o] EXCEPT !.st = "Ready"] ELSE ord[o]]
        /\ ask' = [a \in Asks |-> IF kind = "shop_ask" /\ a = d
                                  THEN [ask[a] EXCEPT !.st = "Asked"] ELSE ask[a]]
        /\ UNCHANGED <<onHand, pend, bill, active, closing>>

-----------------------------------------------------------------------------
(* Sales, corrections and receipts.                                        *)

NoBill == [st |-> "Not drawn", loc |-> Store, lines |-> Nothing]

\* postSale: the outlet open and locked, the shelves locked, then the cover read.
Sale(b, loc, q) ==
    /\ ~Drawn(bill[b].st)
    /\ MayName(loc)
    /\ Covers(loc, q)
    /\ onHand' = Take(loc, q)
    /\ bill' = [bill EXCEPT ![b] = [st |-> "Live", loc |-> loc, lines |-> q]]
    /\ UNCHANGED <<rsv, tkt, req, pend, ask, ord, active, closing>>

VoidBill(b) ==
    /\ bill[b].st = "Live"
    /\ MayName(bill[b].loc)
    /\ onHand' = LandWithoutUse(bill[b].loc, bill[b].lines)
    /\ bill' = [bill EXCEPT ![b].st = "Voided"]
    /\ UNCHANGED <<rsv, tkt, req, pend, ask, ord, active, closing>>

\* writeAdjustment: written off no further than is free, counted up, under one lock.
Adjust(l, down, up) ==
    /\ MayName(l)
    /\ \A i \in Items : down[i] = 0 \/ (up[i] = 0 /\ ~UsedOnArrival(l, i))
    /\ \E i \in Items : down[i] # up[i]
    /\ Covers(l, down)
    /\ \A i \in Items : up[i] = 0 \/ onHand[l][i] + up[i] <= MaxOnHand
    /\ onHand' = [onHand EXCEPT ![l] =
                     [i \in Items |-> IF UsedOnArrival(l, i) THEN @[i] ELSE @[i] - down[i] + up[i]]]
    /\ UNCHANGED <<rsv, tkt, req, pend, ask, ord, bill, active, closing>>

\* The accepted part of a goods receipt, or a new product's opening figure, at the store.
LandAtStore(i, q) ==
    /\ onHand[Store][i] + q <= MaxOnHand
    /\ onHand' = Land(Store, One(i, q))
    /\ UNCHANGED <<rsv, tkt, req, pend, ask, ord, bill, active, closing>>

-----------------------------------------------------------------------------
(* Opening and closing an outlet: modules/admin/service.ts.                *)

HoldingRequest == ReqStatus \ {"Closed", "Rejected", "Cancelled"}
HoldingTicket == {"Issued", "Collected"}
HoldingOrder == PordStatus \ {"Dispatched", "Declined"}
HoldingAsk == {"Asked"}

\* closeBlockers, one statement and so one snapshot.
Blocked(o) ==
    \/ \E i \in Items : onHand[o][i] # 0
    \/ \E t \in Tickets : o \in {tkt[t].from, tkt[t].to} /\ tkt[t].st \in HoldingTicket
    \/ \E r \in Requests : req[r].from = o /\ req[r].st \in HoldingRequest
    \/ \E d \in Orders : ord[d].from = o /\ ord[d].st \in HoldingOrder
    \/ \E a \in Asks : o \in {ask[a].from, ask[a].to} /\ ask[a].st \in HoldingAsk

CloseBegin(o) ==
    /\ active[o] /\ ~closing[o]
    /\ ~Blocked(o)
    /\ closing' = [closing EXCEPT ![o] = TRUE]
    /\ UNCHANGED <<onHand, rsv, tkt, req, pend, ask, ord, bill, active>>

CloseEnd(o, commit) ==
    /\ closing[o]
    /\ closing' = [closing EXCEPT ![o] = FALSE]
    /\ active' = [active EXCEPT ![o] = ~commit]
    /\ UNCHANGED <<onHand, rsv, tkt, req, pend, ask, ord, bill>>

ReopenOutlet(o) ==
    /\ ~active[o]
    /\ active' = [active EXCEPT ![o] = TRUE]
    /\ UNCHANGED <<onHand, rsv, tkt, req, pend, ask, ord, bill, closing>>

-----------------------------------------------------------------------------
Init ==
    /\ onHand = [l \in Locs |-> Nothing]
    /\ rsv = [t \in Tickets |-> Nothing]
    /\ tkt = [t \in Tickets |-> NoTicket]
    /\ req = [r \in Requests |-> NoRequest]
    /\ pend = [r \in Requests |-> Idle]
    /\ ask = [a \in Asks |-> NoAsk]
    /\ ord = [d \in Orders |-> NoOrder]
    /\ bill = [b \in Bills |-> NoBill]
    /\ active = [o \in Outlets |-> TRUE]
    /\ closing = [o \in Outlets |-> FALSE]

RequestStep ==
    \E r \in Requests :
        \/ \E from \in Outlets \cup {Kitchen}, q \in RealLines : CreateRequest(r, from, q)
        \/ CancelRequest(r)
        \/ RejectRequest(r)
        \/ ApproveReadStock(r)
        \/ ApproveReadHeld(r)
        \/ ApproveReadOpen(r)
        \/ \E want \in Lines : ApproveCommit(r, want)
        \/ \E src \in Outlets : RedirectRead(r, src)
        \/ \E t \in Tickets : RedirectCommit(r, t)
        \/ Rollback(r)
        \/ \E t \in Tickets : Issue(r, t)

ShopStep ==
    \/ \E a \in Asks, from, to \in Outlets, i \in Items, q \in 1..MaxQty : AskShop(a, from, to, i, q)
    \/ \E a \in Asks, t \in Tickets, grant \in RealLines : Answer(a, t, grant)
    \/ \E a \in Asks : DeclineAsk(a)
    \/ \E t \in Tickets, from, to \in Outlets, i \in Items, q \in 1..MaxQty : Transfer(t, from, to, i, q)

KitchenStep ==
    \/ \E d \in Orders, from \in Outlets, q \in RealLines : RaiseOrder(d, from, q)
    \/ \E d \in Orders, st \in PordStatus : SetOrderStatus(d, st)
    \/ \E d \in Orders, t \in Tickets : Dispatch(d, t)
    \/ \E t \in Tickets, to \in Locs, i \in Items, q \in 1..MaxQty : Distribute(t, to, i, q)
    \/ \E i \in Items, q \in 1..MaxQty : MakeBatch(i, q)

ScanStep ==
    \E t \in Tickets : Handover(t) \/ WrongOtp(t) \/ Receive(t) \/ CancelTicket(t)

ShelfStep ==
    \/ \E b \in Bills, loc \in Outlets, q \in RealLines : Sale(b, loc, q)
    \/ \E b \in Bills : VoidBill(b)
    \/ \E l \in Counted, down, up \in Lines : Adjust(l, down, up)
    \/ \E i \in Items, q \in 1..MaxQty : LandAtStore(i, q)

OutletStep ==
    \E o \in Outlets : CloseBegin(o) \/ (\E commit \in BOOLEAN : CloseEnd(o, commit)) \/ ReopenOutlet(o)

Next == RequestStep \/ ShopStep \/ KitchenStep \/ ScanStep \/ ShelfStep \/ OutletStep

Spec == Init /\ [][Next]_vars

-----------------------------------------------------------------------------
(* Properties.                                                             *)

TicketRow == [st : TktStatus \cup {"Not drawn"}, refType : RefTypes,
              ref : Documents \cup {NoDocument}, from : Locs, to : Locs,
              lines : Lines, otpAttempts : 0..OTP_ATTEMPTS]
RequestRow == [st : ReqStatus \cup {"Not drawn"}, from : Locs, lines : Lines,
               appr : Lines, ticket : Tickets \cup {NoDocument}]
DecisionRow == [at : Reading, free : [Items -> Int], src : Locs]
AskRow == [st : ShopAskStatus \cup {"Not drawn"}, from : Locs, to : Locs, lines : Lines]
OrderRow == [st : PordStatus \cup {"Not drawn"}, from : Locs, lines : Lines]
BillRow == [st : {"Not drawn", "Live", "Voided"}, loc : Locs, lines : Lines]

\* Types; among them that no balance is ever negative, no ticket takes more than OTP_ATTEMPTS
\* wrong codes and no approval is negative or past the largest line.
TypeOK ==
    /\ onHand \in [Locs -> [Items -> Nat]]
    /\ rsv \in [Tickets -> Lines]
    /\ tkt \in [Tickets -> TicketRow]
    /\ req \in [Requests -> RequestRow]
    /\ pend \in [Requests -> DecisionRow]
    /\ ask \in [Asks -> AskRow]
    /\ ord \in [Orders -> OrderRow]
    /\ bill \in [Bills -> BillRow]
    /\ active \in [Outlets -> BOOLEAN]
    /\ closing \in [Outlets -> BOOLEAN]

\* A ticket's hold is there for exactly as long as the ticket is issued and uncollected: placed
\* with the ticket, gone with its handover or its cancellation, and never half of its lines.
HoldsMatchTickets ==
    \A t \in Tickets : rsv[t] = IF tkt[t].st = "Issued" THEN tkt[t].lines ELSE Nothing

\* No shelf promises more than it has: the holds of all tickets on it, made by requests, asks,
\* transfers, redirects and dispatches, never exceed its balance, whatever sales and write-offs
\* ran in between.
NoOversell == \A l \in Locs, i \in Items : Held(l, i) <= onHand[l][i]

\* The handover's re-read of the shelf never refuses: what an issued ticket lists is still there.
IssuedTicketsCovered ==
    \A t \in Tickets : tkt[t].st = "Issued" =>
        \A i \in Items : tkt[t].lines[i] <= onHand[tkt[t].from][i]

LiveTickets(d) == {t \in Tickets : tkt[t].ref = d /\ tkt[t].st \notin {"Not drawn", "Cancelled"}}

\* No document is supplied twice: at most one ticket that was not cancelled names it, through
\* every order of issue, redirect, dispatch, answer, cancel and the kitchen's board.
OneLiveTicketPerDocument ==
    \A d \in Documents : \A t, u \in LiveTickets(d) : t = u

RequestStatusOf(st) ==
    CASE st = "Issued" -> "Ticket issued" [] st = "Collected" -> "Collected" [] OTHER -> "Closed"

\* A document says where its ticket is: the request behind a live ticket walks with the scans, an
\* order is dispatched and an ask sent just while a live ticket names it, and a request the store
\* issued that claims a ticket has it.
DocumentsFollowTickets ==
    /\ \A r \in Requests : \A t \in LiveTickets(r) :
           req[r].ticket = t /\ req[r].st = RequestStatusOf(tkt[t].st)
    /\ \A r \in Requests :
           /\ req[r].st \in {"Ticket issued", "Collected", "Closed"}
           /\ tkt[req[r].ticket].refType = "request"
           => req[r].ticket \in LiveTickets(r)
    /\ \A d \in Orders : ord[d].st = "Dispatched" <=> LiveTickets(d) # {}
    /\ \A a \in Asks : ask[a].st = "Sent" <=> LiveTickets(a) # {}

Idleness(o) ==
    /\ \A i \in Items : onHand[o][i] = 0
    /\ \A t \in Tickets : o \in {tkt[t].from, tkt[t].to} => tkt[t].st \notin {"Issued", "Collected"}
    /\ \A r \in Requests : req[r].from = o => req[r].st \in {"Closed", "Rejected", "Cancelled"}
    /\ \A d \in Orders : ord[d].from = o => ord[d].st \in {"Dispatched", "Declined"}
    /\ \A a \in Asks : o \in {ask[a].from, ask[a].to} => ask[a].st \in {"Sent", "Declined"}

\* A closed outlet has nothing on its shelves, nothing on its way in or out and no document
\* waiting on it, although dispatches, answers, scans, cancels and redirects take no lock on its
\* row and may commit between the close's count and its write.
ClosedOutletIdle == \A o \in Outlets : active[o] \/ Idleness(o)

\* tickets/service.ts: "the document behind the ticket goes back to where it was before the ticket
\* was raised" - so no request is left claiming a ticket that was cancelled.
CancelledTicketFreesItsRequest ==
    \A r \in Requests : req[r].st = "Ticket issued" => tkt[req[r].ticket].st = "Issued"

\* What stands on all shelves together and what is between two of them, counted by the unit.
ShelfUnits(i) == UNION {{l} \X (1..onHand[l][i]) : l \in Locs}
TransitUnits(i) ==
    {u \in Tickets \X (1..MaxQty) : tkt[u[1]].st = "Collected" /\ u[2] <= tkt[u[1]].lines[i]}

Total(i) == Cardinality(ShelfUnits(i)) + Cardinality(TransitUnits(i))

\* Nothing is made or lost on the way: a step that moves a ticket on keeps the hospital's total,
\* shelves and transit together, except for what the kitchen uses as it arrives.
ScansConserveStock ==
    [][\A t \in Tickets : tkt'[t].st # tkt[t].st =>
          \A i \in Items :
              Total(i)' = Total(i) -
                  IF tkt'[t].st = "Received" /\ tkt[t].to = Kitchen /\ i \in RawItems
                  THEN tkt[t].lines[i] ELSE 0]_vars

-----------------------------------------------------------------------------
(* The documents implement the shelf discipline of module Shelf.           *)

ShelfView == INSTANCE Shelf WITH
    bal <- onHand, held <- [l \in Locs |-> [i \in Items |-> Held(l, i)]]

\* Every step of every document is a hold, a release, a collection or a posting on one shelf, or
\* leaves the shelves alone.
ImplementsShelf == ShelfView!ShelfSpec
=============================================================================
