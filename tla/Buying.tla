------------------------------- MODULE Buying -------------------------------
(***************************************************************************)
(* Buying: requisitions, the procurement list, purchase orders and goods   *)
(* receipts (modules/requisitions, purchaseorders, grn, vendors;           *)
(* lib/claims.ts, packages/domain claims.ts, receipt.ts, approval.ts).     *)
(*                                                                         *)
(* The procurement list is nowhere stored: it is what a requisition line   *)
(* approved less what orders claimed of it.  Every write but the creation  *)
(* of an order locks the order's row first and requisitions after it, in   *)
(* ascending order, before it reads either; a creation locks requisitions  *)
(* only.  So each is one step.  The lock order itself is left out.         *)
(*                                                                         *)
(* A requisition here has one line (a requisition of several is several    *)
(* with one row lock), an order one line per item, as `create` merges      *)
(* them.  Quantities are whole, so that a line's sources are a sequence of *)
(* units in the order they were picked, each the requisition it is for; a  *)
(* source always asks for its line's item.  Rates are RateContracts's.     *)
(***************************************************************************)
EXTENDS Integers, Sequences, FiniteSets

CONSTANTS
    Requisitions,
    Asked,              \* requisition -> the item it asks for
    Orders,
    Vendors,
    MaxBuyQty,          \* bound: the quantity on one requisition line
    MaxPicked           \* bound: the quantity on one order line

ASSUME BuyingBounds == MaxBuyQty \in Nat \ {0} /\ MaxPicked \in Nat \ {0}
ASSUME OrdersAssumption == IsFiniteSet(Orders)

BuyItems == {Asked[r] : r \in Requisitions}
AskersOf(i) == {r \in Requisitions : Asked[r] = i}

\* What a buyer may pick: of each item, units of the requisitions that ask for it, in an order.
Picks == {picks \in [BuyItems -> UNION {[1..n -> Requisitions] : n \in 0..MaxPicked}] :
             /\ \A i \in BuyItems : \A n \in DOMAIN picks[i] : picks[i][n] \in AskersOf(i)
             /\ \E i \in BuyItems : picks[i] # <<>>}

VARIABLES
    prq,        \* requisitions and their line: st, qty asked, appr, ordered
    po,         \* purchase_orders: st, vendor
    line,       \* po_lines and po_line_sources: qty, recv, rejected, src
    supplies,   \* vendors.active
    shelf       \* what goods receipts put on the store's shelf and into quarantine

buyingVars == <<prq, po, line, supplies, shelf>>

NoLine == [qty |-> 0, recv |-> 0, rejected |-> 0, src |-> <<>>]
OnOrder(o) == {i \in BuyItems : line[o][i].qty > 0}

-----------------------------------------------------------------------------
(* Claims.                                                                 *)

\* releaseClaim, last source first: how many units stay when `give` of them go back.
Stays(src, give) ==
    CASE give <= 0 -> Len(src)
      [] give >= Len(src) -> 0
      [] OTHER -> Len(src) - give

\* foldClaims: of each requisition line, how many of the units past those that stay are its own.
Claims(srcs, stays) ==
    [r \in Requisitions |->
        Cardinality({n \in DOMAIN srcs[Asked[r]] : n > stays[Asked[r]] /\ srcs[Asked[r]][n] = r})]

\* addOrdered: every delta of one requisition line added up, then written.
AddOrdered(claims, sign) ==
    [r \in Requisitions |-> [prq[r] EXCEPT !.ordered = @ + sign * claims[r]]]

SourcesOf(o) == [i \in BuyItems |-> line[o][i].src]
NoneStay == [i \in BuyItems |-> 0]

\* Of one line `give` units are released, of the others nothing.
OffOneLine(o, i, give) ==
    [j \in BuyItems |-> Stays(line[o][j].src, IF j = i THEN give ELSE 0)]

NetReceived(l) == l.recv - l.rejected

\* shortfallClaims: what was not accepted, of every line.
ShortfallClaims(o) ==
    Claims(SourcesOf(o),
           [i \in BuyItems |-> Stays(line[o][i].src, line[o][i].qty - NetReceived(line[o][i]))])

-----------------------------------------------------------------------------
(* Requisitions.                                                           *)

\* create.
SendRequisition(r, q) ==
    /\ prq[r].st = "none"
    /\ prq' = [prq EXCEPT ![r] = [st |-> "Sent", qty |-> q, appr |-> 0, ordered |-> 0]]
    /\ UNCHANGED <<po, line, supplies, shelf>>

\* addDirect: the buyer's own entry is approved in full as it is written.
AddToProcurementList(r, q) ==
    /\ prq[r].st = "none"
    /\ prq' = [prq EXCEPT ![r] = [st |-> "Approved", qty |-> q, appr |-> q, ordered |-> 0]]
    /\ UNCHANGED <<po, line, supplies, shelf>>

\* planPrqApproval and prqStatus.
PrqStatus(qty, appr) ==
    IF appr = 0 THEN "Declined" ELSE IF appr < qty THEN "Partially approved" ELSE "Approved"

\* approve; decline is the same with nothing typed.
ApproveRequisition(r, typed) ==
    LET appr == IF typed < prq[r].qty THEN typed ELSE prq[r].qty
    IN  /\ prq[r].st = "Sent"
        /\ prq' = [prq EXCEPT ![r].st = PrqStatus(prq[r].qty, appr), ![r].appr = appr]
        /\ UNCHANGED <<po, line, supplies, shelf>>

DeclineRequisition(r) ==
    /\ prq[r].st = "Sent"
    /\ prq' = [prq EXCEPT ![r].st = "Declined", ![r].appr = 0]
    /\ UNCHANGED <<po, line, supplies, shelf>>

-----------------------------------------------------------------------------
(* Purchase orders.                                                        *)

PendingOn(r) ==
    IF prq[r].st \in {"Approved", "Partially approved"} THEN prq[r].appr - prq[r].ordered ELSE 0

\* Folded before it is checked: two picks of one line must fit together.
PicksFit(claims) == \A r \in Requisitions : claims[r] > 0 => claims[r] <= PendingOn(r)

\* create: picks of one item become one line, its sources in the order they were picked.
CreateOrder(o, v, picks) ==
    /\ po[o].st = "none"
    /\ supplies[v]
    /\ PicksFit(Claims(picks, NoneStay))
    /\ prq' = AddOrdered(Claims(picks, NoneStay), 1)
    /\ po' = [po EXCEPT ![o] = [st |-> "Draft", vendor |-> v]]
    /\ line' = [line EXCEPT ![o] = [i \in BuyItems |->
                  [NoLine EXCEPT !.qty = Len(picks[i]), !.src = picks[i]]]]
    /\ UNCHANGED <<supplies, shelf>>

\* updateLine with a quantity, which only goes down (a rate alone moves no claim).
CutLine(o, i, want) ==
    LET stays == OffOneLine(o, i, line[o][i].qty - want)
    IN  /\ po[o].st = "Draft"
        /\ want \in 1..line[o][i].qty
        /\ prq' = AddOrdered(Claims(SourcesOf(o), stays), -1)
        /\ line' = [line EXCEPT ![o][i].qty = want, ![o][i].src = SubSeq(@, 1, stays[i])]
        /\ UNCHANGED <<po, supplies, shelf>>

RemoveLine(o, i) ==
    /\ po[o].st = "Draft"
    /\ i \in OnOrder(o)
    /\ prq' = AddOrdered(Claims(SourcesOf(o), OffOneLine(o, i, line[o][i].qty)), -1)
    /\ line' = [line EXCEPT ![o][i] = NoLine]
    /\ UNCHANGED <<po, supplies, shelf>>

\* patch: the vendor, while it is a draft (a date or a rate changes nothing here).
MoveOrder(o, v) ==
    /\ po[o].st = "Draft"
    /\ supplies[v] /\ v # po[o].vendor
    /\ po' = [po EXCEPT ![o].vendor = v]
    /\ UNCHANGED <<prq, line, supplies, shelf>>

SendOrder(o) ==
    /\ po[o].st = "Draft"
    /\ OnOrder(o) # {}
    /\ supplies[po[o].vendor]
    /\ po' = [po EXCEPT ![o].st = "Ordered"]
    /\ UNCHANGED <<prq, line, supplies, shelf>>

\* Any arrival, accepted or not, means close short and not cancel.
NothingArrived(o) == \A i \in OnOrder(o) : line[o][i].recv = 0

CancelOrder(o) ==
    /\ po[o].st \in {"Draft", "Ordered"}
    /\ NothingArrived(o)
    /\ prq' = AddOrdered(Claims(SourcesOf(o), NoneStay), -1)
    /\ po' = [po EXCEPT ![o].st = "Cancelled"]
    /\ UNCHANGED <<line, supplies, shelf>>

-----------------------------------------------------------------------------
(* Goods receipt.                                                          *)

\* RECEIPT_TOLERANCE, in whole units.
Tolerated(qty) == (102 * qty) \div 100

\* checkReceiptLine: never past what was ordered by more than the tolerance.  Batch and dates are
\* refused before anything is written.
ReceiptFits(l, recv, rejected) ==
    /\ recv > 0 \/ rejected = 0
    /\ rejected <= recv
    /\ recv > 0 => NetReceived(l) + recv <= Tolerated(l.qty)

ArrivedStatus(ls) == IF \A i \in DOMAIN ls : ls[i].recv >= ls[i].qty THEN "Received" ELSE "Partially received"
\* receiptStatus: covered means accepted.
ReceiptStatus(ls) ==
    IF \A i \in DOMAIN ls : NetReceived(ls[i]) >= ls[i].qty THEN "Received" ELSE "Partially received"

\* receive: one instalment, every line of it checked before anything is written.
Receive(o, came, bad) ==
    LET after == [i \in BuyItems |-> [line[o][i] EXCEPT !.recv = @ + came[i], !.rejected = @ + bad[i]]]
    IN  /\ po[o].st \in {"Ordered", "Partially received"}
        /\ \E i \in BuyItems : came[i] > 0
        /\ \A i \in BuyItems : IF i \in OnOrder(o) THEN ReceiptFits(line[o][i], came[i], bad[i])
                               ELSE came[i] = 0 /\ bad[i] = 0
        /\ line' = [line EXCEPT ![o] = after]
        /\ shelf' = [i \in BuyItems |-> [good |-> shelf[i].good + came[i] - bad[i],
                                         quarantine |-> shelf[i].quarantine + bad[i]]]
        /\ po' = [po EXCEPT ![o].st = ReceiptStatus([i \in OnOrder(o) |-> after[i]])]
        /\ UNCHANGED <<prq, supplies>>

\* closeShort: only of a partly received order.
CloseShort(o) ==
    /\ po[o].st = "Partially received"
    /\ prq' = AddOrdered(ShortfallClaims(o), -1)
    /\ po' = [po EXCEPT ![o].st = "Received"]
    /\ UNCHANGED <<line, supplies, shelf>>

\* patch of a vendor: on or off; orders that name it keep it.
SetVendorActive(v, on) ==
    /\ supplies[v] # on
    /\ supplies' = [supplies EXCEPT ![v] = on]
    /\ UNCHANGED <<prq, po, line, shelf>>

-----------------------------------------------------------------------------
BuyingInit ==
    /\ prq = [r \in Requisitions |-> [st |-> "none", qty |-> 0, appr |-> 0, ordered |-> 0]]
    /\ po = [o \in Orders |-> [st |-> "none", vendor |-> "none"]]
    /\ line = [o \in Orders |-> [i \in BuyItems |-> NoLine]]
    /\ supplies = [v \in Vendors |-> TRUE]
    /\ shelf = [i \in BuyItems |-> [good |-> 0, quarantine |-> 0]]

BoundedQuarantine == \A i \in BuyItems : shelf'[i].quarantine <= MaxBuyQty   \* bound on instalments turned away

RequisitionStep ==
    \E r \in Requisitions :
        \/ \E q \in 1..MaxBuyQty : SendRequisition(r, q) \/ AddToProcurementList(r, q)
        \/ \E q \in 0..MaxBuyQty : ApproveRequisition(r, q)
        \/ DeclineRequisition(r)

OrderStep ==
    \E o \in Orders :
        \/ \E v \in Vendors : MoveOrder(o, v) \/ \E picks \in Picks : CreateOrder(o, v, picks)
        \/ \E i \in BuyItems : RemoveLine(o, i) \/ \E q \in 1..MaxPicked : CutLine(o, i, q)
        \/ SendOrder(o) \/ CancelOrder(o) \/ CloseShort(o)
        \/ \E came, bad \in [BuyItems -> 0..Tolerated(MaxPicked)] : Receive(o, came, bad) /\ BoundedQuarantine

BuyingNext ==
    \/ RequisitionStep
    \/ OrderStep
    \/ \E v \in Vendors, on \in BOOLEAN : SetVendorActive(v, on)

BuyingSpec == BuyingInit /\ [][BuyingNext]_buyingVars

-----------------------------------------------------------------------------
(* Properties.                                                             *)

\* What orders claim of a requisition line never passes what was approved of it, and a claim is
\* never given back twice: however orders are drafted, cut, cancelled, received and closed short,
\* ordered_qty stays between nothing and the approval.
ClaimsFitApprovals ==
    \A r \in Requisitions : prq[r].ordered >= 0 /\ prq[r].ordered <= prq[r].appr

\* What an order still stands for: its whole quantity while it is open, what it brought once it
\* is closed.
StandsFor(o, i) ==
    CASE po[o].st \in {"Draft", "Ordered", "Partially received"} -> line[o][i].qty
      [] po[o].st = "Received" -> IF NetReceived(line[o][i]) < line[o][i].qty THEN NetReceived(line[o][i])
                                  ELSE line[o][i].qty
      [] OTHER -> 0

\* The units of a requisition line that orders stand for: the first of each line's sources.
UnitsFor(o, r) ==
    {n \in DOMAIN line[o][Asked[r]].src : n <= StandsFor(o, Asked[r]) /\ line[o][Asked[r]].src[n] = r}
UnitsOn(r) == UNION {{o} \X UnitsFor(o, r) : o \in Orders}

\* Demand is neither lost nor bought twice, nor moved from one store keeper's requisition to
\* another's: what was approved of a requisition line is on the procurement list, on an order
\* still open, or came through the door for it and was accepted.
DemandIsConserved ==
    \A r \in Requisitions : prq[r].appr = PendingOn(r) + Cardinality(UnitsOn(r))

\* A line's sources are what it orders: cutting, merging and re-writing a draft keeps the two equal.
SourcesCoverLines ==
    \A o \in Orders, i \in BuyItems : Len(line[o][i].src) = line[o][i].qty

\* Lines, orders and claims agree, whoever drafts, cuts, receives or cancels what, and in whatever
\* order the two desks do it (claims.ts, purchaseorders/service.ts, requisitions/service.ts).
BuyingAddsUp == ClaimsFitApprovals /\ DemandIsConserved /\ SourcesCoverLines
=============================================================================
