----------------------------- MODULE QrPayments -----------------------------
(***************************************************************************)
(* QR orders, the payments customers make on them at the gateway, and the  *)
(* refunds that go back (modules/qr, lib/qr-orders.ts, lib/refunds.ts, the *)
(* QR side of modules/pos).                                                *)
(*                                                                         *)
(* Every database transaction is one action: each takes its order's or its *)
(* refund's row FOR UPDATE before it reads it.  Gateway calls are made     *)
(* with no transaction open and are actions of their own.  The gateway is  *)
(* the one the code programs against: it may report a fact late, several   *)
(* times or never, may lose an answer, and refuses to refund a payment     *)
(* twice.  Clocks are left out: an order lapses, and a refund comes due    *)
(* again, at any moment after it was placed or claimed.                    *)
(***************************************************************************)
EXTENDS Integers, FiniteSets, Transitions

CONSTANTS
    Orders, Payments,
    GRefunds,               \* the gateway's own refund ids
    Pods,                   \* processes running the QR worker
    REFUND_MAX_ATTEMPTS,    \* 6 in the code
    MaxRefunds,             \* bound: refunds queued for one order
    MaxCrashes,             \* bound: worker crashes
    NoId

ASSUME AttemptAssumption == REFUND_MAX_ATTEMPTS \in Nat \ {0}
ASSUME NoIdAssumption == NoId \notin Orders \cup Payments \cup GRefunds
ASSUME BoundAssumption == MaxRefunds \in Nat /\ MaxCrashes \in Nat

VARIABLES
    ord,        \* qr_orders: status, the payment settled on, the bill behind it
    gpay,       \* payments at the gateway
    rfd,        \* payment_refunds, numbered within their order
    gref,       \* refunds at the gateway, with the notes.rid they carry
    wk,         \* each pod's worker: the refund it claimed and how far it is
    asked,      \* payments the gateway has listed to a reconcile pass still at work
    seen,       \* rzp_webhook_events
    crashes,    \* bound on worker crashes
    forgot      \* history: the gateway refunds a manager's retry cleared from a row

vars == <<ord, gpay, rfd, gref, wk, asked, seen, crashes, forgot>>

Refunds == Orders \X (1..MaxRefunds)
Modes == {"pickup", "deliver"}

Steps(mode) == IF mode = "pickup" THEN <<"Paid", "Preparing", "Ready", "Collected">>
               ELSE <<"Paid", "Preparing", "Out for delivery", "Delivered">>

\* nextQrStep: the one step the mode allows from here.
NextQrStep(mode, st) == {Steps(mode)[i + 1] : i \in {j \in 1..3 : Steps(mode)[j] = st}}

RefundsOf(o) == {r \in Refunds : r[1] = o /\ rfd[r].st # "Not drawn"}
RefundOfPayment(o, p) == {r \in RefundsOf(o) : rfd[r].pay = p}

\* queueRefund: numbered one past the order's refunds, under the order's lock.
QueueRefund(o, p) ==
    LET n == Cardinality(RefundsOf(o)) + 1
    IN  /\ n <= MaxRefunds
        /\ rfd' = [rfd EXCEPT ![<<o, n>>] = [st |-> "Pending", pay |-> p, gid |-> NoId,
                                             attempts |-> 0, due |-> TRUE]]

-----------------------------------------------------------------------------
(* Placing and serving an order.                                           *)

Place(o, mode) ==
    /\ ord[o].st = "Not drawn"
    /\ ord' = [ord EXCEPT ![o].st = "Awaiting payment", ![o].mode = mode]
    /\ UNCHANGED <<gpay, rfd, gref, wk, asked, seen, crashes, forgot>>

\* checkoutFor: the gateway's order is made after the commit and stored once.
OpenCheckout(o) ==
    /\ ord[o].st # "Not drawn" /\ ~ord[o].checkout
    /\ ord' = [ord EXCEPT ![o].checkout = TRUE]
    /\ UNCHANGED <<gpay, rfd, gref, wk, asked, seen, crashes, forgot>>

\* The worker's expiry, or a checkout the gateway refused to open.
Expire(o) ==
    /\ "Expired" \in QR_ORDER_TRANSITIONS(ord[o].st)
    /\ ord' = [ord EXCEPT ![o].st = "Expired"]
    /\ UNCHANGED <<gpay, rfd, gref, wk, asked, seen, crashes, forgot>>

SetStatus(o, st) ==
    /\ st \in NextQrStep(ord[o].mode, ord[o].st)
    /\ st \in QR_ORDER_TRANSITIONS(ord[o].st)
    /\ ord' = [ord EXCEPT ![o].st = st]
    /\ UNCHANGED <<gpay, rfd, gref, wk, asked, seen, crashes, forgot>>

VoidKeepsMoney(o) ==
    /\ ord[o].bill = "Live"
    /\ ord' = [ord EXCEPT ![o].bill = "Voided", ![o].st = "Voided"]
    /\ UNCHANGED <<gpay, rfd, gref, wk, asked, seen, crashes, forgot>>

\* voidBill of a QR bill: the order goes with it and the whole payment is queued to go back.
VoidBill(o) ==
    /\ ord[o].bill = "Live"
    /\ "Voided" \in QR_ORDER_TRANSITIONS(ord[o].st)
    /\ ord' = [ord EXCEPT ![o].bill = "Voided", ![o].st = "Voided"]
    /\ QueueRefund(o, ord[o].pay)
    /\ UNCHANGED <<gpay, gref, wk, asked, seen, crashes, forgot>>

-----------------------------------------------------------------------------
(* Payments.                                                               *)

\* The customer pays at the checkout; `fits` is whether the amount is the order's.
Pay(p, o, fits) ==
    /\ gpay[p].st = "none"
    /\ ord[o].checkout
    /\ gpay' = [gpay EXCEPT ![p] = [st |-> "authorized", ord |-> o, fits |-> fits]]
    /\ UNCHANGED <<ord, rfd, gref, wk, asked, seen, crashes, forgot>>

\* The gateway's automatic capture, whatever the amount.
AutoCapture(p) ==
    /\ gpay[p].st = "authorized"
    /\ gpay' = [gpay EXCEPT ![p].st = "captured"]
    /\ UNCHANGED <<ord, rfd, gref, wk, asked, seen, crashes, forgot>>

\* take: an authorised payment of exactly the order's amount is captured.
Take(p) ==
    /\ gpay[p].st = "authorized" /\ gpay[p].fits
    /\ gpay' = [gpay EXCEPT ![p].st = "captured"]
    /\ UNCHANGED <<ord, rfd, gref, wk, asked, seen, crashes, forgot>>

SettleCaptureUnguarded(p, filled) ==
    LET o == gpay[p].ord
    IN  /\ gpay[p].st = "captured"
        /\ IF filled /\ gpay[p].fits
           THEN /\ ord' = [ord EXCEPT ![o].st = "Paid", ![o].pay = p, ![o].bill = "Live"]
                /\ UNCHANGED rfd
           ELSE /\ ord' = [ord EXCEPT ![o].st = "Refunded", ![o].pay = p]
                /\ QueueRefund(o, p)

\* settleCapture, under the order's lock: the same payment again changes nothing, another payment
\* on a settled order is refunded as a duplicate, and the first is billed if postSale takes it
\* (filled) and the amount fits, else refunded whole.
SettleCapture(p, filled) ==
    LET o == gpay[p].ord
        settled == ord[o].pay # NoId \/ ord[o].st \notin {"Awaiting payment", "Expired"}
    IN  /\ gpay[p].st = "captured"
        /\ CASE ord[o].pay = p -> UNCHANGED <<ord, rfd>>
             [] settled /\ ord[o].pay # p ->
                    /\ IF RefundOfPayment(o, p) # {} THEN UNCHANGED rfd ELSE QueueRefund(o, p)
                    /\ UNCHANGED ord
             [] ~settled /\ filled /\ gpay[p].fits ->
                    /\ "Paid" \in QR_ORDER_TRANSITIONS(ord[o].st)
                    /\ ord' = [ord EXCEPT ![o].st = "Paid", ![o].pay = p, ![o].bill = "Live"]
                    /\ UNCHANGED rfd
             [] ~settled /\ ~(filled /\ gpay[p].fits) ->
                    /\ "Refunded" \in QR_ORDER_TRANSITIONS(ord[o].st)
                    /\ ord' = [ord EXCEPT ![o].st = "Refunded", ![o].pay = p]
                    /\ QueueRefund(o, p)

\* The phone comes back from the checkout, perhaps never, perhaps late.
Verify(p, filled) ==
    /\ SettleCapture(p, filled)
    /\ UNCHANGED <<gpay, gref, wk, asked, seen, crashes, forgot>>

\* A delivery already marked is dropped; a crash before the mark lets it be delivered again.
WebhookPayment(p, filled, marked) ==
    /\ <<"payment", p>> \notin seen
    /\ SettleCapture(p, filled)
    /\ seen' = IF marked THEN seen \cup {<<"payment", p>>} ELSE seen
    /\ UNCHANGED <<gpay, gref, wk, asked, crashes, forgot>>

\* What a pass can do something about: captured, or authorised for exactly the order's amount.
Settleable(o) == {p \in Payments : /\ gpay[p].ord = o
                                   /\ gpay[p].st = "captured" \/ (gpay[p].st = "authorized" /\ gpay[p].fits)}

ReconcileAskAwaiting(o) ==
    /\ ord[o].checkout /\ ord[o].st = "Awaiting payment"
    /\ ~(Settleable(o) \subseteq asked)
    /\ asked' = asked \cup Settleable(o)
    /\ UNCHANGED <<ord, gpay, rfd, gref, wk, seen, crashes, forgot>>

\* The worker lists the payments of an order still unpaid, or lapsed unpaid.
ReconcileAsk(o) ==
    /\ ord[o].checkout /\ ord[o].st \in {"Awaiting payment", "Expired"}
    /\ ~(Settleable(o) \subseteq asked)
    /\ asked' = asked \cup Settleable(o)
    /\ UNCHANGED <<ord, gpay, rfd, gref, wk, seen, crashes, forgot>>

\* Each payment listed is settled in turn, whatever became of the order since.
Reconcile(p, filled) ==
    /\ p \in asked
    /\ SettleCapture(p, filled)
    /\ asked' = asked \ {p}
    /\ UNCHANGED <<gpay, gref, wk, seen, crashes, forgot>>

\* An error, or a crash, ends the pass for that order.
ReconcileFails(o) ==
    /\ \E p \in asked : gpay[p].ord = o
    /\ asked' = {p \in asked : gpay[p].ord # o}
    /\ UNCHANGED <<ord, gpay, rfd, gref, wk, seen, crashes, forgot>>

-----------------------------------------------------------------------------
(* Refunds.                                                                *)

IdleWorker == [at |-> "idle", rid |-> NoId, gid |-> NoId, said |-> "none", final |-> FALSE]
Outcomes == {"pending", "processed", "failed"}
LiveAtGateway(r) == {g \in GRefunds : gref[g].rid = r /\ gref[g].st \in {"pending", "processed"}}

\* claimDueRefunds: the attempt is counted (past the last one the count tells nothing more) and the
\* next one put off before anything is sent.
Claim(w, r) ==
    /\ wk[w].at = "idle"
    /\ rfd[r].st = "Pending" /\ rfd[r].due
    /\ rfd' = [rfd EXCEPT ![r].due = FALSE,
                          ![r].attempts = IF @ < REFUND_MAX_ATTEMPTS THEN @ + 1 ELSE @]
    /\ wk' = [wk EXCEPT ![w] = [IdleWorker EXCEPT !.at = "claimed", !.rid = r]]
    /\ UNCHANGED <<ord, gpay, gref, asked, seen, crashes, forgot>>

\* The backoff has run out.
ComeDue(r) ==
    /\ rfd[r].st = "Pending" /\ ~rfd[r].due
    /\ rfd' = [rfd EXCEPT ![r].due = TRUE]
    /\ UNCHANGED <<ord, gpay, gref, wk, asked, seen, crashes, forgot>>

AskNothing(w) ==
    /\ wk[w].at = "claimed"
    /\ wk' = [wk EXCEPT ![w].at = "none found"]
    /\ UNCHANGED <<ord, gpay, rfd, gref, asked, seen, crashes, forgot>>

\* refundsOf: an earlier send whose answer was lost is found by its notes.rid.
AskPrior(w) ==
    LET live == LiveAtGateway(wk[w].rid)
    IN  /\ wk[w].at = "claimed"
        /\ \/ /\ live = {}
              /\ wk' = [wk EXCEPT ![w].at = "none found"]
           \/ \E g \in live :
                wk' = [wk EXCEPT ![w].at = "answered", ![w].gid = g, ![w].said = gref[g].st]
        /\ UNCHANGED <<ord, gpay, rfd, gref, asked, seen, crashes, forgot>>

\* The gateway takes the refund, settling it on the spot (st) or later, and answers or does not.
Send(w, g, st, answered) ==
    /\ wk[w].at = "none found"
    /\ gref[g].st = "none"
    /\ \A h \in GRefunds : gref[h].pay = rfd[wk[w].rid].pay => gref[h].st = "failed"
    /\ gref' = [gref EXCEPT ![g] = [st |-> st, rid |-> wk[w].rid, pay |-> rfd[wk[w].rid].pay]]
    /\ wk' = IF answered THEN [wk EXCEPT ![w].at = "answered", ![w].gid = g, ![w].said = st]
             ELSE [wk EXCEPT ![w].at = "error"]
    /\ UNCHANGED <<ord, gpay, rfd, asked, seen, crashes, forgot>>

\* The gateway has a live refund of that payment already: a refusal it will repeat.
SendRefused(w) ==
    /\ wk[w].at = "none found"
    /\ \E h \in GRefunds : gref[h].pay = rfd[wk[w].rid].pay /\ gref[h].st # "failed"
    /\ wk' = [wk EXCEPT ![w].at = "refused", ![w].final = TRUE]
    /\ UNCHANGED <<ord, gpay, rfd, gref, asked, seen, crashes, forgot>>

\* The gateway cannot be reached, or refuses for a reason of its own.
GatewayError(w, final) ==
    /\ wk[w].at \in {"claimed", "none found"}
    /\ wk' = [wk EXCEPT ![w].at = "error", ![w].final = final]
    /\ UNCHANGED <<ord, gpay, rfd, gref, asked, seen, crashes, forgot>>

StatusVerbatim(said) == said
StatusOptimistic(said) == IF said = "failed" THEN "Failed" ELSE "Processed"

\* The gateway's word for a refund, as the row's status.
StatusOf(said) == CASE said = "processed" -> "Processed"
                    [] said = "failed" -> "Failed"
                    [] OTHER -> "Sent"

\* What the gateway answered, unless a webhook has recorded more by now.
RecordSent(w) ==
    LET r == wk[w].rid
    IN  /\ wk[w].at = "answered"
        /\ rfd' = IF rfd[r].st = "Pending"
                  THEN [rfd EXCEPT ![r].st = StatusOf(wk[w].said), ![r].gid = wk[w].gid]
                  ELSE rfd
        /\ wk' = [wk EXCEPT ![w] = IdleWorker]
        /\ UNCHANGED <<ord, gpay, gref, asked, seen, crashes, forgot>>

DeferRefundForever(w) ==
    /\ wk[w].at \in {"error", "refused"}
    /\ wk' = [wk EXCEPT ![w] = IdleWorker]
    /\ UNCHANGED <<ord, gpay, rfd, gref, asked, seen, crashes, forgot>>

\* deferRefund: final on the last attempt or a refusal the gateway will repeat.
DeferRefund(w) ==
    LET r == wk[w].rid
        final == wk[w].final \/ rfd[r].attempts >= REFUND_MAX_ATTEMPTS
    IN  /\ wk[w].at \in {"error", "refused"}
        /\ rfd' = IF rfd[r].st = "Pending" /\ final THEN [rfd EXCEPT ![r].st = "Failed"] ELSE rfd
        /\ wk' = [wk EXCEPT ![w] = IdleWorker]
        /\ UNCHANGED <<ord, gpay, gref, asked, seen, crashes, forgot>>

Crash(w) ==
    /\ wk[w].at # "idle"
    /\ crashes < MaxCrashes
    /\ crashes' = crashes + 1
    /\ wk' = [wk EXCEPT ![w] = IdleWorker]
    /\ UNCHANGED <<ord, gpay, rfd, gref, asked, seen, forgot>>

\* The refund reaches the customer or fails at the gateway.
GatewaySettles(g, st) ==
    /\ gref[g].st = "pending"
    /\ gref' = [gref EXCEPT ![g].st = st]
    /\ UNCHANGED <<ord, gpay, rfd, wk, asked, seen, crashes, forgot>>

\* settleRefund: the row is found by the gateway's id or by notes.rid; one that is finished, or
\* carries another gateway refund, is left alone.
SettleRefund(g) ==
    LET r == gref[g].rid
    IN  /\ gref[g].st \in {"processed", "failed"}
        /\ rfd' = IF rfd[r].st \in {"Pending", "Sent"} /\ rfd[r].gid \in {NoId, g}
                  THEN [rfd EXCEPT ![r].st = StatusOf(gref[g].st), ![r].gid = g] ELSE rfd

WebhookRefund(g, marked) ==
    /\ <<"refund", g>> \notin seen
    /\ SettleRefund(g)
    /\ seen' = IF marked THEN seen \cup {<<"refund", g>>} ELSE seen
    /\ UNCHANGED <<ord, gpay, gref, wk, asked, crashes, forgot>>

\* pollRefunds: a Sent refund never heard from again is asked about.
PollRefund(r) ==
    /\ rfd[r].st = "Sent"
    /\ SettleRefund(rfd[r].gid)
    /\ UNCHANGED <<ord, gpay, gref, wk, asked, seen, crashes, forgot>>

\* A manager's retry: due now, the attempts from nothing, the failed send forgotten.
RetryRefund(r) ==
    /\ rfd[r].st = "Failed"
    /\ rfd' = [rfd EXCEPT ![r].st = "Pending", ![r].gid = NoId, ![r].attempts = 0, ![r].due = TRUE]
    /\ forgot' = [forgot EXCEPT ![r] = IF rfd[r].gid = NoId THEN @ ELSE @ \cup {rfd[r].gid}]
    /\ UNCHANGED <<ord, gpay, gref, wk, asked, seen, crashes>>

-----------------------------------------------------------------------------
Init ==
    /\ ord = [o \in Orders |-> [st |-> "Not drawn", mode |-> "pickup", checkout |-> FALSE,
                                pay |-> NoId, bill |-> "none"]]
    /\ gpay = [p \in Payments |-> [st |-> "none", ord |-> NoId, fits |-> FALSE]]
    /\ rfd = [r \in Refunds |-> [st |-> "Not drawn", pay |-> NoId, gid |-> NoId, attempts |-> 0,
                                 due |-> FALSE]]
    /\ gref = [g \in GRefunds |-> [st |-> "none", rid |-> NoId, pay |-> NoId]]
    /\ wk = [w \in Pods |-> IdleWorker]
    /\ asked = {}
    /\ seen = {}
    /\ crashes = 0
    /\ forgot = [r \in Refunds |-> {}]

OrderStep ==
    \E o \in Orders :
        \/ \E mode \in Modes : Place(o, mode)
        \/ OpenCheckout(o)
        \/ Expire(o)
        \/ \E st \in QrOrderStatus : SetStatus(o, st)
        \/ VoidBill(o)
        \/ ReconcileAsk(o)
        \/ ReconcileFails(o)

PaymentStep ==
    \E p \in Payments :
        \/ \E o \in Orders, fits \in BOOLEAN : Pay(p, o, fits)
        \/ AutoCapture(p)
        \/ Take(p)
        \/ \E filled \in BOOLEAN : Verify(p, filled) \/ Reconcile(p, filled)
        \/ \E filled, marked \in BOOLEAN : WebhookPayment(p, filled, marked)

WorkerStep(w) ==
    \/ \E r \in Refunds : Claim(w, r)
    \/ AskPrior(w)
    \/ \E g \in GRefunds, st \in Outcomes, answered \in BOOLEAN : Send(w, g, st, answered)
    \/ SendRefused(w)
    \/ \E final \in BOOLEAN : GatewayError(w, final)
    \/ RecordSent(w)
    \/ DeferRefund(w)

RefundStep ==
    \/ \E r \in Refunds : ComeDue(r) \/ PollRefund(r) \/ RetryRefund(r)
    \/ \E g \in GRefunds, st \in {"processed", "failed"} : GatewaySettles(g, st)
    \/ \E g \in GRefunds, marked \in BOOLEAN : WebhookRefund(g, marked)

Next ==
    \/ OrderStep
    \/ PaymentStep
    \/ \E w \in Pods : WorkerStep(w) \/ Crash(w)
    \/ RefundStep

Spec == Init /\ [][Next]_vars

\* What the worker's timer and the gateway guarantee: a pass comes round again and does not fail
\* for ever, claims go to the refund due longest, a claimed refund is carried through unless the
\* pod crashes, a backoff runs out, the gateway finishes a refund it took.  Nothing is assumed of
\* phones, webhooks or staff.
Fairness ==
    /\ \A o \in Orders : WF_vars(ReconcileAsk(o))
    /\ \A p \in Payments : SF_vars(\E filled \in BOOLEAN : Reconcile(p, filled))
    /\ \A w \in Pods : WF_vars(WorkerStep(w))
    /\ \A r \in Refunds : /\ SF_vars(\E w \in Pods : Claim(w, r))
                          /\ WF_vars(ComeDue(r)) /\ WF_vars(PollRefund(r))
    /\ \A g \in GRefunds : WF_vars(\E st \in {"processed", "failed"} : GatewaySettles(g, st))

FairSpec == Spec /\ Fairness

-----------------------------------------------------------------------------
(* Properties.                                                             *)

OrderRow == [st : QrOrderStatus \cup {"Not drawn"}, mode : Modes, checkout : BOOLEAN,
             pay : Payments \cup {NoId}, bill : {"none", "Live", "Voided"}]
PaymentRow == [st : {"none", "authorized", "captured"}, ord : Orders \cup {NoId}, fits : BOOLEAN]
RefundRow == [st : RefundStatus \cup {"Not drawn"}, pay : Payments \cup {NoId},
              gid : GRefunds \cup {NoId}, attempts : 0..REFUND_MAX_ATTEMPTS, due : BOOLEAN]
GatewayRefundRow == [st : Outcomes \cup {"none"}, rid : Refunds \cup {NoId},
                     pay : Payments \cup {NoId}]
WorkerRow == [at : {"idle", "claimed", "none found", "answered", "error", "refused"},
              rid : Refunds \cup {NoId}, gid : GRefunds \cup {NoId},
              said : Outcomes \cup {"none"}, final : BOOLEAN]

\* Types.
TypeOK ==
    /\ ord \in [Orders -> OrderRow]
    /\ gpay \in [Payments -> PaymentRow]
    /\ rfd \in [Refunds -> RefundRow]
    /\ gref \in [GRefunds -> GatewayRefundRow]
    /\ wk \in [Pods -> WorkerRow]
    /\ asked \subseteq Payments
    /\ seen \subseteq ({"payment"} \X Payments) \cup ({"refund"} \X GRefunds)
    /\ crashes \in 0..MaxCrashes
    /\ forgot \in [Refunds -> SUBSET GRefunds]

\* Money is kept or returned, never both and never returned twice: a payment behind a live bill has
\* no refund queued, and any other settled payment has exactly one, however its verify, its
\* webhooks, the reconcile pass and the void of its bill were ordered.
KeptOrReturned ==
    \A o \in Orders, p \in Payments :
        /\ Cardinality(RefundOfPayment(o, p)) <= 1
        /\ ord[o].pay = p => (ord[o].bill = "Live" <=> RefundOfPayment(o, p) = {})

\* No live gateway refund of money the hospital keeps, and none for another payment's row.
RefundsAtGatewayAreOwed ==
    \A g \in GRefunds : gref[g].st # "none" =>
        /\ rfd[gref[g].rid].pay = gref[g].pay
        /\ \A o \in Orders : ord[o].pay = gref[g].pay => ord[o].bill # "Live"

\* A refund recorded as processed did reach the customer, under the gateway refund the row names.
ProcessedIsTrue ==
    \A r \in Refunds : rfd[r].st = "Processed" =>
        gref[rfd[r].gid].st = "processed" /\ gref[rfd[r].gid].rid = r

\* refunds.ts: claims keep workers apart, "so two pods (or two ticks) never send the same one": the
\* gateway never has to refuse a send for a payment already refunded.
NeverSentTwice == \A w \in Pods : wk[w].at # "refused"

\* refunds.ts: "news of the old one (a late `refund.failed`) no longer matches this row": a retried
\* refund never takes up the gateway refund it forgot.
OldNewsIgnored == \A r \in Refunds : rfd[r].gid \notin forgot[r]

\* worker.ts: the reconcile pass is "the backstop for a payment whose verify and webhook both went
\* missing": every captured payment is in the end billed or queued to go back.
EveryPaymentSettled ==
    \A p \in Payments :
        gpay[p].st = "captured" ~>
            \E o \in Orders : ord[o].pay = p \/ RefundOfPayment(o, p) # {}

\* Every refund queued is in the end processed, or failed and waiting for a manager, through lost
\* answers, crashed pods and lost webhooks.
EveryRefundEnds ==
    \A r \in Refunds : rfd[r].st = "Pending" ~> rfd[r].st \in {"Processed", "Failed"}
=============================================================================
