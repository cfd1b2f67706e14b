--------------------------- MODULE QrPaymentsProofs ---------------------------
(***************************************************************************)
(* QR money for every number of orders, payments, refunds, pods, attempts  *)
(* and crashes: kept or returned, never both and never twice; nothing      *)
(* refunded that is not owed; nothing recorded as processed that did not   *)
(* reach the customer.  The invariant QrInv has two layers.  MoneyInv says *)
(* how an order, its payments and its numbered refund rows hang together;  *)
(* GateInv says that rows, workers and the gateway's refunds name each     *)
(* other truly.                                                            *)
(***************************************************************************)
EXTENDS QrPayments, FiniteSetTheorems, TLAPS

Drawn(r) == rfd[r].st # "Not drawn"

Unsettled == {"Not drawn", "Awaiting payment", "Expired"}

\* An order's refunds are numbered from one without a gap.
CountsTo(o, n) == \A i \in 1..MaxRefunds : Drawn(<<o, i>>) <=> i <= n
Numbered == \A o \in Orders : \E n \in 0..MaxRefunds : CountsTo(o, n)

\* An order without a payment has neither bill nor refund; the payment of a settled one is
\* captured, its own, and either billed or queued to go back.
OrderKnows(o) ==
    /\ ord[o].checkout => ord[o].st # "Not drawn"
    /\ ord[o].pay = NoId => ord[o].st \in Unsettled /\ ord[o].bill = "none" /\ RefundsOf(o) = {}
    /\ ord[o].pay # NoId =>
          /\ gpay[ord[o].pay].st = "captured" /\ gpay[ord[o].pay].ord = o
          /\ ord[o].bill = "Live" <=> RefundOfPayment(o, ord[o].pay) = {}

\* A payment is made on an order that was placed.
PaymentKnows(p) ==
    gpay[p].st # "none" => gpay[p].ord \in Orders /\ ord[gpay[p].ord].st # "Not drawn"

\* A refund row returns a captured payment of its order, and no other row returns it.
RefundKnows(r) ==
    Drawn(r) =>
        /\ rfd[r].pay \in Payments
        /\ gpay[rfd[r].pay].st = "captured" /\ gpay[rfd[r].pay].ord = r[1]
        /\ \A s \in Refunds : Drawn(s) /\ rfd[s].pay = rfd[r].pay => s = r

MoneyInv ==
    /\ Numbered
    /\ \A o \in Orders : OrderKnows(o)
    /\ \A p \in Payments : PaymentKnows(p)
    /\ \A r \in Refunds : RefundKnows(r)

\* A refund at the gateway carries the name of a row, and returns that row's payment.
GatewayKnows(g) ==
    gref[g].st # "none" =>
        gref[g].rid \in Refunds /\ Drawn(gref[g].rid) /\ rfd[gref[g].rid].pay = gref[g].pay

\* The gateway refund that `said` is news of belongs to row r.
Names(g, r, said) ==
    /\ g \in GRefunds /\ gref[g].st # "none" /\ gref[g].rid = r
    /\ said = "processed" => gref[g].st = "processed"

RowKnows(r) ==
    /\ rfd[r].st \in {"Sent", "Processed"} => rfd[r].gid # NoId
    /\ rfd[r].gid # NoId =>
          Names(rfd[r].gid, r, IF rfd[r].st = "Processed" THEN "processed" ELSE "pending")

WorkerKnows(x) ==
    /\ x.at # "idle" => x.rid \in Refunds /\ Drawn(x.rid)
    /\ x.at = "answered" => x.said \in Outcomes /\ Names(x.gid, x.rid, x.said)

GateInv ==
    /\ \A g \in GRefunds : GatewayKnows(g)
    /\ \A r \in Refunds : RowKnows(r)
    /\ \A w \in Pods : WorkerKnows(wk[w])

QrInv == TypeOK /\ MoneyInv /\ GateInv

\* With one pod, a worker that found no earlier send is the only one who could make one, and a
\* gateway refund that was never made holds no payment.
AloneInv ==
    /\ \A g \in GRefunds : gref[g].st = "none" => gref[g].pay = NoId
    /\ \A w \in Pods : /\ wk[w].at # "refused"
                       /\ wk[w].at = "none found" => LiveAtGateway(wk[w].rid) = {}

-----------------------------------------------------------------------------
(* The first state, and the numbering.                                     *)

LEMMA InitQr == Init => QrInv
<1> SUFFICES ASSUME Init PROVE QrInv
    OBVIOUS
<1>1. \A r \in Refunds : ~Drawn(r) /\ rfd[r].gid = NoId /\ rfd[r].st = "Not drawn"
    BY DEF Init, Drawn
<1>2. TypeOK
  <2> DEFINE order == [st |-> "Not drawn", mode |-> "pickup", checkout |-> FALSE, pay |-> NoId, bill |-> "none"]
             payment == [st |-> "none", ord |-> NoId, fits |-> FALSE]
             refund == [st |-> "Not drawn", pay |-> NoId, gid |-> NoId, attempts |-> 0, due |-> FALSE]
             sent == [st |-> "none", rid |-> NoId, pay |-> NoId]
  <2>1. order \in OrderRow /\ payment \in PaymentRow
    BY DEF OrderRow, PaymentRow, Modes
  <2>2. refund \in RefundRow /\ sent \in GatewayRefundRow /\ IdleWorker \in WorkerRow
    BY AttemptAssumption DEF RefundRow, GatewayRefundRow, WorkerRow, IdleWorker
  <2>3. /\ ord = [o \in Orders |-> order] /\ gpay = [p \in Payments |-> payment]
        /\ rfd = [r \in Refunds |-> refund] /\ gref = [g \in GRefunds |-> sent]
        /\ wk = [w \in Pods |-> IdleWorker] /\ asked = {} /\ seen = {} /\ crashes = 0
        /\ forgot = [r \in Refunds |-> {}]
    BY DEF Init
  <2> HIDE DEF order, payment, refund, sent
  <2>4. ord \in [Orders -> OrderRow] /\ gpay \in [Payments -> PaymentRow]
    BY <2>1, <2>3
  <2>5. rfd \in [Refunds -> RefundRow] /\ gref \in [GRefunds -> GatewayRefundRow] /\ wk \in [Pods -> WorkerRow]
    BY <2>2, <2>3
  <2>6. forgot \in [Refunds -> SUBSET GRefunds] /\ crashes \in 0..MaxCrashes
    BY <2>3, BoundAssumption
  <2> QED
    BY <2>3, <2>4, <2>5, <2>6 DEF TypeOK
<1>3. ASSUME NEW o \in Orders PROVE CountsTo(o, 0)
  <2>1. ASSUME NEW i \in 1..MaxRefunds PROVE <<o, i>> \in Refunds /\ ~(i <= 0)
    BY BoundAssumption DEF Refunds
  <2> QED
    BY <1>1, <2>1 DEF CountsTo
<1>4. Numbered
    BY <1>3, BoundAssumption DEF Numbered
<1>5. \A o \in Orders : OrderKnows(o)
    BY <1>1 DEF Init, OrderKnows, RefundsOf, Unsettled
<1>6. \A p \in Payments : PaymentKnows(p)
    BY DEF Init, PaymentKnows
<1>7. \A r \in Refunds : RefundKnows(r) /\ RowKnows(r)
    BY <1>1 DEF RefundKnows, RowKnows
<1>8. \A g \in GRefunds : GatewayKnows(g)
    BY DEF Init, GatewayKnows
<1>9. \A w \in Pods : WorkerKnows(wk[w])
    BY DEF Init, WorkerKnows, IdleWorker
<1> QED
    BY <1>2, <1>4, <1>5, <1>6, <1>7, <1>8, <1>9 DEF QrInv, MoneyInv, GateInv

\* What the invariant gives, piece by piece.
LEMMA QrFacts ==
    ASSUME QrInv
    PROVE  /\ ord \in [Orders -> OrderRow] /\ gpay \in [Payments -> PaymentRow]
           /\ rfd \in [Refunds -> RefundRow] /\ gref \in [GRefunds -> GatewayRefundRow]
           /\ wk \in [Pods -> WorkerRow]
           /\ \A o \in Orders : ord[o] \in OrderRow /\ OrderKnows(o)
           /\ \A p \in Payments : gpay[p] \in PaymentRow /\ PaymentKnows(p)
           /\ \A r \in Refunds : rfd[r] \in RefundRow /\ RefundKnows(r) /\ RowKnows(r)
           /\ \A g \in GRefunds : gref[g] \in GatewayRefundRow /\ GatewayKnows(g)
           /\ \A w \in Pods : wk[w] \in WorkerRow /\ WorkerKnows(wk[w])
  BY DEF QrInv, TypeOK, MoneyInv, GateInv

\* The count of an order's refunds is the number of the last one.
LEMMA CountIsLast ==
    ASSUME NEW o \in Orders, NEW n \in 0..MaxRefunds, CountsTo(o, n)
    PROVE  Cardinality(RefundsOf(o)) = n
<1> DEFINE f == [i \in 1..n |-> <<o, i>>]
<1>1. \A i \in 1..n : i \in 1..MaxRefunds
    BY BoundAssumption
<1>2. ASSUME NEW i \in 1..n PROVE f[i] = <<o, i>> /\ <<o, i>> \in RefundsOf(o)
  <2>1. <<o, i>> \in Refunds /\ Drawn(<<o, i>>) /\ f[i] = <<o, i>>
    BY <1>1 DEF CountsTo, Refunds
  <2> QED
    BY <2>1 DEF RefundsOf, Drawn
<1>3. ASSUME NEW r \in RefundsOf(o) PROVE \E i \in 1..n : r = <<o, i>>
  <2>1. r \in Refunds /\ r[1] = o /\ Drawn(r)
    BY DEF RefundsOf, Drawn
  <2>2. PICK i \in 1..MaxRefunds : r = <<o, i>>
    BY <2>1 DEF Refunds
  <2>3. i <= n
    BY <2>1, <2>2 DEF CountsTo
  <2>4. i \in 1..n
    BY <2>2, <2>3
  <2> QED
    BY <2>2, <2>4
<1>6. f \in [1..n -> RefundsOf(o)]
    BY <1>2
<1>7. \A i, j \in 1..n : f[i] = f[j] => i = j
    BY <1>2
<1>8. \A r \in RefundsOf(o) : \E i \in 1..n : f[i] = r
    BY <1>2, <1>3
<1>9. f \in Bijection(1..n, RefundsOf(o))
  <2> HIDE DEF f
  <2>1. f \in Injection(1..n, RefundsOf(o))
    BY <1>6, <1>7 DEF Injection, IsInjective
  <2>2. f \in Surjection(1..n, RefundsOf(o))
    BY <1>6, <1>8 DEF Surjection
  <2> QED
    BY <2>1, <2>2 DEF Bijection
<1>4. ExistsBijection(1..n, RefundsOf(o))
    BY <1>9 DEF ExistsBijection
<1>5. IsFiniteSet(1..n) /\ Cardinality(1..n) = n
    BY FS_Interval
<1> QED
    BY <1>4, <1>5, FS_Bijection

\* A payment of an order is settled under the order's lock by writing a row one past its last: the
\* row is new and every other stays.
NewRow(o, p, r) ==
    /\ r[1] = o /\ ~Drawn(r)
    /\ rfd' \in [Refunds -> RefundRow]
    /\ rfd'[r].st = "Pending" /\ rfd'[r].pay = p /\ rfd'[r].gid = NoId
    /\ \A s \in Refunds : s # r => rfd'[s] = rfd[s]
    /\ Numbered'

LEMMA QueuedIsNew ==
    ASSUME QrInv, NEW o \in Orders, NEW p \in Payments, QueueRefund(o, p)
    PROVE  \E r \in Refunds : NewRow(o, p, r)
<1>1. PICK n \in 0..MaxRefunds : CountsTo(o, n)
    BY DEF QrInv, MoneyInv, Numbered
<1>2. Cardinality(RefundsOf(o)) + 1 = n + 1
    BY <1>1, CountIsLast
<1> DEFINE r == <<o, n + 1>>
           row == [st |-> "Pending", pay |-> p, gid |-> NoId, attempts |-> 0, due |-> TRUE]
<1>3. n + 1 \in 1..MaxRefunds /\ rfd' = [rfd EXCEPT ![r] = row]
  <2>1. /\ Cardinality(RefundsOf(o)) + 1 <= MaxRefunds
        /\ rfd' = [rfd EXCEPT ![<<o, Cardinality(RefundsOf(o)) + 1>>] = row]
    BY DEF QueueRefund
  <2>2. n + 1 <= MaxRefunds /\ n \in Nat
    BY <1>2, <2>1
  <2>3. n + 1 \in 1..MaxRefunds
    BY <2>2, BoundAssumption
  <2> HIDE DEF row
  <2>4. rfd' = [rfd EXCEPT ![<<o, n + 1>>] = row]
    BY <1>2, <2>1
  <2> QED
    BY <2>3, <2>4
<1>4. r \in Refunds /\ r[1] = o
    BY <1>3 DEF Refunds
<1>5. ~Drawn(r)
    BY <1>1, <1>3, BoundAssumption DEF CountsTo
<1>6. row \in RefundRow /\ row.st = "Pending" /\ row.pay = p /\ row.gid = NoId
    BY AttemptAssumption DEF RefundRow, RefundStatus
<1> HIDE DEF row
<1>7. /\ rfd' \in [Refunds -> RefundRow] /\ rfd'[r] = row
      /\ \A s \in Refunds : s # r => rfd'[s] = rfd[s]
    BY <1>3, <1>4, <1>6, QrFacts
<1>8. Numbered'
  <2>1. ASSUME NEW x \in Orders, x # o PROVE \E m \in 0..MaxRefunds : CountsTo(x, m)'
    <3>1. PICK m \in 0..MaxRefunds : CountsTo(x, m)
      BY DEF QrInv, MoneyInv, Numbered
    <3>2. \A i \in 1..MaxRefunds : <<x, i>> \in Refunds /\ <<x, i>> # r
      BY <2>1 DEF Refunds
    <3>3. \A i \in 1..MaxRefunds : Drawn(<<x, i>>)' <=> Drawn(<<x, i>>)
      BY <1>7, <3>2 DEF Drawn
    <3>4. CountsTo(x, m)'
      BY <3>1, <3>3 DEF CountsTo
    <3> QED
      BY <3>4
  <2>2. CountsTo(o, n + 1)'
    <3>1. ASSUME NEW i \in 1..MaxRefunds PROVE Drawn(<<o, i>>)' <=> i <= n + 1
      <4>1. <<o, i>> \in Refunds /\ (<<o, i>> = r <=> i = n + 1)
        BY DEF Refunds
      <4>2. CASE i = n + 1
        <5>1. rfd'[<<o, i>>].st = "Pending"
          BY <1>6, <1>7, <4>1, <4>2
        <5>2. i <= n + 1
          BY <4>2
        <5> QED
          BY <5>1, <5>2 DEF Drawn
      <4>3. CASE i # n + 1
        <5>1. Drawn(<<o, i>>)' <=> i <= n
          BY <1>1, <1>7, <4>1, <4>3 DEF CountsTo, Drawn
        <5> QED
          BY <4>3, <5>1
      <4> QED
        BY <4>2, <4>3
    <3> QED
      BY <3>1 DEF CountsTo
  <2>3. n + 1 \in 0..MaxRefunds
    BY <1>3
  <2> QED
    BY <2>1, <2>2, <2>3 DEF Numbered
<1> QED
    BY <1>4, <1>5, <1>6, <1>7, <1>8 DEF NewRow

-----------------------------------------------------------------------------
(* What changes one table, and what the invariant asks of the change.      *)

Books ==
    /\ asked \subseteq Payments
    /\ seen \subseteq ({"payment"} \X Payments) \cup ({"refund"} \X GRefunds)
    /\ crashes \in 0..MaxCrashes
    /\ forgot \in [Refunds -> SUBSET GRefunds]

\* An order moves on: its payment and its bill stay, and it is not undrawn.
LEMMA OrderMoves ==
    ASSUME QrInv, UNCHANGED <<gpay, rfd, gref, wk>>,
           NEW o \in Orders, ord' \in [Orders -> OrderRow],
           \A y \in Orders : y # o => ord'[y] = ord[y],
           ord'[o].pay = ord[o].pay, ord'[o].bill = ord[o].bill, ord'[o].st # "Not drawn",
           ord[o].pay = NoId => ord'[o].st \in Unsettled
    PROVE  MoneyInv' /\ GateInv'
<1>1. GateInv'
    BY DEF QrInv, GateInv, GatewayKnows, RowKnows, WorkerKnows, Names, Drawn
<1>2. Numbered' /\ \A r \in Refunds : RefundKnows(r)'
    BY DEF QrInv, MoneyInv, Numbered, CountsTo, RefundKnows, Drawn
<1>3. ASSUME NEW p \in Payments PROVE PaymentKnows(p)'
    BY QrFacts DEF PaymentKnows
<1>4. ASSUME NEW y PROVE /\ RefundsOf(y)' = RefundsOf(y)
                         /\ \A p : RefundOfPayment(y, p)' = RefundOfPayment(y, p)
    BY DEF RefundsOf, RefundOfPayment
<1>5. ASSUME NEW y \in Orders PROVE OrderKnows(y)'
  <2>1. CASE y = o
    <3>0. ord[y].pay = NoId => RefundsOf(y) = {} /\ ord[y].bill = "none"
        BY QrFacts DEF OrderKnows
    <3>1. ord'[y].pay = NoId => RefundsOf(y)' = {} /\ ord'[y].bill = "none"
        BY <1>4, <2>1, <3>0
    <3>2. PICK p : p = ord[y].pay
        OBVIOUS
    <3>3. p # NoId => gpay[p].st = "captured" /\ gpay[p].ord = y
                      /\ (ord[y].bill = "Live" <=> RefundOfPayment(y, p) = {})
        BY <3>2, QrFacts DEF OrderKnows
    <3>4. p # NoId => (ord'[y].bill = "Live" <=> RefundOfPayment(y, p)' = {})
        BY <1>4, <2>1, <3>3
    <3>5. ord'[y].pay = p /\ RefundOfPayment(y, ord[y].pay)' = RefundOfPayment(y, p)'
        BY <2>1, <3>2 DEF RefundOfPayment
    <3> QED
        BY <2>1, <3>1, <3>2, <3>3, <3>4, <3>5 DEF OrderKnows
  <2>2. CASE y # o
    <3>1. ord'[y] = ord[y] /\ OrderKnows(y)
        BY <2>2, QrFacts
    <3>2. RefundOfPayment(y, ord[y].pay)' = RefundOfPayment(y, ord[y].pay)
        BY <3>1 DEF RefundOfPayment, RefundsOf
    <3> QED
        BY <1>4, <3>1, <3>2 DEF OrderKnows
  <2> QED
    BY <2>1, <2>2
<1> QED
    BY <1>1, <1>2, <1>3, <1>5 DEF MoneyInv

\* A payment moves on at the gateway: once captured it stays as it is.
LEMMA PaymentMoves ==
    ASSUME QrInv, UNCHANGED <<ord, rfd, gref, wk>>,
           \A p \in Payments : gpay[p].st = "captured" => gpay'[p] = gpay[p],
           \A p \in Payments : PaymentKnows(p)'
    PROVE  MoneyInv' /\ GateInv'
<1>1. GateInv'
    BY DEF QrInv, GateInv, GatewayKnows, RowKnows, WorkerKnows, Names, Drawn
<1>2. Numbered'
    BY DEF QrInv, MoneyInv, Numbered, CountsTo, Drawn
<1>3. ASSUME NEW r \in Refunds PROVE RefundKnows(r)'
  <2>1. RefundKnows(r)
    BY QrFacts
  <2> QED
    BY <2>1 DEF RefundKnows, Drawn
<1>4. ASSUME NEW y \in Orders PROVE OrderKnows(y)'
  <2>1. OrderKnows(y) /\ ord[y].pay \in Payments \cup {NoId}
    BY QrFacts DEF OrderRow
  <2>2. /\ RefundsOf(y)' = RefundsOf(y)
        /\ RefundOfPayment(y, ord[y].pay)' = RefundOfPayment(y, ord[y].pay)
    BY DEF RefundsOf, RefundOfPayment
  <2> QED
    BY <2>1, <2>2 DEF OrderKnows
<1> QED
    BY <1>1, <1>2, <1>3, <1>4 DEF MoneyInv

\* Rows move on, no row is undrawn and none changes the payment it returns.
RowsMove == \A r \in Refunds : rfd'[r].pay = rfd[r].pay /\ (Drawn(r)' <=> Drawn(r))

LEMMA RowsMoveMoney ==
    ASSUME QrInv, UNCHANGED <<ord, gpay>>, RowsMove
    PROVE  MoneyInv'
<1>1. Numbered'
  <2>1. ASSUME NEW o \in Orders, NEW n \in 0..MaxRefunds, CountsTo(o, n) PROVE CountsTo(o, n)'
    <3>1. \A i \in 1..MaxRefunds : <<o, i>> \in Refunds
        BY DEF Refunds
    <3> QED
        BY <2>1, <3>1 DEF CountsTo, RowsMove
  <2> QED
    BY <2>1 DEF QrInv, MoneyInv, Numbered
<1>2. ASSUME NEW r \in Refunds PROVE RefundKnows(r)'
  <2>1. RefundKnows(r)
    BY QrFacts
  <2> QED
    BY <2>1 DEF RefundKnows, RowsMove
<1>3. \A p \in Payments : PaymentKnows(p)'
    BY QrFacts DEF PaymentKnows
<1>4. ASSUME NEW y \in Orders PROVE OrderKnows(y)'
  <2>1. OrderKnows(y)
    BY QrFacts
  <2>2. ASSUME NEW r PROVE r \in RefundsOf(y)' <=> r \in RefundsOf(y)
    BY DEF RefundsOf, RowsMove, Drawn
  <2>3. RefundsOf(y)' = RefundsOf(y)
    BY <2>2
  <2>4. RefundOfPayment(y, ord[y].pay)' = RefundOfPayment(y, ord[y].pay)
    <3>1. \A r \in RefundsOf(y) : rfd'[r].pay = rfd[r].pay
        BY DEF RefundsOf, RowsMove
    <3> QED
        BY <2>3, <3>1 DEF RefundOfPayment
  <2> QED
    BY <2>1, <2>3, <2>4 DEF OrderKnows
<1> QED
    BY <1>1, <1>2, <1>3, <1>4 DEF MoneyInv

\* The gateway's refunds move on: none disappears, changes its name or unhappens.
GatewayKeeps ==
    \A g \in GRefunds : gref[g].st # "none" =>
        /\ gref'[g].st # "none" /\ gref'[g].rid = gref[g].rid
        /\ gref[g].st = "processed" => gref'[g].st = "processed"

LEMMA NamesStay ==
    ASSUME GatewayKeeps, NEW g, NEW r, NEW said, Names(g, r, said)
    PROVE  Names(g, r, said)'
  BY DEF GatewayKeeps, Names

LEMMA WorkerStays ==
    ASSUME GatewayKeeps, \A r \in Refunds : Drawn(r) => Drawn(r)', NEW x, WorkerKnows(x)
    PROVE  WorkerKnows(x)'
<1>1. x.at = "answered" => Names(x.gid, x.rid, x.said)'
    BY NamesStay DEF WorkerKnows
<1> QED
    BY <1>1 DEF WorkerKnows

\* A captured payment that no row returns yet is queued to go back: because the order is voided or
\* refunded whole (it becomes or stays the order's payment), or because another payment was first.
LEMMA QueueMoves ==
    ASSUME QrInv, UNCHANGED <<gpay, gref, wk>>,
           NEW o \in Orders, NEW p \in Payments, QueueRefund(o, p),
           gpay[p].st = "captured", gpay[p].ord = o, RefundOfPayment(o, p) = {},
           ord' \in [Orders -> OrderRow],
           \A y \in Orders : y # o => ord'[y] = ord[y],
           \/ ord'[o].pay = p /\ ord'[o].bill # "Live" /\ ord'[o].st # "Not drawn"
           \/ ord[o].pay # p /\ ord[o].pay # NoId /\ ord'[o] = ord[o]
    PROVE  MoneyInv' /\ GateInv' /\ rfd' \in [Refunds -> RefundRow]
<1>0. PICK r \in Refunds : NewRow(o, p, r)
    BY QueuedIsNew
<1>1. /\ r[1] = o /\ ~Drawn(r)
      /\ rfd' \in [Refunds -> RefundRow]
      /\ rfd'[r].st = "Pending" /\ rfd'[r].pay = p /\ rfd'[r].gid = NoId
      /\ \A s \in Refunds : s # r => rfd'[s] = rfd[s]
      /\ Numbered'
    BY <1>0 DEF NewRow
<1>2. ASSUME NEW s \in Refunds PROVE Drawn(s)' <=> Drawn(s) \/ s = r
    BY <1>1 DEF Drawn
<1>3. ASSUME NEW s \in Refunds, Drawn(s) PROVE s # r /\ rfd'[s] = rfd[s] /\ Drawn(s)'
    BY <1>1, <1>2, <1>3
<1>4. ASSUME NEW s \in Refunds, Drawn(s) PROVE rfd[s].pay # p
  <2>1. rfd[s].pay = p => s[1] = o
    BY <1>4, QrFacts DEF RefundKnows
  <2>2. rfd[s].pay = p => s \in RefundOfPayment(o, p)
    BY <1>4, <2>1 DEF RefundOfPayment, RefundsOf, Drawn
  <2> QED
    BY <2>2
<1>5. ASSUME NEW s \in Refunds PROVE RefundKnows(s)'
  <2>1. CASE s = r
    <3>1. \A t \in Refunds : Drawn(t)' /\ rfd'[t].pay = p => t = r
        BY <1>2, <1>3, <1>4
    <3> QED
        BY <1>1, <2>1, <3>1 DEF RefundKnows
  <2>2. CASE s # r /\ Drawn(s)
    <3>1. RefundKnows(s) /\ rfd'[s] = rfd[s] /\ rfd[s].pay # p
        BY <1>3, <1>4, <2>2, QrFacts
    <3>2. \A t \in Refunds : Drawn(t)' /\ rfd'[t].pay = rfd[s].pay => t = s
        BY <1>1, <1>2, <1>3, <2>2, <3>1 DEF RefundKnows
    <3> QED
        BY <2>2, <3>1, <3>2 DEF RefundKnows
  <2>3. CASE s # r /\ ~Drawn(s)
    BY <1>2, <2>3 DEF RefundKnows
  <2> QED
    BY <2>1, <2>2, <2>3
<1>6. ord'[o].st # "Not drawn"
  <2>1. ord[o].st # "Not drawn"
    BY QrFacts DEF PaymentKnows
  <2> QED
    BY <2>1
<1>7. ASSUME NEW q \in Payments PROVE PaymentKnows(q)'
    BY <1>6, QrFacts DEF PaymentKnows
<1>8. ASSUME NEW y, NEW q, q # p \/ y # o PROVE RefundOfPayment(y, q)' = RefundOfPayment(y, q)
  <2>1. ASSUME NEW s \in Refunds, s # r
        PROVE  s \in RefundOfPayment(y, q)' <=> s \in RefundOfPayment(y, q)
    BY <1>1, <2>1 DEF RefundOfPayment, RefundsOf
  <2>2. r \notin RefundOfPayment(y, q)' /\ r \notin RefundOfPayment(y, q)
    BY <1>1, <1>8 DEF RefundOfPayment, RefundsOf, Drawn
  <2> QED
    BY <2>1, <2>2 DEF RefundOfPayment, RefundsOf
<1>9. ASSUME NEW y \in Orders PROVE OrderKnows(y)'
  <2>1. CASE y # o
    <3>1. ord'[y] = ord[y] /\ OrderKnows(y)
        BY <2>1, QrFacts
    <3>2. RefundOfPayment(y, ord[y].pay)' = RefundOfPayment(y, ord[y].pay)
        <4>1. PICK q : q = ord[y].pay
            OBVIOUS
        <4>2. RefundOfPayment(y, q)' = RefundOfPayment(y, q)
            BY <1>8, <2>1
        <4> QED
            BY <3>1, <4>1, <4>2 DEF RefundOfPayment
    <3>3. RefundsOf(y)' = RefundsOf(y)
        BY <1>1, <1>2, <2>1 DEF RefundsOf, Drawn
    <3> QED
        BY <3>1, <3>2, <3>3 DEF OrderKnows
  <2>2. CASE y = o /\ ord'[o].pay = p /\ ord'[o].bill # "Live"
    <3>1. r \in RefundOfPayment(o, ord[o].pay)'
        BY <1>1, <2>2 DEF RefundOfPayment, RefundsOf
    <3>2. p # NoId
        BY NoIdAssumption
    <3> QED
        BY <1>6, <2>2, <3>1, <3>2 DEF OrderKnows
  <2>3. CASE y = o /\ ord[o].pay # p /\ ord[o].pay # NoId /\ ord'[o] = ord[o]
    <3>1. PICK q : q = ord[o].pay
        OBVIOUS
    <3>2. RefundOfPayment(o, q)' = RefundOfPayment(o, q)
        BY <1>8, <2>3, <3>1
    <3>3. /\ RefundOfPayment(o, ord[o].pay)' = RefundOfPayment(o, q)'
          /\ RefundOfPayment(o, ord[o].pay) = RefundOfPayment(o, q)
      <4>1. ord'[o].pay = q
        BY <2>3, <3>1
      <4> QED
        BY <3>1, <4>1 DEF RefundOfPayment
    <3>4. OrderKnows(o)
        BY QrFacts
    <3> QED
        BY <2>3, <3>2, <3>3, <3>4 DEF OrderKnows
  <2> QED
    BY <2>1, <2>2, <2>3
<1>10. MoneyInv'
    BY <1>1, <1>5, <1>7, <1>9 DEF MoneyInv
<1>11. ASSUME NEW g \in GRefunds PROVE GatewayKnows(g)'
  <2>1. GatewayKnows(g)
    BY QrFacts
  <2> QED
    BY <1>3, <2>1 DEF GatewayKnows
<1>12. GatewayKeeps
    BY DEF GatewayKeeps
<1>13. ASSUME NEW w \in Pods PROVE WorkerKnows(wk[w])'
  <2>1. PICK x : x = wk[w]
    OBVIOUS
  <2>2. WorkerKnows(x)'
    BY <1>3, <1>12, <2>1, WorkerStays, QrFacts
  <2> QED
    BY <2>1, <2>2 DEF WorkerKnows, Names
<1>14. ASSUME NEW s \in Refunds PROVE RowKnows(s)'
  <2>1. CASE s = r
    BY <1>1, <2>1 DEF RowKnows
  <2>2. CASE s # r
    <3>1. RowKnows(s) /\ rfd'[s] = rfd[s]
        BY <1>1, <2>2, QrFacts
    <3> QED
        BY <3>1 DEF RowKnows, Names
  <2> QED
    BY <2>1, <2>2
<1> QED
    BY <1>1, <1>10, <1>11, <1>13, <1>14 DEF GateInv

-----------------------------------------------------------------------------
(* The steps.                                                              *)

Tables ==
    /\ ord \in [Orders -> OrderRow]
    /\ gpay \in [Payments -> PaymentRow]
    /\ rfd \in [Refunds -> RefundRow]
    /\ gref \in [GRefunds -> GatewayRefundRow]
    /\ wk \in [Pods -> WorkerRow]

\* Listed payments, seen deliveries, crashes and forgotten refunds keep their types.
LEMMA StepBooks ==
    ASSUME QrInv, Next
    PROVE  Books'
<1>0. Books
    BY DEF QrInv, TypeOK, Books
<1>1. CASE OrderStep
  <2>1. CASE UNCHANGED <<asked, seen, crashes, forgot>>
    BY <1>0, <2>1 DEF Books
  <2>2. CASE asked' \subseteq Payments /\ UNCHANGED <<seen, crashes, forgot>>
    BY <1>0, <2>2 DEF Books
  <2> QED
    BY <1>0, <1>1, <2>1, <2>2
       DEF OrderStep, Place, OpenCheckout, Expire, SetStatus, VoidBill, ReconcileAsk, ReconcileFails,
           Settleable, Books
<1>2. CASE PaymentStep
  <2>1. CASE asked' \subseteq asked /\ UNCHANGED <<seen, crashes, forgot>>
    BY <1>0, <2>1 DEF Books
  <2>2. CASE \E p \in Payments : seen' \in {seen, seen \cup {<<"payment", p>>}}
                                 /\ UNCHANGED <<asked, crashes, forgot>>
    BY <1>0, <2>2 DEF Books
  <2> QED
    BY <1>2, <2>1, <2>2 DEF PaymentStep, Pay, AutoCapture, Take, Verify, Reconcile, WebhookPayment
<1>3. CASE \E w \in Pods : WorkerStep(w) \/ Crash(w)
  <2>1. CASE UNCHANGED <<asked, seen, crashes, forgot>>
    BY <1>0, <2>1 DEF Books
  <2>2. CASE crashes < MaxCrashes /\ crashes' = crashes + 1 /\ UNCHANGED <<asked, seen, forgot>>
    BY <1>0, <2>2, BoundAssumption DEF Books
  <2> QED
    BY <1>3, <2>1, <2>2
       DEF WorkerStep, Claim, AskPrior, Send, SendRefused, GatewayError, RecordSent, DeferRefund, Crash
<1>4. CASE RefundStep
  <2>1. CASE UNCHANGED <<asked, seen, crashes, forgot>>
    BY <1>0, <2>1 DEF Books
  <2>2. CASE \E g \in GRefunds : seen' \in {seen, seen \cup {<<"refund", g>>}}
                                 /\ UNCHANGED <<asked, crashes, forgot>>
    BY <1>0, <2>2 DEF Books
  <2>3. ASSUME NEW r \in Refunds, RetryRefund(r) PROVE Books'
    <3>1. rfd[r].gid \in GRefunds \cup {NoId}
        BY QrFacts DEF RefundRow
    <3> QED
        BY <1>0, <2>3, <3>1 DEF RetryRefund, Books
  <2> QED
    BY <1>4, <2>1, <2>2, <2>3 DEF RefundStep, ComeDue, PollRefund, GatewaySettles, WebhookRefund
<1> QED
    BY <1>1, <1>2, <1>3, <1>4 DEF Next

\* No kitchen or counter step starts from an order that is not settled.
LEMMA StepsFollowPayment ==
    ASSUME NEW mode, NEW st, NextQrStep(mode, st) # {}
    PROVE  st \notin Unsettled
<1>1. PICK j \in 1..3 : Steps(mode)[j] = st
    BY DEF NextQrStep
<1>2. j = 1 \/ j = 2 \/ j = 3
    OBVIOUS
<1>3. Steps(mode)[1] = "Paid" /\ Steps(mode)[2] = "Preparing" /\ Steps(mode)[3] \in {"Ready", "Out for delivery"}
    BY DEF Steps
<1> QED
    BY <1>1, <1>2, <1>3 DEF Unsettled

LEMMA StepOrder ==
    ASSUME QrInv, OrderStep
    PROVE  Tables' /\ MoneyInv' /\ GateInv'
<1>0. Tables
    BY DEF QrInv, TypeOK, Tables
<1> PICK o \in Orders :
        \/ \E mode \in Modes : Place(o, mode)
        \/ OpenCheckout(o)
        \/ Expire(o)
        \/ \E st \in QrOrderStatus : SetStatus(o, st)
        \/ VoidBill(o)
        \/ ReconcileAsk(o)
        \/ ReconcileFails(o)
    BY DEF OrderStep
<1>o. ord \in [Orders -> OrderRow] /\ ord[o] \in OrderRow /\ OrderKnows(o)
    BY QrFacts
<1>1. ASSUME NEW mode \in Modes, Place(o, mode) PROVE Tables' /\ MoneyInv' /\ GateInv'
  <2>1. ord' = [ord EXCEPT ![o] = [ord[o] EXCEPT !.st = "Awaiting payment", !.mode = mode]]
    BY <1>o, <1>1 DEF Place
  <2>2. [ord[o] EXCEPT !.st = "Awaiting payment", !.mode = mode] \in OrderRow
    BY <1>o DEF OrderRow, QrOrderStatus
  <2>3. ord' \in [Orders -> OrderRow] /\ \A y \in Orders : y # o => ord'[y] = ord[y]
    BY <1>o, <2>1, <2>2
  <2>4. /\ ord'[o].pay = ord[o].pay /\ ord'[o].bill = ord[o].bill
        /\ ord'[o].st \in Unsettled /\ ord'[o].st # "Not drawn"
    BY <1>o, <2>1 DEF OrderRow, Unsettled
  <2>5. UNCHANGED <<gpay, rfd, gref, wk>>
    BY <1>1 DEF Place
  <2> QED
    BY <1>0, <2>3, <2>4, <2>5, OrderMoves DEF Tables
<1>2. CASE OpenCheckout(o)
  <2>1. ord' = [ord EXCEPT ![o] = [ord[o] EXCEPT !.checkout = TRUE]] /\ ord[o].st # "Not drawn"
    BY <1>2 DEF OpenCheckout
  <2>2. [ord[o] EXCEPT !.checkout = TRUE] \in OrderRow
    BY <1>o DEF OrderRow
  <2>3. ord' \in [Orders -> OrderRow] /\ \A y \in Orders : y # o => ord'[y] = ord[y]
    BY <1>o, <2>1, <2>2
  <2>4. ord'[o].pay = ord[o].pay /\ ord'[o].bill = ord[o].bill /\ ord'[o].st = ord[o].st
    BY <1>o, <2>1 DEF OrderRow
  <2>5. UNCHANGED <<gpay, rfd, gref, wk>>
    BY <1>2 DEF OpenCheckout
  <2>6. ord[o].pay = NoId => ord[o].st \in Unsettled
    BY <1>o DEF OrderKnows
  <2> QED
    BY <1>0, <2>1, <2>3, <2>4, <2>5, <2>6, OrderMoves DEF Tables
<1>3. CASE Expire(o)
  <2>1. ord' = [ord EXCEPT ![o] = [ord[o] EXCEPT !.st = "Expired"]]
    BY <1>3 DEF Expire
  <2>2. [ord[o] EXCEPT !.st = "Expired"] \in OrderRow
    BY <1>o DEF OrderRow, QrOrderStatus
  <2>3. ord' \in [Orders -> OrderRow] /\ \A y \in Orders : y # o => ord'[y] = ord[y]
    BY <1>o, <2>1, <2>2
  <2>4. /\ ord'[o].pay = ord[o].pay /\ ord'[o].bill = ord[o].bill
        /\ ord'[o].st \in Unsettled /\ ord'[o].st # "Not drawn"
    BY <1>o, <2>1 DEF OrderRow, Unsettled
  <2>5. UNCHANGED <<gpay, rfd, gref, wk>>
    BY <1>3 DEF Expire
  <2> QED
    BY <1>0, <2>3, <2>4, <2>5, OrderMoves DEF Tables
<1>4. ASSUME NEW st \in QrOrderStatus, SetStatus(o, st) PROVE Tables' /\ MoneyInv' /\ GateInv'
  <2>1. ord' = [ord EXCEPT ![o] = [ord[o] EXCEPT !.st = st]]
    BY <1>4 DEF SetStatus
  <2>2. [ord[o] EXCEPT !.st = st] \in OrderRow
    BY <1>o DEF OrderRow
  <2>3. ord' \in [Orders -> OrderRow] /\ \A y \in Orders : y # o => ord'[y] = ord[y]
    BY <1>o, <2>1, <2>2
  <2>4. ord'[o].pay = ord[o].pay /\ ord'[o].bill = ord[o].bill /\ ord'[o].st # "Not drawn"
    BY <1>o, <2>1 DEF OrderRow, QrOrderStatus
  <2>5. UNCHANGED <<gpay, rfd, gref, wk>>
    BY <1>4 DEF SetStatus
  <2>6. NextQrStep(ord[o].mode, ord[o].st) # {}
    BY <1>4 DEF SetStatus
  <2>7. ord[o].pay # NoId
    BY <1>o, <2>6, StepsFollowPayment DEF OrderKnows
  <2> QED
    BY <1>0, <2>3, <2>4, <2>5, <2>7, OrderMoves DEF Tables
<1>5. CASE VoidBill(o)
  <2>1. PICK p : p = ord[o].pay
    OBVIOUS
  <2>2. /\ p # NoId /\ gpay[p].st = "captured" /\ gpay[p].ord = o
        /\ RefundOfPayment(o, p) = {}
    BY <1>o, <1>5, <2>1 DEF VoidBill, OrderKnows
  <2>3. p \in Payments
    BY <1>o, <2>1, <2>2 DEF OrderRow
  <2>4. ord' = [ord EXCEPT ![o] = [ord[o] EXCEPT !.bill = "Voided", !.st = "Voided"]]
    BY <1>o, <1>5 DEF VoidBill
  <2>5. [ord[o] EXCEPT !.bill = "Voided", !.st = "Voided"] \in OrderRow
    BY <1>o DEF OrderRow, QrOrderStatus
  <2>6. ord' \in [Orders -> OrderRow] /\ \A y \in Orders : y # o => ord'[y] = ord[y]
    BY <1>o, <2>4, <2>5
  <2>7. ord'[o].pay = p /\ ord'[o].bill # "Live" /\ ord'[o].st # "Not drawn"
    BY <1>o, <2>1, <2>4 DEF OrderRow
  <2>8. QueueRefund(o, p) /\ UNCHANGED <<gpay, gref, wk>>
    BY <1>5, <2>1 DEF VoidBill
  <2> QED
    BY <1>0, <2>2, <2>3, <2>6, <2>7, <2>8, QueueMoves DEF Tables
<1>6. CASE UNCHANGED <<ord, gpay, rfd, gref, wk>>
  <2>1. MoneyInv'
    BY <1>6, RowsMoveMoney DEF RowsMove, Drawn
  <2>2. GateInv'
    BY <1>6 DEF QrInv, GateInv, GatewayKnows, RowKnows, WorkerKnows, Names, Drawn
  <2> QED
    BY <1>0, <1>6, <2>1, <2>2 DEF Tables
<1> QED
    BY <1>1, <1>2, <1>3, <1>4, <1>5, <1>6 DEF ReconcileAsk, ReconcileFails

LEMMA CaptureMoves ==
    ASSUME QrInv, NEW p \in Payments, NEW filled \in BOOLEAN, SettleCapture(p, filled),
           UNCHANGED <<gpay, gref, wk>>
    PROVE  Tables' /\ MoneyInv' /\ GateInv'
<1>0. Tables
    BY DEF QrInv, TypeOK, Tables
<1> PICK o : o = gpay[p].ord
    OBVIOUS
<1>1. gpay[p].st = "captured" /\ o \in Orders /\ ord[o].st # "Not drawn"
    BY QrFacts DEF SettleCapture, PaymentKnows
<1>2. ord \in [Orders -> OrderRow] /\ ord[o] \in OrderRow /\ OrderKnows(o) /\ p # NoId
    BY <1>1, QrFacts, NoIdAssumption
<1> DEFINE settled == ord[o].pay # NoId \/ ord[o].st \notin {"Awaiting payment", "Expired"}
<1>3. settled => ord[o].pay # NoId
    BY <1>1, <1>2 DEF OrderKnows, Unsettled
<1>4. CASE ord[o].pay # NoId
  <2>1. UNCHANGED ord
    BY <1>2, <1>4 DEF SettleCapture
  <2>2. CASE UNCHANGED rfd
    <3>1. MoneyInv'
        BY <2>1, <2>2, RowsMoveMoney DEF RowsMove, Drawn
    <3>2. GateInv'
        BY <2>1, <2>2 DEF QrInv, GateInv, GatewayKnows, RowKnows, WorkerKnows, Names, Drawn
    <3> QED
        BY <1>0, <2>1, <2>2, <3>1, <3>2 DEF Tables
  <2>3. CASE ord[o].pay # p /\ RefundOfPayment(o, p) = {} /\ QueueRefund(o, p)
    <3>1. ord' \in [Orders -> OrderRow] /\ \A y \in Orders : ord'[y] = ord[y]
        BY <1>2, <2>1
    <3> QED
        BY <1>0, <1>1, <1>4, <2>3, <3>1, QueueMoves DEF Tables
  <2> QED
    BY <1>4, <2>2, <2>3 DEF SettleCapture
<1>5. CASE ord[o].pay = NoId
  <2>1. ~settled /\ ord[o].bill = "none" /\ RefundsOf(o) = {}
    BY <1>2, <1>3, <1>5 DEF OrderKnows
  <2>2. RefundOfPayment(o, p) = {}
    BY <2>1 DEF RefundOfPayment
  <2>3. CASE filled /\ gpay[p].fits
    <3>1. ord' = [ord EXCEPT ![o] = [ord[o] EXCEPT !.st = "Paid", !.pay = p, !.bill = "Live"]]
        BY <1>2, <1>5, <2>1, <2>3 DEF SettleCapture
    <3>2. UNCHANGED rfd
        BY <1>2, <1>5, <2>1, <2>3 DEF SettleCapture
    <3>3. [ord[o] EXCEPT !.st = "Paid", !.pay = p, !.bill = "Live"] \in OrderRow
        BY <1>2 DEF OrderRow, QrOrderStatus
    <3>4. ord' \in [Orders -> OrderRow] /\ \A y \in Orders : y # o => ord'[y] = ord[y]
        BY <1>2, <3>1, <3>3
    <3>5. ord'[o].pay = p /\ ord'[o].st = "Paid" /\ ord'[o].bill = "Live"
        BY <1>1, <1>2, <3>1 DEF OrderRow
    <3>6. GateInv' /\ Numbered' /\ \A r \in Refunds : RefundKnows(r)'
        <4>1. GateInv'
            BY <3>2 DEF QrInv, GateInv, GatewayKnows, RowKnows, WorkerKnows, Names, Drawn
        <4>2. Numbered'
            BY <3>2 DEF QrInv, MoneyInv, Numbered, CountsTo, Drawn
        <4>3. ASSUME NEW r \in Refunds PROVE RefundKnows(r)'
            BY <3>2, QrFacts DEF RefundKnows, Drawn
        <4> QED
            BY <4>1, <4>2, <4>3
    <3>7. ASSUME NEW q \in Payments PROVE PaymentKnows(q)'
        BY <3>4, <3>5, QrFacts DEF PaymentKnows
    <3>8. ASSUME NEW y \in Orders PROVE OrderKnows(y)'
      <4>1. CASE y # o
        <5>1. ord'[y] = ord[y] /\ OrderKnows(y)
            BY <3>4, <4>1, QrFacts
        <5>2. /\ RefundsOf(y)' = RefundsOf(y)
              /\ RefundOfPayment(y, ord[y].pay)' = RefundOfPayment(y, ord[y].pay)
            BY <3>2, <5>1 DEF RefundOfPayment, RefundsOf
        <5> QED
            BY <5>1, <5>2 DEF OrderKnows
      <4>2. CASE y = o
        <5>1. RefundOfPayment(o, ord[o].pay)' = RefundOfPayment(o, p)
            BY <3>2, <3>5 DEF RefundOfPayment, RefundsOf
        <5> QED
            BY <1>1, <1>2, <2>2, <3>5, <4>2, <5>1 DEF OrderKnows
      <4> QED
        BY <4>1, <4>2
    <3> QED
        BY <1>0, <3>2, <3>4, <3>6, <3>7, <3>8 DEF Tables, MoneyInv
  <2>4. CASE ~(filled /\ gpay[p].fits)
    <3>1. ord' = [ord EXCEPT ![o] = [ord[o] EXCEPT !.st = "Refunded", !.pay = p]] /\ QueueRefund(o, p)
        BY <1>2, <1>5, <2>1, <2>4 DEF SettleCapture
    <3>2. [ord[o] EXCEPT !.st = "Refunded", !.pay = p] \in OrderRow
        BY <1>2 DEF OrderRow, QrOrderStatus
    <3>3. ord' \in [Orders -> OrderRow] /\ \A y \in Orders : y # o => ord'[y] = ord[y]
        BY <1>2, <3>1, <3>2
    <3>4. ord'[o].pay = p /\ ord'[o].st # "Not drawn" /\ ord'[o].bill # "Live"
        BY <1>1, <1>2, <2>1, <3>1 DEF OrderRow
    <3> QED
        BY <1>0, <1>1, <2>2, <3>1, <3>3, <3>4, QueueMoves DEF Tables
  <2> QED
    BY <2>3, <2>4
<1> QED
    BY <1>4, <1>5

LEMMA StepPayment ==
    ASSUME QrInv, PaymentStep
    PROVE  Tables' /\ MoneyInv' /\ GateInv'
<1>0. Tables
    BY DEF QrInv, TypeOK, Tables
<1>1. ASSUME NEW p \in Payments, NEW o \in Orders, NEW fits \in BOOLEAN, Pay(p, o, fits)
      PROVE  Tables' /\ MoneyInv' /\ GateInv'
  <2>1. gpay' = [gpay EXCEPT ![p] = [st |-> "authorized", ord |-> o, fits |-> fits]]
        /\ gpay[p].st = "none" /\ ord[o].checkout /\ UNCHANGED <<ord, rfd, gref, wk>>
    BY <1>1 DEF Pay
  <2>2. [st |-> "authorized", ord |-> o, fits |-> fits] \in PaymentRow
    BY DEF PaymentRow
  <2>3. ord[o].st # "Not drawn"
    BY <2>1, QrFacts DEF OrderKnows
  <2>4. gpay' \in [Payments -> PaymentRow]
    BY <2>1, <2>2, QrFacts
  <2>5. \A q \in Payments : gpay[q].st = "captured" => gpay'[q] = gpay[q]
    BY <2>1, QrFacts
  <2>6. ASSUME NEW q \in Payments PROVE PaymentKnows(q)'
    BY <2>1, <2>3, QrFacts DEF PaymentKnows
  <2> QED
    BY <1>0, <2>1, <2>4, <2>5, <2>6, PaymentMoves DEF Tables
<1>2. ASSUME NEW p \in Payments, AutoCapture(p) \/ Take(p)
      PROVE  Tables' /\ MoneyInv' /\ GateInv'
  <2>1. gpay' = [gpay EXCEPT ![p] = [gpay[p] EXCEPT !.st = "captured"]]
        /\ gpay[p].st = "authorized" /\ UNCHANGED <<ord, rfd, gref, wk>>
    BY <1>2 DEF AutoCapture, Take
  <2>2. [gpay[p] EXCEPT !.st = "captured"] \in PaymentRow
        /\ [gpay[p] EXCEPT !.st = "captured"].ord = gpay[p].ord
    BY QrFacts DEF PaymentRow
  <2>3. gpay' \in [Payments -> PaymentRow]
    BY <2>1, <2>2, QrFacts
  <2>4. \A q \in Payments : gpay[q].st = "captured" => gpay'[q] = gpay[q]
    BY <2>1, QrFacts
  <2>5. ASSUME NEW q \in Payments PROVE PaymentKnows(q)'
    <3>1. PaymentKnows(q) /\ PaymentKnows(p)
        BY QrFacts
    <3>2. gpay'[q].ord = gpay[q].ord /\ (gpay'[q].st # "none" => gpay[q].st # "none")
        BY <2>1, <2>2, QrFacts
    <3> QED
        BY <2>1, <3>1, <3>2 DEF PaymentKnows
  <2> QED
    BY <1>0, <2>1, <2>3, <2>4, <2>5, PaymentMoves DEF Tables
<1>3. ASSUME NEW p \in Payments, NEW filled \in BOOLEAN, SettleCapture(p, filled),
             UNCHANGED <<gpay, gref, wk>>
      PROVE  Tables' /\ MoneyInv' /\ GateInv'
    BY <1>3, CaptureMoves
<1> QED
    BY <1>1, <1>2, <1>3 DEF PaymentStep, Verify, Reconcile, WebhookPayment

\* A worker, a webhook or a retry moves one row on.
LEMMA RowMoves ==
    ASSUME QrInv, UNCHANGED <<ord, gpay, gref>>,
           NEW r \in Refunds, Drawn(r),
           NEW row \in RefundRow, rfd' = [rfd EXCEPT ![r] = row],
           row.st # "Not drawn", row.pay = rfd[r].pay,
           row.st \in {"Sent", "Processed"} => row.gid # NoId,
           row.gid # NoId => Names(row.gid, r, IF row.st = "Processed" THEN "processed" ELSE "pending"),
           wk' \in [Pods -> WorkerRow],
           \A w \in Pods : wk'[w] = wk[w] \/ WorkerKnows(wk'[w])
    PROVE  Tables' /\ MoneyInv' /\ GateInv'
<1>1. /\ rfd' \in [Refunds -> RefundRow] /\ rfd'[r] = row
      /\ \A s \in Refunds : s # r => rfd'[s] = rfd[s]
    BY QrFacts
<1>2. Tables'
    BY <1>1, QrFacts DEF Tables
<1>3. RowsMove
    BY <1>1 DEF RowsMove, Drawn
<1>4. MoneyInv'
    BY <1>3, RowsMoveMoney
<1>5. GatewayKeeps
    BY DEF GatewayKeeps
<1>6. ASSUME NEW g \in GRefunds PROVE GatewayKnows(g)'
    BY <1>3, QrFacts DEF GatewayKnows, RowsMove
<1>7. ASSUME NEW w \in Pods PROVE WorkerKnows(wk[w])'
  <2>1. PICK x : x = wk'[w]
    OBVIOUS
  <2>2. WorkerKnows(x)
    BY <2>1, QrFacts
  <2>3. WorkerKnows(x)'
    BY <1>3, <1>5, <2>2, WorkerStays DEF RowsMove
  <2> QED
    BY <2>1, <2>3 DEF WorkerKnows, Names
<1>8. ASSUME NEW s \in Refunds PROVE RowKnows(s)'
  <2>1. CASE s = r
    BY <1>1, <2>1 DEF RowKnows, Names
  <2>2. CASE s # r
    <3>1. RowKnows(s) /\ rfd'[s] = rfd[s]
        BY <1>1, <2>2, QrFacts
    <3> QED
        BY <3>1 DEF RowKnows, Names
  <2> QED
    BY <2>1, <2>2
<1> QED
    BY <1>2, <1>4, <1>6, <1>7, <1>8 DEF GateInv

\* The row stays; a worker may move on, the gateway's refunds may move on.
LEMMA GatewayMoves ==
    ASSUME QrInv, UNCHANGED <<ord, gpay, rfd>>, GatewayKeeps,
           gref' \in [GRefunds -> GatewayRefundRow],
           \A g \in GRefunds : GatewayKnows(g)',
           wk' \in [Pods -> WorkerRow],
           \A w \in Pods : wk'[w] = wk[w] \/ WorkerKnows(wk[w])'
    PROVE  Tables' /\ MoneyInv' /\ GateInv'
<1>1. Tables'
    BY QrFacts DEF Tables
<1>2. MoneyInv'
    BY RowsMoveMoney DEF RowsMove, Drawn
<1>3. ASSUME NEW w \in Pods PROVE WorkerKnows(wk[w])'
  <2>1. CASE wk'[w] = wk[w]
    <3>1. PICK x : x = wk[w]
        OBVIOUS
    <3>2. WorkerKnows(x)'
        BY <3>1, WorkerStays, QrFacts DEF Drawn
    <3> QED
        BY <2>1, <3>1, <3>2 DEF WorkerKnows, Names
  <2> QED
    BY <2>1
<1>4. ASSUME NEW r \in Refunds PROVE RowKnows(r)'
  <2>1. PICK x : x = rfd[r]
    OBVIOUS
  <2>2. x.gid # NoId => Names(x.gid, r, IF x.st = "Processed" THEN "processed" ELSE "pending")
    BY <2>1, QrFacts DEF RowKnows
  <2>3. x.gid # NoId => Names(x.gid, r, IF x.st = "Processed" THEN "processed" ELSE "pending")'
    BY <2>2, NamesStay
  <2>4. x.st \in {"Sent", "Processed"} => x.gid # NoId
    BY <2>1, QrFacts DEF RowKnows
  <2> QED
    BY <2>1, <2>3, <2>4 DEF RowKnows, Names
<1> QED
    BY <1>1, <1>2, <1>3, <1>4 DEF GateInv

\* A worker puts down what it had.
LEMMA IdleKnows == IdleWorker \in WorkerRow /\ WorkerKnows(IdleWorker)
  BY DEF IdleWorker, WorkerRow, WorkerKnows

LEMMA StepWorker ==
    ASSUME QrInv, NEW w \in Pods, WorkerStep(w) \/ Crash(w)
    PROVE  Tables' /\ MoneyInv' /\ GateInv'
<1>w. wk \in [Pods -> WorkerRow] /\ wk[w] \in WorkerRow /\ WorkerKnows(wk[w])
    BY QrFacts
<1> DEFINE Goal == Tables' /\ MoneyInv' /\ GateInv'
\* A new row for w, with the gateway as it was, is fine when it knows what it says.
<1>0. ASSUME NEW x \in WorkerRow, wk' = [wk EXCEPT ![w] = x], WorkerKnows(x),
             UNCHANGED <<ord, gpay, rfd, gref>>
      PROVE  Goal
  <2>1. wk' \in [Pods -> WorkerRow] /\ wk'[w] = x /\ \A v \in Pods : v # w => wk'[v] = wk[v]
    BY <1>0, <1>w
  <2>2. WorkerKnows(wk[w])'
    BY <1>0, <2>1 DEF WorkerKnows, Names, Drawn
  <2>3. GatewayKeeps /\ \A g \in GRefunds : GatewayKnows(g)'
    BY <1>0, QrFacts DEF GatewayKeeps, GatewayKnows, Drawn
  <2>4. gref' \in [GRefunds -> GatewayRefundRow]
    BY <1>0, QrFacts
  <2> HIDE DEF GatewayKeeps
  <2> QED
    BY <1>0, <2>1, <2>2, <2>3, <2>4, GatewayMoves
<1>1. ASSUME NEW r \in Refunds, Claim(w, r) PROVE Goal
  <2>1. PICK x : x = [IdleWorker EXCEPT !.at = "claimed", !.rid = r]
    OBVIOUS
  <2>2. x \in WorkerRow /\ x.rid = r /\ x.at = "claimed"
    BY <2>1 DEF IdleWorker, WorkerRow
  <2>3. Drawn(r) /\ rfd[r] \in RefundRow /\ RowKnows(r) /\ rfd[r].st = "Pending"
    BY <1>1, QrFacts DEF Claim, Drawn
  <2>4. PICK n : n = IF rfd[r].attempts < REFUND_MAX_ATTEMPTS THEN rfd[r].attempts + 1 ELSE rfd[r].attempts
    OBVIOUS
  <2>5. n \in 0..REFUND_MAX_ATTEMPTS
    <3>1. rfd[r].attempts \in 0..REFUND_MAX_ATTEMPTS
        BY <2>3 DEF RefundRow
    <3>2. PICK a \in 0..REFUND_MAX_ATTEMPTS : a = rfd[r].attempts
        BY <3>1
    <3>3. a < REFUND_MAX_ATTEMPTS => a + 1 \in 0..REFUND_MAX_ATTEMPTS
        BY AttemptAssumption
    <3> QED
        BY <2>4, <3>2, <3>3
  <2>6. PICK row : row = [rfd[r] EXCEPT !.due = FALSE, !.attempts = n]
    OBVIOUS
  <2>7. rfd' = [rfd EXCEPT ![r] = row]
    BY <1>1, <2>3, <2>4, <2>6 DEF Claim, RefundRow
  <2>8. row \in RefundRow /\ row.st = rfd[r].st /\ row.pay = rfd[r].pay /\ row.gid = rfd[r].gid
    BY <2>3, <2>5, <2>6 DEF RefundRow
  <2>9. wk' = [wk EXCEPT ![w] = x] /\ UNCHANGED <<ord, gpay, gref>>
    BY <1>1, <2>1 DEF Claim
  <2>10. WorkerKnows(x)
    BY <2>2, <2>3 DEF WorkerKnows
  <2>11. wk' \in [Pods -> WorkerRow] /\ \A v \in Pods : wk'[v] = wk[v] \/ WorkerKnows(wk'[v])
    BY <1>w, <2>2, <2>9, <2>10
  <2>12. row.gid # NoId => Names(row.gid, r, IF row.st = "Processed" THEN "processed" ELSE "pending")
    BY <2>3, <2>8 DEF RowKnows
  <2> QED
    BY <2>3, <2>7, <2>8, <2>9, <2>11, <2>12, RowMoves
<1>2. CASE AskPrior(w)
  <2>1. wk[w].at = "claimed" /\ UNCHANGED <<ord, gpay, rfd, gref>>
    BY <1>2 DEF AskPrior
  <2>2. CASE wk' = [wk EXCEPT ![w].at = "none found"]
    <3>1. PICK x : x = [wk[w] EXCEPT !.at = "none found"]
        OBVIOUS
    <3>2. x \in WorkerRow /\ x.at = "none found" /\ x.rid = wk[w].rid /\ wk' = [wk EXCEPT ![w] = x]
        BY <1>w, <2>2, <3>1 DEF WorkerRow
    <3>3. WorkerKnows(x)
        BY <1>w, <2>1, <3>2 DEF WorkerKnows
    <3> QED
        BY <1>0, <2>1, <3>2, <3>3
  <2>3. ASSUME NEW g \in LiveAtGateway(wk[w].rid),
               wk' = [wk EXCEPT ![w].at = "answered", ![w].gid = g, ![w].said = gref[g].st]
        PROVE  Goal
    <3>1. PICK x : x = [wk[w] EXCEPT !.at = "answered", !.gid = g, !.said = gref[g].st]
        OBVIOUS
    <3>2. g \in GRefunds /\ gref[g].rid = wk[w].rid /\ gref[g].st \in Outcomes /\ gref[g].st # "none"
        BY DEF LiveAtGateway, Outcomes
    <3>3. /\ x \in WorkerRow /\ x.at = "answered" /\ x.rid = wk[w].rid /\ x.gid = g
          /\ x.said = gref[g].st /\ wk' = [wk EXCEPT ![w] = x]
        BY <1>w, <2>3, <3>1, <3>2 DEF WorkerRow
    <3>4. WorkerKnows(x)
        BY <1>w, <2>1, <3>2, <3>3 DEF WorkerKnows, Names
    <3> QED
        BY <1>0, <2>1, <3>3, <3>4
  <2> QED
    BY <1>2, <2>2, <2>3 DEF AskPrior
<1>3. ASSUME NEW g \in GRefunds, NEW st \in Outcomes, NEW answered \in BOOLEAN, Send(w, g, st, answered)
      PROVE  Goal
  <2> PICK r : r = wk[w].rid
    OBVIOUS
  <2>1. r \in Refunds /\ Drawn(r) /\ rfd[r] \in RefundRow
    BY <1>3, <1>w, QrFacts DEF Send, WorkerKnows
  <2>2. PICK sent : sent = [st |-> st, rid |-> r, pay |-> rfd[r].pay]
    OBVIOUS
  <2>3. gref[g].st = "none" /\ gref' = [gref EXCEPT ![g] = sent] /\ UNCHANGED <<ord, gpay, rfd>>
    BY <1>3, <2>2 DEF Send
  <2>4. sent \in GatewayRefundRow /\ sent.st = st /\ sent.rid = r /\ sent.pay = rfd[r].pay
    BY <2>1, <2>2 DEF GatewayRefundRow, RefundRow
  <2>5. /\ gref' \in [GRefunds -> GatewayRefundRow] /\ gref'[g] = sent
        /\ \A h \in GRefunds : h # g => gref'[h] = gref[h]
    BY <2>3, <2>4, QrFacts
  <2>6. GatewayKeeps
    BY <2>3, <2>5 DEF GatewayKeeps
  <2>7. ASSUME NEW h \in GRefunds PROVE GatewayKnows(h)'
    BY <2>1, <2>3, <2>4, <2>5, QrFacts DEF GatewayKnows, Drawn
  <2>8. PICK x : x = IF answered THEN [wk[w] EXCEPT !.at = "answered", !.gid = g, !.said = st]
                     ELSE [wk[w] EXCEPT !.at = "error"]
    OBVIOUS
  <2>9. /\ x \in WorkerRow /\ x.rid = r
        /\ x.at = "answered" => x.gid = g /\ x.said = st
    BY <1>w, <2>8 DEF WorkerRow
  <2>10. wk' = [wk EXCEPT ![w] = x]
    <3>1. CASE answered
        BY <1>3, <1>w, <2>8, <3>1 DEF Send, WorkerRow
    <3>2. CASE ~answered
        BY <1>3, <1>w, <2>8, <3>2 DEF Send, WorkerRow
    <3> QED
        BY <3>1, <3>2
  <2>11. wk' \in [Pods -> WorkerRow] /\ wk'[w] = x /\ \A v \in Pods : v # w => wk'[v] = wk[v]
    BY <1>w, <2>9, <2>10
  <2>12. WorkerKnows(wk[w])'
    <3>1. x.at = "answered" => Names(x.gid, x.rid, x.said)'
        BY <2>4, <2>5, <2>9 DEF Names, Outcomes
    <3> QED
        BY <2>1, <2>3, <2>9, <2>11, <3>1 DEF WorkerKnows, Names, Drawn
  <2> QED
    BY <2>3, <2>5, <2>6, <2>7, <2>11, <2>12, GatewayMoves
<1>4. ASSUME wk[w].at # "idle", UNCHANGED <<ord, gpay, rfd, gref>>,
             NEW at \in {"error", "refused"}, NEW final \in BOOLEAN,
             wk' = [wk EXCEPT ![w].at = at, ![w].final = final]
      PROVE  Goal
  <2>1. PICK x : x = [wk[w] EXCEPT !.at = at, !.final = final]
    OBVIOUS
  <2>2. x \in WorkerRow /\ x.at = at /\ x.rid = wk[w].rid /\ wk' = [wk EXCEPT ![w] = x]
    BY <1>w, <1>4, <2>1 DEF WorkerRow
  <2>3. WorkerKnows(x)
    BY <1>w, <1>4, <2>2 DEF WorkerKnows
  <2> QED
    BY <1>0, <1>4, <2>2, <2>3
<1>5. CASE RecordSent(w)
  <2> PICK r : r = wk[w].rid
    OBVIOUS
  <2>1. /\ wk[w].at = "answered" /\ r \in Refunds /\ Drawn(r) /\ Names(wk[w].gid, r, wk[w].said)
        /\ wk' = [wk EXCEPT ![w] = IdleWorker] /\ UNCHANGED <<ord, gpay, gref>>
    BY <1>5, <1>w DEF RecordSent, WorkerKnows
  <2>2. wk' \in [Pods -> WorkerRow] /\ \A v \in Pods : wk'[v] = wk[v] \/ WorkerKnows(wk'[v])
    BY <1>w, <2>1, IdleKnows
  <2>3. CASE rfd[r].st = "Pending"
    <3>1. PICK row : row = [rfd[r] EXCEPT !.st = StatusOf(wk[w].said), !.gid = wk[w].gid]
        OBVIOUS
    <3>2. StatusOf(wk[w].said) \in {"Sent", "Processed", "Failed"}
          /\ (StatusOf(wk[w].said) = "Processed" => wk[w].said = "processed")
        BY DEF StatusOf
    <3>3. rfd[r] \in RefundRow /\ wk[w].gid \in GRefunds /\ wk[w].gid # NoId
        BY <2>1, QrFacts, NoIdAssumption DEF Names
    <3>4. /\ row \in RefundRow /\ row.pay = rfd[r].pay /\ row.gid = wk[w].gid
          /\ row.st = StatusOf(wk[w].said)
        BY <3>1, <3>2, <3>3 DEF RefundRow, RefundStatus
    <3>5. rfd' = [rfd EXCEPT ![r] = row]
        BY <1>5, <2>3, <3>1, <3>3 DEF RecordSent, RefundRow
    <3>6. Names(row.gid, r, IF row.st = "Processed" THEN "processed" ELSE "pending")
        BY <2>1, <3>2, <3>4 DEF Names
    <3>7. row.st # "Not drawn"
        BY <3>2, <3>4
    <3> QED
        BY <2>1, <2>2, <3>3, <3>4, <3>5, <3>6, <3>7, RowMoves
  <2>4. CASE rfd[r].st # "Pending"
    BY <1>0, <1>5, <2>1, <2>4, IdleKnows DEF RecordSent
  <2> QED
    BY <2>3, <2>4
<1>6. CASE DeferRefund(w)
  <2> PICK r : r = wk[w].rid
    OBVIOUS
  <2>1. /\ r \in Refunds /\ Drawn(r) /\ rfd[r] \in RefundRow /\ RowKnows(r)
        /\ wk' = [wk EXCEPT ![w] = IdleWorker] /\ UNCHANGED <<ord, gpay, gref>>
    BY <1>6, <1>w, QrFacts DEF DeferRefund, WorkerKnows
  <2>2. wk' \in [Pods -> WorkerRow] /\ \A v \in Pods : wk'[v] = wk[v] \/ WorkerKnows(wk'[v])
    BY <1>w, <2>1, IdleKnows
  <2>3. CASE rfd[r].st = "Pending" /\ rfd' = [rfd EXCEPT ![r].st = "Failed"]
    <3>1. PICK row : row = [rfd[r] EXCEPT !.st = "Failed"]
        OBVIOUS
    <3>2. /\ row \in RefundRow /\ row.pay = rfd[r].pay /\ row.gid = rfd[r].gid /\ row.st = "Failed"
          /\ rfd' = [rfd EXCEPT ![r] = row]
        BY <2>1, <2>3, <3>1 DEF RefundRow, RefundStatus
    <3>3. row.gid # NoId => Names(row.gid, r, IF row.st = "Processed" THEN "processed" ELSE "pending")
        BY <2>1, <2>3, <3>2 DEF RowKnows
    <3> QED
        BY <2>1, <2>2, <3>2, <3>3, RowMoves
  <2>4. CASE rfd' = rfd
    BY <1>0, <2>1, <2>4, IdleKnows
  <2> QED
    BY <1>6, <2>3, <2>4 DEF DeferRefund
<1>7. CASE Crash(w)
    BY <1>0, <1>7, IdleKnows DEF Crash
<1>8. CASE SendRefused(w)
  <2>1. wk' = [wk EXCEPT ![w].at = "refused", ![w].final = TRUE]
        /\ wk[w].at # "idle" /\ UNCHANGED <<ord, gpay, rfd, gref>>
    BY <1>8 DEF SendRefused
  <2> QED
    BY <1>4, <2>1
<1>9. ASSUME NEW final \in BOOLEAN, GatewayError(w, final) PROVE Goal
  <2>1. wk' = [wk EXCEPT ![w].at = "error", ![w].final = final]
        /\ wk[w].at # "idle" /\ UNCHANGED <<ord, gpay, rfd, gref>>
    BY <1>9 DEF GatewayError
  <2> QED
    BY <1>4, <2>1
<1> QED
    BY <1>1, <1>2, <1>3, <1>5, <1>6, <1>7, <1>8, <1>9 DEF WorkerStep

\* The gateway's word for a refund is written to the row that refund names.
LEMMA SettleMoves ==
    ASSUME QrInv, NEW g \in GRefunds, SettleRefund(g), UNCHANGED <<ord, gpay, gref, wk>>
    PROVE  Tables' /\ MoneyInv' /\ GateInv'
<1> PICK r : r = gref[g].rid
    OBVIOUS
<1>1. r \in Refunds /\ Drawn(r) /\ rfd[r] \in RefundRow /\ gref[g].st \in {"processed", "failed"}
    BY QrFacts DEF SettleRefund, GatewayKnows
<1>2. wk' \in [Pods -> WorkerRow] /\ \A v \in Pods : wk'[v] = wk[v] \/ WorkerKnows(wk'[v])
    BY QrFacts
<1>3. PICK st : st = StatusOf(gref[g].st)
    OBVIOUS
<1>4. st \in {"Processed", "Failed"} /\ (st = "Processed" => gref[g].st = "processed")
    BY <1>1, <1>3 DEF StatusOf
<1>5. CASE rfd' = [rfd EXCEPT ![r].st = st, ![r].gid = g]
  <2>1. PICK row : row = [rfd[r] EXCEPT !.st = st, !.gid = g]
    OBVIOUS
  <2>2. /\ row \in RefundRow /\ row.pay = rfd[r].pay /\ row.gid = g /\ row.st = st
        /\ rfd' = [rfd EXCEPT ![r] = row]
    BY <1>1, <1>4, <1>5, <2>1 DEF RefundRow, RefundStatus
  <2>3. Names(row.gid, r, IF row.st = "Processed" THEN "processed" ELSE "pending")
    BY <1>1, <1>4, <2>2 DEF Names
  <2>4. row.gid # NoId /\ row.st # "Not drawn"
    BY <1>4, <2>2, NoIdAssumption
  <2> QED
    BY <1>1, <1>2, <2>2, <2>3, <2>4, RowMoves
<1>6. CASE rfd' = rfd
  <2>1. GatewayKeeps
    BY DEF GatewayKeeps
  <2>2. \A h \in GRefunds : GatewayKnows(h)'
    BY <1>6, QrFacts DEF GatewayKnows, Drawn
  <2>3. gref' \in [GRefunds -> GatewayRefundRow]
    BY QrFacts
  <2> QED
    BY <1>2, <1>6, <2>1, <2>2, <2>3, GatewayMoves
<1> QED
    BY <1>3, <1>5, <1>6 DEF SettleRefund

LEMMA StepRefund ==
    ASSUME QrInv, RefundStep
    PROVE  Tables' /\ MoneyInv' /\ GateInv'
<1> DEFINE Goal == Tables' /\ MoneyInv' /\ GateInv'
<1>0. ASSUME UNCHANGED wk
      PROVE  wk' \in [Pods -> WorkerRow] /\ \A v \in Pods : wk'[v] = wk[v] \/ WorkerKnows(wk'[v])
    BY <1>0, QrFacts
<1>1. ASSUME NEW r \in Refunds, ComeDue(r) PROVE Goal
  <2>1. PICK row : row = [rfd[r] EXCEPT !.due = TRUE]
    OBVIOUS
  <2>2. rfd[r] \in RefundRow /\ RowKnows(r) /\ rfd[r].st = "Pending" /\ UNCHANGED <<ord, gpay, gref, wk>>
    BY <1>1, QrFacts DEF ComeDue
  <2>3. /\ row \in RefundRow /\ row.st = rfd[r].st /\ row.pay = rfd[r].pay /\ row.gid = rfd[r].gid
        /\ rfd' = [rfd EXCEPT ![r] = row]
    BY <1>1, <2>1, <2>2 DEF ComeDue, RefundRow
  <2>4. row.gid # NoId => Names(row.gid, r, IF row.st = "Processed" THEN "processed" ELSE "pending")
    BY <2>2, <2>3 DEF RowKnows
  <2>5. Drawn(r)
    BY <2>2 DEF Drawn
  <2> QED
    BY <1>0, <2>2, <2>3, <2>4, <2>5, RowMoves
<1>2. ASSUME NEW r \in Refunds, RetryRefund(r) PROVE Goal
  <2>1. PICK row : row = [rfd[r] EXCEPT !.st = "Pending", !.gid = NoId, !.attempts = 0, !.due = TRUE]
    OBVIOUS
  <2>2. rfd[r] \in RefundRow /\ rfd[r].st = "Failed" /\ UNCHANGED <<ord, gpay, gref, wk>>
    BY <1>2, QrFacts DEF RetryRefund
  <2>3. rfd' = [rfd EXCEPT ![r] = row]
    BY <1>2, <2>1, <2>2 DEF RetryRefund, RefundRow
  <2>4. row \in RefundRow /\ row.st = "Pending" /\ row.pay = rfd[r].pay /\ row.gid = NoId
    <3>1. 0 \in 0..REFUND_MAX_ATTEMPTS
        BY AttemptAssumption
    <3> QED
        BY <2>1, <2>2, <3>1 DEF RefundRow, RefundStatus
  <2>5. Drawn(r)
    BY <2>2 DEF Drawn
  <2> QED
    BY <1>0, <2>2, <2>3, <2>4, <2>5, RowMoves
<1>3. ASSUME NEW r \in Refunds, PollRefund(r) PROVE Goal
  <2>1. rfd[r].gid \in GRefunds
    BY <1>3, QrFacts DEF PollRefund, RowKnows, Names
  <2> QED
    BY <1>3, <2>1, SettleMoves DEF PollRefund
<1>4. ASSUME NEW g \in GRefunds, NEW marked \in BOOLEAN, WebhookRefund(g, marked) PROVE Goal
    BY <1>4, SettleMoves DEF WebhookRefund
<1>5. ASSUME NEW g \in GRefunds, NEW st \in {"processed", "failed"}, GatewaySettles(g, st) PROVE Goal
  <2>1. PICK sent : sent = [gref[g] EXCEPT !.st = st]
    OBVIOUS
  <2>2. /\ gref[g].st = "pending" /\ gref[g] \in GatewayRefundRow /\ gref' = [gref EXCEPT ![g] = sent]
        /\ UNCHANGED <<ord, gpay, rfd, wk>>
    BY <1>5, <2>1, QrFacts DEF GatewaySettles
  <2>3. sent \in GatewayRefundRow /\ sent.st = st /\ sent.rid = gref[g].rid /\ sent.pay = gref[g].pay
    BY <2>1, <2>2 DEF GatewayRefundRow, Outcomes
  <2>4. /\ gref' \in [GRefunds -> GatewayRefundRow] /\ gref'[g] = sent
        /\ \A h \in GRefunds : h # g => gref'[h] = gref[h]
    BY <2>2, <2>3, QrFacts
  <2>5. GatewayKeeps
    BY <2>2, <2>3, <2>4 DEF GatewayKeeps
  <2>6. ASSUME NEW h \in GRefunds PROVE GatewayKnows(h)'
    <3>1. gref'[h].rid = gref[h].rid /\ gref'[h].pay = gref[h].pay
          /\ (gref'[h].st # "none" => gref[h].st # "none")
        BY <2>2, <2>3, <2>4
    <3> QED
        BY <2>2, <3>1, QrFacts DEF GatewayKnows, Drawn
  <2> QED
    BY <1>0, <2>2, <2>4, <2>5, <2>6, GatewayMoves
<1> QED
    BY <1>1, <1>2, <1>3, <1>4, <1>5 DEF RefundStep

LEMMA StepQr == QrInv /\ [Next]_vars => QrInv'
<1> SUFFICES ASSUME QrInv, [Next]_vars PROVE QrInv'
    OBVIOUS
<1>1. CASE Next
  <2>1. Tables' /\ MoneyInv' /\ GateInv'
    BY <1>1, StepOrder, StepPayment, StepWorker, StepRefund DEF Next
  <2>2. Books'
    BY <1>1, StepBooks
  <2> QED
    BY <2>1, <2>2 DEF QrInv, TypeOK, Tables, Books
<1>2. CASE UNCHANGED vars
  <2>1. MoneyInv'
    BY <1>2, RowsMoveMoney DEF RowsMove, Drawn, vars
  <2>2. GateInv'
    BY <1>2 DEF vars, QrInv, GateInv, GatewayKnows, RowKnows, WorkerKnows, Names, Drawn
  <2>3. TypeOK'
    BY <1>2 DEF vars, QrInv, TypeOK
  <2> QED
    BY <2>1, <2>2, <2>3 DEF QrInv
<1> QED
    BY <1>1, <1>2

-----------------------------------------------------------------------------
(* The theorems.                                                           *)

\* Orders, payments, refund rows, gateway refunds and workers hang together in every reachable state.
THEOREM QrInvariant == Spec => []QrInv
<1> QED
    BY InitQr, StepQr, PTL DEF Spec

\* Types: every table keeps its shape, whatever customers, gateway, workers and managers do.
THEOREM QrTypes == Spec => []TypeOK
<1>1. QrInv => TypeOK
    BY DEF QrInv
<1> QED
    BY <1>1, QrInvariant, PTL

\* lib/refunds.ts queueRefund and modules/qr settleCapture: a payment is billed or queued to go back,
\* never both, and never queued twice.
THEOREM MoneyKeptOrReturned == Spec => []KeptOrReturned
<1>1. QrInv => KeptOrReturned
  <2> SUFFICES ASSUME QrInv, NEW o \in Orders, NEW p \in Payments
               PROVE  /\ Cardinality(RefundOfPayment(o, p)) <= 1
                      /\ ord[o].pay = p => (ord[o].bill = "Live" <=> RefundOfPayment(o, p) = {})
    BY DEF KeptOrReturned
  <2>1. ASSUME NEW r \in RefundOfPayment(o, p), NEW s \in RefundOfPayment(o, p) PROVE s = r
    <3>1. /\ r \in Refunds /\ Drawn(r) /\ rfd[r].pay = p
          /\ s \in Refunds /\ Drawn(s) /\ rfd[s].pay = p
        BY DEF RefundOfPayment, RefundsOf, Drawn
    <3>2. RefundKnows(r)
        BY <3>1, QrFacts
    <3> QED
        BY <3>1, <3>2 DEF RefundKnows
  <2>2. ord[o].pay = p => (ord[o].bill = "Live" <=> RefundOfPayment(o, p) = {})
    BY QrFacts, NoIdAssumption DEF OrderKnows
  <2>3. Cardinality(RefundOfPayment(o, p)) <= 1
    <3>1. CASE RefundOfPayment(o, p) = {}
        BY <3>1, FS_EmptySet
    <3>2. CASE RefundOfPayment(o, p) # {}
      <4>1. PICK r : RefundOfPayment(o, p) = {r}
        BY <2>1, <3>2
      <4>2. Cardinality({r}) = 1
        BY FS_Singleton
      <4> QED
        BY <4>1, <4>2
    <3> QED
        BY <3>1, <3>2
  <2> QED
    BY <2>2, <2>3
<1> QED
    BY <1>1, QrInvariant, PTL

\* lib/refunds.ts sendRefund: the gateway refunds only payments a row returns, the row it names, and
\* no payment behind a live bill.
THEOREM OnlyOwedMoneyRefunded == Spec => []RefundsAtGatewayAreOwed
<1>1. QrInv => RefundsAtGatewayAreOwed
  <2> SUFFICES ASSUME QrInv, NEW g \in GRefunds, gref[g].st # "none"
               PROVE  /\ rfd[gref[g].rid].pay = gref[g].pay
                      /\ \A o \in Orders : ord[o].pay = gref[g].pay => ord[o].bill # "Live"
    BY DEF RefundsAtGatewayAreOwed
  <2> PICK r : r = gref[g].rid
    OBVIOUS
  <2> PICK p : p = gref[g].pay
    OBVIOUS
  <2>1. r \in Refunds /\ Drawn(r) /\ rfd[r].pay = p
    BY QrFacts DEF GatewayKnows
  <2>2. p \in Payments /\ gpay[p].ord = r[1]
    BY <2>1, QrFacts DEF RefundKnows
  <2>3. ASSUME NEW o \in Orders, ord[o].pay = p PROVE ord[o].bill # "Live"
    <3>1. p # NoId
        BY <2>2, NoIdAssumption
    <3>2. gpay[p].ord = o /\ (ord[o].bill = "Live" <=> RefundOfPayment(o, ord[o].pay) = {})
        BY <2>3, <3>1, QrFacts DEF OrderKnows
    <3>3. r \in RefundOfPayment(o, p)
        BY <2>1, <2>2, <3>2 DEF RefundOfPayment, RefundsOf, Drawn
    <3> QED
        BY <2>3, <3>2, <3>3
  <2> QED
    BY <2>1, <2>3
<1> QED
    BY <1>1, QrInvariant, PTL

\* lib/refunds.ts recordSent and settleRefund: a refund marked Processed did reach the customer, under
\* the gateway refund the row names, through crashes, lost answers and late webhooks.
THEOREM ProcessedRefundsArrived == Spec => []ProcessedIsTrue
<1>1. QrInv => ProcessedIsTrue
  <2> SUFFICES ASSUME QrInv, NEW r \in Refunds, rfd[r].st = "Processed"
               PROVE  gref[rfd[r].gid].st = "processed" /\ gref[rfd[r].gid].rid = r
    BY DEF ProcessedIsTrue
  <2>1. RowKnows(r)
    BY QrFacts
  <2> QED
    BY <2>1 DEF RowKnows, Names
<1> QED
    BY <1>1, QrInvariant, PTL

-----------------------------------------------------------------------------
(* One pod.                                                                *)

\* The gateway's refunds end; none begins.
LEMMA AloneStays ==
    ASSUME AloneInv, UNCHANGED wk,
           \A g \in GRefunds : /\ gref'[g].rid = gref[g].rid /\ gref'[g].pay = gref[g].pay
                               /\ gref[g].st = "none" <=> gref'[g].st = "none"
                               /\ gref[g].st = "failed" => gref'[g].st = "failed"
                               /\ gref'[g].st \in Outcomes \cup {"none"}
                               /\ gref[g].st \in Outcomes \cup {"none"}
    PROVE  AloneInv'
<1>1. ASSUME NEW r, LiveAtGateway(r) = {} PROVE LiveAtGateway(r)' = {}
  <2>1. ASSUME NEW g \in GRefunds, gref'[g].rid = r, gref'[g].st \in {"pending", "processed"}
        PROVE  g \in LiveAtGateway(r)
    BY <2>1 DEF LiveAtGateway, Outcomes
  <2> QED
    BY <1>1, <2>1 DEF LiveAtGateway
<1>2. ASSUME NEW w \in Pods, wk'[w].at = "none found" PROVE LiveAtGateway(wk[w].rid)' = {}
  <2>1. PICK r : r = wk[w].rid
    OBVIOUS
  <2>2. LiveAtGateway(r)' = {}
    BY <1>1, <1>2, <2>1 DEF AloneInv
  <2> QED
    BY <2>1, <2>2 DEF LiveAtGateway
<1> QED
    BY <1>2 DEF AloneInv

\* A refusal would be for a payment that another live gateway refund returns; that refund carries the
\* same row's name, and the worker would have found it.
LEMMA NeverRefused ==
    ASSUME QrInv, AloneInv, NEW w \in Pods, SendRefused(w)
    PROVE  FALSE
<1> PICK r : r = wk[w].rid
    OBVIOUS
<1>1. r \in Refunds /\ Drawn(r) /\ LiveAtGateway(r) = {}
    BY QrFacts DEF SendRefused, AloneInv, WorkerKnows
<1>2. PICK h \in GRefunds : gref[h].pay = rfd[r].pay /\ gref[h].st # "failed"
    BY DEF SendRefused
<1>3. rfd[r].pay \in Payments /\ rfd[r].pay # NoId
    BY <1>1, QrFacts, NoIdAssumption DEF RefundKnows
<1>4. gref[h].st # "none"
    BY <1>2, <1>3 DEF AloneInv
<1>5. gref[h].rid = r
    BY <1>1, <1>2, <1>4, QrFacts DEF GatewayKnows, RefundKnows
<1>6. gref[h].st \in {"pending", "processed"}
    BY <1>2, <1>4, QrFacts DEF GatewayRefundRow, Outcomes
<1> QED
    BY <1>1, <1>5, <1>6 DEF LiveAtGateway

LEMMA StepAlone ==
    ASSUME \A v, w \in Pods : v = w, QrInv, AloneInv, [Next]_vars
    PROVE  AloneInv'
<1>1. \A g \in GRefunds : gref[g].st \in Outcomes \cup {"none"}
    BY QrFacts DEF GatewayRefundRow
<1>2. CASE UNCHANGED <<wk, gref>>
    BY <1>1, <1>2, AloneStays
<1>3. ASSUME NEW g \in GRefunds, NEW st \in {"processed", "failed"}, GatewaySettles(g, st)
      PROVE  AloneInv'
  <2>1. gref[g].st = "pending" /\ gref' = [gref EXCEPT ![g].st = st] /\ UNCHANGED wk
    BY <1>3 DEF GatewaySettles
  <2>2. ASSUME NEW h \in GRefunds
        PROVE  /\ gref'[h].rid = gref[h].rid /\ gref'[h].pay = gref[h].pay
               /\ h # g => gref'[h].st = gref[h].st
               /\ h = g => gref'[h].st = st
    BY <2>1, QrFacts DEF GatewayRefundRow
  <2> QED
    BY <1>1, <2>1, <2>2, AloneStays DEF Outcomes
<1>4. ASSUME NEW w \in Pods, WorkerStep(w) \/ Crash(w) PROVE AloneInv'
  <2>1. wk \in [Pods -> WorkerRow] /\ wk[w] \in WorkerRow /\ \A v \in Pods : v = w
    BY QrFacts
  <2>2. CASE gref' = gref /\ wk'[w].at \notin {"none found", "refused"}
    BY <2>1, <2>2 DEF AloneInv
  <2>3. CASE AskPrior(w)
    <3>1. CASE LiveAtGateway(wk[w].rid) = {} /\ wk' = [wk EXCEPT ![w].at = "none found"]
      <4>1. gref' = gref /\ wk'[w].at = "none found" /\ wk'[w].rid = wk[w].rid
        BY <2>1, <2>3, <3>1 DEF AskPrior, WorkerRow
      <4>2. LiveAtGateway(wk[w].rid)' = LiveAtGateway(wk[w].rid)
        BY <4>1 DEF LiveAtGateway
      <4> QED
        BY <2>1, <3>1, <4>1, <4>2 DEF AloneInv
    <3>2. ASSUME NEW g, wk' = [wk EXCEPT ![w].at = "answered", ![w].gid = g, ![w].said = gref[g].st]
          PROVE  AloneInv'
      <4>1. wk' = [wk EXCEPT ![w] = [wk[w] EXCEPT !.at = "answered", !.gid = g, !.said = gref[g].st]]
        BY <2>1, <3>2 DEF WorkerRow
      <4>2. wk'[w].at = "answered" /\ gref' = gref
        BY <2>1, <2>3, <4>1 DEF AskPrior, WorkerRow
      <4> QED
        BY <2>2, <4>2
    <3> QED
        BY <2>3, <3>1, <3>2 DEF AskPrior
  <2>4. ASSUME NEW g \in GRefunds, NEW st \in Outcomes, NEW answered \in BOOLEAN, Send(w, g, st, answered)
        PROVE  AloneInv'
    <3>1. wk'[w].at \in {"answered", "error"}
      <4>1. CASE answered
        <5>1. wk' = [wk EXCEPT ![w] = [wk[w] EXCEPT !.at = "answered", !.gid = g, !.said = st]]
            BY <2>1, <2>4, <4>1 DEF Send, WorkerRow
        <5> QED
            BY <2>1, <5>1 DEF WorkerRow
      <4>2. CASE ~answered
        BY <2>1, <2>4, <4>2 DEF Send, WorkerRow
      <4> QED
        BY <4>1, <4>2
    <3>2. gref' = [gref EXCEPT ![g] = [st |-> st, rid |-> wk[w].rid, pay |-> rfd[wk[w].rid].pay]]
        BY <2>4 DEF Send
    <3>3. \A h \in GRefunds : (h # g => gref'[h] = gref[h]) /\ (h = g => gref'[h].st = st)
        BY <3>2, QrFacts
    <3> QED
        BY <2>1, <3>1, <3>3 DEF AloneInv, Outcomes
  <2>5. ASSUME NEW r \in Refunds, Claim(w, r) PROVE AloneInv'
    <3>1. wk'[w].at = "claimed" /\ gref' = gref
        BY <2>1, <2>5 DEF Claim, IdleWorker
    <3> QED
        BY <2>2, <3>1
  <2>6. ASSUME NEW final \in BOOLEAN, GatewayError(w, final) PROVE AloneInv'
    <3>1. wk'[w].at = "error" /\ gref' = gref
        BY <2>1, <2>6 DEF GatewayError, WorkerRow
    <3> QED
        BY <2>2, <3>1
  <2>7. CASE RecordSent(w) \/ DeferRefund(w) \/ Crash(w)
    <3>1. wk'[w].at = "idle" /\ gref' = gref
        BY <2>1, <2>7 DEF RecordSent, DeferRefund, Crash, IdleWorker
    <3> QED
        BY <2>2, <3>1
  <2> QED
    BY <1>4, <2>3, <2>4, <2>5, <2>6, <2>7, NeverRefused DEF WorkerStep
<1>5. CASE OrderStep \/ PaymentStep
  <2>1. UNCHANGED <<wk, gref>>
    BY <1>5 DEF OrderStep, Place, OpenCheckout, Expire, SetStatus, VoidBill, ReconcileAsk, ReconcileFails,
                PaymentStep, Pay, AutoCapture, Take, Verify, Reconcile, WebhookPayment
  <2> QED
    BY <1>2, <2>1
<1>6. CASE RefundStep
    BY <1>2, <1>3, <1>6 DEF RefundStep, ComeDue, PollRefund, RetryRefund, WebhookRefund
<1> QED
    BY <1>2, <1>4, <1>5, <1>6 DEF Next, vars

\* lib/refunds.ts claimDueRefunds: one worker that asks for an earlier send before it makes one is
\* never refused as a second send, through its crashes, lost answers and retries.
THEOREM OnePodNeverSendsTwice ==
    ASSUME \A v, w \in Pods : v = w
    PROVE  Spec => []NeverSentTwice
<1>1. Init => AloneInv
  <2> SUFFICES ASSUME Init PROVE AloneInv
    OBVIOUS
  <2>1. \A g \in GRefunds : gref[g].pay = NoId
    BY DEF Init
  <2>2. \A w \in Pods : wk[w].at = "idle"
    BY DEF Init, IdleWorker
  <2> QED
    BY <2>1, <2>2 DEF AloneInv
<1>2. QrInv /\ AloneInv /\ [Next]_vars => AloneInv'
    BY StepAlone
<1>3. AloneInv => NeverSentTwice
    BY DEF AloneInv, NeverSentTwice
<1> QED
    BY <1>1, <1>2, <1>3, QrInvariant, PTL DEF Spec
=============================================================================
