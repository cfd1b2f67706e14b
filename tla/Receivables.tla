----------------------------- MODULE Receivables -----------------------------
(***************************************************************************)
(* Credit accounts: bills charged to a payer, the ceiling a sale is held   *)
(* to, settlements laid over the open bills oldest first, and the voids of *)
(* both (lib/sale.ts, lib/credit.ts, modules/receivables, modules/pos).    *)
(*                                                                         *)
(* A sale and a payment read under the payer's advisory lock and write     *)
(* later in the same transaction, so each is split at its reads; tx holds  *)
(* what an open transaction has read.  The void of a bill reads and writes *)
(* under the bill's own row lock, and takes no payer lock.                 *)
(*                                                                         *)
(* Money is a natural number of paise, which is what round2 keeps.  Bills  *)
(* are numbered by their `at`, taken before any lock: a sale draws any     *)
(* unused one, so the order bills commit in may differ from it.  All of it *)
(* is one hospital day, the day on which both voids are allowed.           *)
(***************************************************************************)
EXTENDS Integers, FiniteSets

CONSTANTS
    Payers,
    NBills,         \* bound: the bills charged in the day
    Settlements,
    Txns,           \* bound: transactions open at once
    MaxTotal,       \* bound: the largest bill
    Limits,         \* the ceilings a manager may set
    NoLimit

Bills == 1..NBills
MaxMoney == NBills * MaxTotal

ASSUME BillAssumption == NBills \in Nat /\ MaxTotal \in Nat
ASSUME LimitAssumption == Limits \subseteq Nat /\ NoLimit \notin Nat
ASSUME SettlementAssumption == IsFiniteSet(Settlements)

VARIABLES
    bill,       \* bills on account: who owes them and how much
    stl,        \* settlements and the allocation each one stored
    limit,      \* the payer's ceiling as termsFor resolves it
    tx          \* what each open transaction has read

vars == <<bill, stl, limit, tx>>

Least(a, b) == IF a <= b THEN a ELSE b

\* The sum of a function of small naturals: one element for each paisa.
Sum(f) == Cardinality({u \in (DOMAIN f) \X (1..MaxMoney) : u[2] <= f[u[1]]})

NoLines == [b \in Bills |-> 0]

-----------------------------------------------------------------------------
(* The two halves of a balance, lib/credit.ts.                             *)

Charged(p) == Sum([b \in Bills |-> IF bill[b].st = "Live" /\ bill[b].payer = p
                                   THEN bill[b].total ELSE 0])

Settled(p) == Sum([s \in Settlements |-> IF stl[s].st = "Live" /\ stl[s].payer = p
                                         THEN stl[s].amount ELSE 0])

\* outstandingFor: never below zero.
OutstandingFor(p) ==
    LET charged == Charged(p)
    IN  charged - Least(charged, Settled(p))

\* What settlements nobody voided have closed of a bill.
LiveSettled(b) == Sum([s \in Settlements |-> IF stl[s].st = "Live" THEN stl[s].lines[b] ELSE 0])

\* openBillsFor's `settled`: the join drops a voided settlement's row but keeps its line, and the
\* sum is over the lines, so a voided settlement's lines count too.
SettledColumn(b) == Sum([s \in Settlements |-> stl[s].lines[b]])

OpenBillsOfAnybody(p) ==
    [b \in Bills |-> IF bill[b].st = "Live" /\ SettledColumn(b) < bill[b].total
                     THEN bill[b].total - SettledColumn(b) ELSE 0]

\* openBillsFor: what is owed on each of a payer's live bills; a bill paid off is dropped.
OpenBillsFor(p) ==
    [b \in Bills |-> IF bill[b].st = "Live" /\ bill[b].payer = p /\ SettledColumn(b) < bill[b].total
                     THEN bill[b].total - SettledColumn(b) ELSE 0]

AllocateInFull(open, amount) ==
    [lines |-> [b \in Bills |-> Least(open[b], amount)], left |-> 0]

AllocateNewestFirst(open, amount) ==
    LET left[n \in 0..NBills] ==
            IF n = 0 THEN amount
            ELSE left[n - 1] - Least(open[NBills + 1 - n], left[n - 1])
    IN  [lines |-> [b \in Bills |-> Least(open[b], left[NBills - b])], left |-> left[NBills]]

AllocatePastZero(open, amount) ==
    LET left[n \in 0..NBills] == IF n = 0 THEN amount ELSE left[n - 1] - open[n]
    IN  [lines |-> [b \in Bills |-> Least(open[b], left[b - 1])], left |-> 0]

\* allocateSettlement: the payment walks the open bills by `at`; `left` is what is still in hand.
AllocateSettlement(open, amount) ==
    LET left[n \in 0..NBills] ==
            IF n = 0 THEN amount ELSE left[n - 1] - Least(open[n], left[n - 1])
    IN  [lines |-> [b \in Bills |-> Least(open[b], left[b - 1])], left |-> left[NBills]]

BreachesCredit(outstanding, total, lim) == lim # NoLimit /\ outstanding + total > lim

-----------------------------------------------------------------------------
(* Transactions.                                                           *)

Idle == [at |-> "idle", payer |-> NoLimit, bill |-> 0, money |-> 0, limit |-> NoLimit,
         lines |-> NoLines]

UnderLock == {"balance read", "owed read", "bills read"}

\* lockPayerCredit: held from the first read under it to the end of the transaction.
NobodyWaits(p) == TRUE
PayerFree(p) == \A k \in Txns : tx[k].at \in UnderLock => tx[k].payer # p

Untaken(b) == bill[b].st = "Not drawn" /\ \A k \in Txns : tx[k].bill # b

\* A sale on account reads the rate card before it queues for the payer's lock.
SaleReadTerms(k, p, b, total) ==
    /\ tx[k].at = "idle"
    /\ Untaken(b)
    /\ tx' = [tx EXCEPT ![k] = [Idle EXCEPT !.at = "terms read", !.payer = p, !.bill = b,
                                            !.money = total, !.limit = limit[p]]]
    /\ UNCHANGED <<bill, stl, limit>>

SaleReadBalance(k) ==
    /\ tx[k].at = "terms read"
    /\ PayerFree(tx[k].payer)
    /\ ~BreachesCredit(OutstandingFor(tx[k].payer), tx[k].money, tx[k].limit)
    /\ tx' = [tx EXCEPT ![k].at = "balance read"]
    /\ UNCHANGED <<bill, stl, limit>>

SaleCommit(k) ==
    /\ tx[k].at = "balance read"
    /\ bill' = [bill EXCEPT ![tx[k].bill] = [st |-> "Live", payer |-> tx[k].payer,
                                             total |-> tx[k].money]]
    /\ tx' = [tx EXCEPT ![k] = Idle]
    /\ UNCHANGED <<stl, limit>>

\* A payment: the balance, then the bills row by row, then the settlement with its allocation.
\* More than is owed is refused.
RecordReadOwed(k, p) ==
    /\ tx[k].at = "idle"
    /\ PayerFree(p)
    /\ \E amount \in 1..OutstandingFor(p) :
          tx' = [tx EXCEPT ![k] = [Idle EXCEPT !.at = "owed read", !.payer = p, !.money = amount]]
    /\ UNCHANGED <<bill, stl, limit>>

RecordReadBills(k) ==
    LET plan == AllocateSettlement(OpenBillsFor(tx[k].payer), tx[k].money)
    IN  /\ tx[k].at = "owed read"
        /\ plan.left = 0
        /\ tx' = [tx EXCEPT ![k].at = "bills read", ![k].lines = plan.lines]
        /\ UNCHANGED <<bill, stl, limit>>

RecordCommit(k, s) ==
    /\ tx[k].at = "bills read"
    /\ stl[s].st = "Not drawn"
    /\ stl' = [stl EXCEPT ![s] = [st |-> "Live", payer |-> tx[k].payer, amount |-> tx[k].money,
                                  lines |-> tx[k].lines]]
    /\ tx' = [tx EXCEPT ![k] = Idle]
    /\ UNCHANGED <<bill, limit>>

\* A refusal, a dropped connection or a crash.
Rollback(k) ==
    /\ tx[k].at # "idle"
    /\ tx' = [tx EXCEPT ![k] = Idle]
    /\ UNCHANGED <<bill, stl, limit>>

\* voidBill: refused while liveSettlementOf finds a payment on it.
VoidBill(b) ==
    /\ bill[b].st = "Live"
    /\ LiveSettled(b) = 0
    /\ bill' = [bill EXCEPT ![b].st = "Voided"]
    /\ UNCHANGED <<stl, limit, tx>>

VoidSettlement(s) ==
    /\ stl[s].st = "Live"
    /\ PayerFree(stl[s].payer)
    /\ stl' = [stl EXCEPT ![s].st = "Voided"]
    /\ UNCHANGED <<bill, limit, tx>>

\* setClassTerms and setPayerTerms, as what they make of one payer's ceiling.
SetTerms(p, lim) ==
    /\ limit[p] # lim
    /\ limit' = [limit EXCEPT ![p] = lim]
    /\ UNCHANGED <<bill, stl, tx>>

-----------------------------------------------------------------------------
Init ==
    /\ bill = [b \in Bills |-> [st |-> "Not drawn", payer |-> NoLimit, total |-> 0]]
    /\ stl = [s \in Settlements |-> [st |-> "Not drawn", payer |-> NoLimit, amount |-> 0,
                                     lines |-> NoLines]]
    /\ limit \in [Payers -> Limits \cup {NoLimit}]
    /\ tx = [k \in Txns |-> Idle]

SaleStep ==
    \E k \in Txns :
        \/ \E p \in Payers, b \in Bills, total \in 1..MaxTotal : SaleReadTerms(k, p, b, total)
        \/ SaleReadBalance(k)
        \/ SaleCommit(k)

RecordStep ==
    \E k \in Txns :
        \/ \E p \in Payers : RecordReadOwed(k, p)
        \/ RecordReadBills(k)
        \/ \E s \in Settlements : RecordCommit(k, s)

VoidStep == (\E b \in Bills : VoidBill(b)) \/ (\E s \in Settlements : VoidSettlement(s))

Next ==
    \/ SaleStep
    \/ RecordStep
    \/ VoidStep
    \/ \E k \in Txns : Rollback(k)
    \/ \E p \in Payers, lim \in Limits \cup {NoLimit} : SetTerms(p, lim)

Spec == Init /\ [][Next]_vars

-----------------------------------------------------------------------------
(* Properties.                                                             *)

Money == 0..MaxMoney
Allocation == [Bills -> Money]
BillRow == [st : {"Not drawn", "Live", "Voided"}, payer : Payers \cup {NoLimit},
            total : 0..MaxTotal]
SettlementRow == [st : {"Not drawn", "Live", "Voided"}, payer : Payers \cup {NoLimit},
                  amount : Money, lines : Allocation]
TxnRow == [at : {"idle", "terms read"} \cup UnderLock, payer : Payers \cup {NoLimit},
           bill : 0..NBills, money : Money, limit : Limits \cup {NoLimit}, lines : Allocation]

\* Types.
TypeOK ==
    /\ bill \in [Bills -> BillRow]
    /\ stl \in [Settlements -> SettlementRow]
    /\ limit \in [Payers -> Limits \cup {NoLimit}]
    /\ tx \in [Txns -> TxnRow]

\* No bill is paid twice: what the settlements of all tills put on a bill never passes its total,
\* and they only ever pay bills of their own payer.
NoOverAllocation ==
    \A b \in Bills :
        /\ LiveSettled(b) <= bill[b].total
        /\ \A s \in Settlements : stl[s].lines[b] > 0 => stl[s].payer = bill[b].payer

\* A payment goes somewhere to the last paisa: a settlement's stored lines add up to its amount.
AllocationAddsUp == \A s \in Settlements : Sum(stl[s].lines) = stl[s].amount

\* The ceiling holds against racing tills: when a sale on account commits, what its payer then
\* owes fits the ceiling that sale read, whatever sales, payments and voids ran since.
CreditCeilingAtSale ==
    [][\A k \in Txns, b \in Bills, p \in Payers :
          /\ bill[b].st = "Not drawn" /\ bill'[b].st = "Live"
          /\ tx[k].bill = b /\ tx[k].payer = p /\ tx[k].limit # NoLimit
          => OutstandingFor(p)' <= tx[k].limit]_vars

\* Oldest first: when a payment commits, a bill that was open when it read them and is older than
\* one it touched has nothing left open, so at most its newest bill is part paid.
OldestFirst ==
    [][\A s \in Settlements : stl[s].st = "Not drawn" /\ stl'[s].st = "Live" =>
          \A b, c \in Bills :
              /\ b < c /\ stl'[s].lines[c] > 0
              /\ bill[b].st = "Live" /\ bill[b].payer = stl'[s].payer
              => SettledColumn(b)' = bill[b].total]_vars

\* pos/service.ts refuses to void a settled bill, because that "would leave the payment sitting
\* against nothing": no live settlement pays a voided bill.
SettledBillsAreLive == \A b \in Bills : LiveSettled(b) > 0 => bill[b].st = "Live"

\* receivables/service.ts: a voided settlement's "allocation stops closing the bills it closed, so
\* they reopen": what a payer's open bills show is the total less the live settlements.
VoidedSettlementReopensBills ==
    \A b \in Bills : bill[b].st = "Live" =>
        OpenBillsFor(bill[b].payer)[b] = bill[b].total - LiveSettled(b)
=============================================================================
