------------------------------ MODULE MCCounter ------------------------------
(***************************************************************************)
(* The counter's money, explored side by side by one instance for TLC: a   *)
(* behaviour belongs to one part and the others stand still in it.         *)
(*   "pods"   one QR payment, and pods that work its refund together       *)
(*   "money"  several QR payments of one order, one refund worker at a time *)
(*   "till"   the open bills of the Pos screen                             *)
(***************************************************************************)
EXTENDS MCQrPayments, Till

VARIABLE part

\* The bounds of the two QR parts.
OnePayment == Cardinality({p \in Payments : gpay[p].st # "none"}) <= 1
OneWorker ==
    /\ Cardinality({w \in Pods : wk[w].at # "idle"}) <= 1
    /\ Cardinality({g \in GRefunds : gref[g].st # "none"}) <= 1
    /\ \A r \in Refunds : rfd[r].attempts <= 1

CounterInit ==
    /\ part \in {"pods", "money", "till"}
    /\ Init /\ TillInit

CounterNext ==
    /\ UNCHANGED part
    /\ \/ part = "pods" /\ Next /\ OnePayment' /\ UNCHANGED tillVars
       \/ part = "money" /\ Next /\ OneWorker' /\ UNCHANGED tillVars
       \/ part = "till" /\ TillNext /\ UNCHANGED vars

CounterSpec == CounterInit /\ [][CounterNext]_<<part, vars, tillVars>>
=============================================================================
