------------------------------- MODULE MCFeeds -------------------------------
(***************************************************************************)
(* Three lines that must keep moving, explored side by side by one instance *)
(* for TLC: QR refunds on their way to the customer, audit rows on their   *)
(* way to the log, change notices on their way to a screen.  A behaviour   *)
(* belongs to one of them and the others stand still in it, in states in   *)
(* which nothing their fairness speaks of is due.                          *)
(***************************************************************************)
EXTENDS MCQrPayments, AuditTrail, WebClient

VARIABLE part

\* A tab nobody is signed in on: nothing of the client is due.
SignedOut == [token |-> Nobody, user |-> Nobody, auth |-> "signed-out", loaded |-> FALSE, leaving |-> FALSE]

FeedsInit ==
    /\ part \in {"refunds", "audit", "client"}
    /\ Init /\ AuditInit
    /\ \/ part = "client" /\ ClientInit
       \/ part # "client" /\ ClientStart(Nobody, SignedOut)

FeedsNext ==
    /\ UNCHANGED part
    /\ \/ part = "refunds" /\ Next /\ UNCHANGED <<auditVars, clientVars>>
       \/ part = "audit" /\ AuditNext /\ UNCHANGED <<vars, clientVars>>
       \/ part = "client" /\ ClientNext /\ UNCHANGED <<vars, auditVars>>

FeedsSpec ==
    /\ FeedsInit /\ [][FeedsNext]_<<part, vars, auditVars, clientVars>>
    /\ Fairness /\ DrainFairness /\ ClientFairness
=============================================================================
