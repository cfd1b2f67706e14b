---------------------------- MODULE RateContracts ----------------------------
(***************************************************************************)
(* Rate contracts and the trail of their rates (modules/contracts,         *)
(* lib/contract-rates.ts).  A contract's rate moves through two doors: the *)
(* contract's own screen, and a draft order priced away from it.  Both     *)
(* lock the contract's row before they read its rate, and hold it to the   *)
(* commit; a write is here the read under that lock and the commit.        *)
(*                                                                         *)
(* All the contracts are of one vendor and one item: no write relates two  *)
(* pairs, and for one pair at most one contract may be live.               *)
(***************************************************************************)
EXTENDS Integers, Sequences, FiniteSets

CONSTANTS
    Contracts,
    Rates,
    RateWrites,         \* bound: writes in flight at once
    MaxTrail            \* bound: rate changes of one contract

\* An idle write holds no contract.
ASSUME ContractAssumption == "none" \notin Contracts

VARIABLES
    con,        \* rate_contracts: written, live, rate
    trail,      \* rate_contract_changes, oldest first
    write       \* writes in flight: the row they hold and the rate they read of it

contractVars == <<con, trail, write>>

NoWrite == [at |-> "idle", con |-> "none", old |-> 0, new |-> 0, on |-> FALSE]

HoldNothing(c) == TRUE
\* head and lockLiveContracts read FOR UPDATE.
ContractFree(c) == \A w \in RateWrites : write[w].con # c

LiveContracts == {c \in Contracts : con[c].there /\ con[c].live}
\* rate_contracts_live_uq.
LiveUnique(c) == LiveContracts \ {c} = {}

\* create: the partial unique index decides, and an insert that loses writes nothing.
CreateContract(c, rate) ==
    /\ ~con[c].there
    /\ LiveUnique(c)
    /\ con' = [con EXCEPT ![c] = [there |-> TRUE, live |-> TRUE, rate |-> rate, first |-> rate]]
    /\ UNCHANGED <<trail, write>>

\* patch: the row is locked and read.  To reactivate, liveFor also locks any live contract of the
\* pair, and refuses when there is one.
PatchContractRead(w, c, rate, on) ==
    /\ write[w].at = "idle"
    /\ con[c].there /\ ContractFree(c)
    /\ on /\ ~con[c].live => LiveUnique(c)
    /\ write' = [write EXCEPT ![w] = [at |-> "patch", con |-> c, old |-> con[c].rate, new |-> rate, on |-> on]]
    /\ UNCHANGED <<con, trail>>

\* A rate that did not change leaves no row.
LogRateChange(c, old, new) ==
    IF old = new THEN trail ELSE [trail EXCEPT ![c] = Append(@, [old |-> old, new |-> new])]

\* The update; the index refuses the loser of two reactivations, and its transaction with it.
PatchContractCommit(w) ==
    LET c == write[w].con
    IN  /\ write[w].at = "patch"
        /\ Len(trail[c]) < MaxTrail
        /\ write' = [write EXCEPT ![w] = NoWrite]
        /\ IF write[w].on /\ ~LiveUnique(c) THEN UNCHANGED <<con, trail>>
           ELSE /\ con' = [con EXCEPT ![c].rate = write[w].new, ![c].live = write[w].on]
                /\ trail' = LogRateChange(c, write[w].old, write[w].new)

\* An order's write (create or updateLine) with a typed rate: lockLiveContracts.
PriceOrderRead(w, c, rate) ==
    /\ write[w].at = "idle"
    /\ c \in LiveContracts /\ ContractFree(c)
    /\ write' = [write EXCEPT ![w] = [at |-> "order", con |-> c, old |-> con[c].rate, new |-> rate, on |-> TRUE]]
    /\ UNCHANGED <<con, trail>>

\* syncContractRates.
SyncContractRates(w) ==
    LET c == write[w].con
    IN  /\ write[w].at = "order"
        /\ Len(trail[c]) < MaxTrail
        /\ con' = [con EXCEPT ![c].rate = write[w].new]
        /\ trail' = LogRateChange(c, write[w].old, write[w].new)
        /\ write' = [write EXCEPT ![w] = NoWrite]

\* remove: the contract is closed and stays.
CloseContract(c) ==
    /\ con[c].there /\ ContractFree(c)
    /\ con' = [con EXCEPT ![c].live = FALSE]
    /\ UNCHANGED <<trail, write>>

\* The order's transaction is refused further on, or the connection drops.
WriteAbandoned(w) ==
    /\ write[w].at # "idle"
    /\ write' = [write EXCEPT ![w] = NoWrite]
    /\ UNCHANGED <<con, trail>>

ContractsInit ==
    /\ con = [c \in Contracts |-> [there |-> FALSE, live |-> FALSE, rate |-> 0, first |-> 0]]
    /\ trail = [c \in Contracts |-> <<>>]
    /\ write = [w \in RateWrites |-> NoWrite]

ContractsNext ==
    \/ \E c \in Contracts :
        \/ CloseContract(c)
        \/ \E rate \in Rates :
            \/ CreateContract(c, rate)
            \/ \E w \in RateWrites : PriceOrderRead(w, c, rate)
                                       \/ \E on \in BOOLEAN : PatchContractRead(w, c, rate, on)
    \/ \E w \in RateWrites : PatchContractCommit(w) \/ SyncContractRates(w) \/ WriteAbandoned(w)

ContractsSpec == ContractsInit /\ [][ContractsNext]_contractVars

\* The trail tells the whole story of a rate, whichever door a change came through: it starts at
\* the rate the contract was written with, every change starts where the one before it ended, and
\* the last one ends at the rate the contract has.
TrailTellsTheRate ==
    \A c \in Contracts : con[c].there =>
        LET n == Len(trail[c])
        IN  /\ \A k \in 1..n : trail[c][k].old = (IF k = 1 THEN con[c].first ELSE trail[c][k - 1].new)
            /\ con[c].rate = (IF n = 0 THEN con[c].first ELSE trail[c][n].new)
=============================================================================
