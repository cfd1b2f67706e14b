---------------------------- MODULE MCStaffRoom ----------------------------
(***************************************************************************)
(* Four back-office components that share nothing, explored side by side   *)
(* by one instance for TLC: a behaviour belongs to one part and the others *)
(* stand still in it.                                                      *)
(***************************************************************************)
EXTENDS Sessions, Staff, Buying, Idempotency, TLC

VARIABLE part

\* The counter works at the shop, the kitchen at the kitchen.
TwoDesks == [counter |-> Outlets, prod |-> {"kitchen"}]
\* Calls, orders and vendors are only ever compared.
StaffRoomSymmetry == Permutations(Calls) \cup Permutations(Orders) \cup Permutations(Vendors)
\* Every requisition asks for the one thing, so that one order can draw on two.
AskedMilk == [r \in Requisitions |-> "milk"]

SomeRole == CHOOSE r \in StaffRoles : TRUE
SomeShop == CHOOSE l \in Outlets : TRUE

StaffRoomInit ==
    /\ part \in {"sessions", "staff", "buying", "key"}
    /\ SessionsInit /\ StaffInit /\ BuyingInit /\ Init
    /\ part # "staff" => person[1].role = SomeRole /\ person[1].desk = "counter" /\ person[1].home = SomeShop

StaffRoomNext ==
    /\ UNCHANGED part
    /\ \/ part = "sessions" /\ SessionsNext /\ UNCHANGED <<staffVars, buyingVars, vars>>
       \/ part = "staff" /\ StaffNext /\ UNCHANGED <<sessionVars, buyingVars, vars>>
       \/ part = "buying" /\ BuyingNext /\ UNCHANGED <<sessionVars, staffVars, vars>>
       \/ part = "key" /\ Next /\ UNCHANGED <<sessionVars, staffVars, buyingVars>>

StaffRoomSpec == StaffRoomInit /\ [][StaffRoomNext]_<<part, sessionVars, staffVars, buyingVars, vars>>
=============================================================================
