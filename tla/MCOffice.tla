------------------------------ MODULE MCOffice ------------------------------
(***************************************************************************)
(* Four components that share nothing, explored side by side by one        *)
(* instance for TLC: a behaviour belongs to one part and the others stand  *)
(* still in it.                                                            *)
(*   "accounts"   what payers owe, and what they pay                       *)
(*   "contracts"  the rates agreed with a vendor                           *)
(*   "readers"    the audit list on a screen, and its export               *)
(*   "desks"      seven desks around one document                          *)
(***************************************************************************)
EXTENDS MCReceivables, RateContracts, AuditList, Desks

VARIABLE part

\* Nobody of interest, looking at nothing they can press.
DeskEmpty == sits.desk = "admin" /\ paper.k = "contract"

OfficeInit ==
    /\ part \in {"accounts", "contracts", "readers", "desks"}
    /\ Init /\ ContractsInit /\ ListInit /\ DesksInit
    /\ part = "accounts" \/ limit = [p \in Payers |-> NoLimit]
    /\ part = "desks" \/ DeskEmpty

OfficeNext ==
    /\ UNCHANGED part
    /\ \/ part = "accounts" /\ Next /\ UNCHANGED <<contractVars, listVars, deskVars>>
       \/ part = "contracts" /\ ContractsNext /\ UNCHANGED <<vars, listVars, deskVars>>
       \/ part = "readers" /\ ListNext /\ UNCHANGED <<vars, contractVars, deskVars>>
       \/ part = "desks" /\ DesksNext /\ UNCHANGED <<vars, contractVars, listVars>>

OfficeSpec == OfficeInit /\ [][OfficeNext]_<<part, vars, contractVars, listVars, deskVars>>

-----------------------------------------------------------------------------
(* Properties: those of Desks, for the part they speak of.                 *)

\* What a screen shows is what the server will do (Desks ScreensKeepTheirWord).
DeskScreensKeepTheirWord == part = "desks" => ScreensKeepTheirWord

\* No document waits on nobody (Desks NobodyStuck).
DeskNobodyStuck == part = "desks" => NobodyStuck

\* No role hands goods over to itself (Desks TwoPeopleHandOver).
DeskTwoPeopleHandOver == part = "desks" => TwoPeopleHandOver

\* What a role may do it can see, and what it is told to ask for can be given (Desks RolesReachTheirWork).
DeskRolesReachTheirWork == part = "desks" => RolesReachTheirWork
=============================================================================
