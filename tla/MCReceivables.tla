---------------------------- MODULE MCReceivables ----------------------------
(***************************************************************************)
(* Instances of Receivables for TLC.  Payers, settlement numbers and       *)
(* connections are only ever compared; bills are not, their numbers are    *)
(* the order of their `at`.                                                *)
(***************************************************************************)
EXTENDS Receivables, TLC

Symmetry == Permutations(Payers) \cup Permutations(Settlements) \cup Permutations(Txns)
=============================================================================
