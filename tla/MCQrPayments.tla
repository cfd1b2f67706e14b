---------------------------- MODULE MCQrPayments ----------------------------
(***************************************************************************)
(* Instances of QrPayments for TLC.  Payments, the gateway's refund ids    *)
(* and pods are only ever compared; the symmetry is for the safety runs.   *)
(***************************************************************************)
EXTENDS QrPayments, TLC

Symmetry == Permutations(Payments) \cup Permutations(GRefunds) \cup Permutations(Pods)
=============================================================================
