----------------------------- MODULE MCRegister -----------------------------
(***************************************************************************)
(* Instances of Register for TLC.  Outlets, tills, sessions and bills are  *)
(* only ever compared.                                                     *)
(***************************************************************************)
EXTENDS Register, TLC

Symmetry == Permutations(Outlets) \cup Permutations(Tills) \cup Permutations(Sessions)
                \cup Permutations(Bills)
=============================================================================
