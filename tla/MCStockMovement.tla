--------------------------- MODULE MCStockMovement ---------------------------
(***************************************************************************)
(* Instances of StockMovement for TLC.  Each configuration sizes the sets  *)
(* of documents to the paths it is about; an empty set switches a path     *)
(* off.  Documents, outlets and tickets are only ever compared, so they    *)
(* are interchangeable.                                                    *)
(***************************************************************************)
EXTENDS StockMovement, TLC

Symmetry == Permutations(Requests) \cup Permutations(Asks) \cup Permutations(Orders)
                \cup Permutations(Tickets) \cup Permutations(Bills)
=============================================================================
