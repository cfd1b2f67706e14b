-------------------------------- MODULE Shelf --------------------------------
(***************************************************************************)
(* What lib/ledger.ts and lib/reservations.ts promise together, with the   *)
(* documents left out: a shelf has a balance and a part of it held, only   *)
(* free stock is held or taken, held stock leaves with its hold, and one   *)
(* step touches one location.                                              *)
(***************************************************************************)
EXTENDS Integers

CONSTANTS Locs, Items, MaxQty

VARIABLES bal, held

shelfVars == <<bal, held>>

Qty == [Items -> 0..MaxQty]

Add(f, l, q) == [f EXCEPT ![l] = [i \in Items |-> @[i] + q[i]]]
Sub(f, l, q) == [f EXCEPT ![l] = [i \in Items |-> @[i] - q[i]]]

IsFree(l, q) == \A i \in Items : held[l][i] + q[i] <= bal[l][i]
IsHeld(l, q) == \A i \in Items : q[i] <= held[l][i]

Empty == [l \in Locs |-> [i \in Items |-> 0]]

ShelfInit == bal = Empty /\ held = Empty

\* A ticket is written: free stock becomes held stock.
Hold(l, q) == UNCHANGED bal /\ IsFree(l, q) /\ held' = Add(held, l, q)

\* A ticket is cancelled: held stock is free again, where it stands.
Release(l, q) == UNCHANGED bal /\ IsHeld(l, q) /\ held' = Sub(held, l, q)

\* A ticket is handed over: held stock leaves the shelf and the hold goes with it.
Collect(l, q) == bal' = Sub(bal, l, q) /\ IsHeld(l, q) /\ held' = Sub(held, l, q)

\* Anything else: free stock goes out, any stock comes in, no hold changes.
Post(l, out, in) ==
    bal' = Add(Sub(bal, l, out), l, in) /\ IsFree(l, out) /\ UNCHANGED held

ShelfNext ==
    \E l \in Locs :
        \/ \E q \in Qty : Hold(l, q) \/ Release(l, q) \/ Collect(l, q)
        \/ \E out, in \in Qty : Post(l, out, in)

ShelfSpec == ShelfInit /\ [][ShelfNext]_shelfVars
=============================================================================
