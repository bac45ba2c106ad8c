-------------------------- MODULE MCPurchaseOrders --------------------------
(***************************************************************************)
(* Two orders of one SKU for one location that has no row of it yet; one   *)
(* vote approves.                                                          *)
(***************************************************************************)
EXTENDS PurchaseOrders, TLC

CONSTANTS key, o1, o2

MCKeys == {key}
MCLines == (o1 :> (key :> 1)) @@ (o2 :> (key :> 2))
MCInitialItems == key :> NoRow
MCOneVote == <<1>>

\* The calls are all of one kind.
Symmetry == Permutations(Requests)
=============================================================================
