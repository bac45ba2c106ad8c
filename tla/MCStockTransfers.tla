-------------------------- MODULE MCStockTransfers --------------------------
(***************************************************************************)
(* Two transfers of one SKU from one location to another that has no row   *)
(* for it yet, and stock for less than two dispatches of both.             *)
(***************************************************************************)
EXTENDS StockTransfers, TLC

CONSTANTS sku, here, there, t1, t2

MCSkus == {sku}
MCLocations == {here, there}
MCSource == (t1 :> here) @@ (t2 :> here)
MCDestination == (t1 :> there) @@ (t2 :> there)
MCLines == (t1 :> (sku :> 1)) @@ (t2 :> (sku :> 2))

MCInitialItems ==
    (<<sku, here>> :> [quantity |-> 3, allocated |-> 0, inTransit |-> 0, version |-> 1])
      @@ (<<sku, there>> :> NoRow)

\* The calls are all of one kind.
Symmetry == Permutations(Requests)
=============================================================================
