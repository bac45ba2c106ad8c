-------------------------- MODULE MCShopifyOrders --------------------------
(***************************************************************************)
(* Two messages about one order, orders/create and orders/paid, and one    *)
(* kit sale, the greediest of the three, that compete for two variants:    *)
(* there is enough for either the kit or the order booked twice.           *)
(***************************************************************************)
EXTENDS ShopifyOrders, TLC

CONSTANTS shirt, cap, kit

MCVariants == {shirt, cap}
MCStock == [v \in MCVariants |-> 2]

Of(v, n) == [variant |-> v, quantity |-> n]

MCOrderOf == <<"order", "order">>
MCLines == [m \in 1..2 |-> <<Of(shirt, 1), Of(cap, 1)>>]
MCComponents == [k \in {kit} |-> <<Of(shirt, 2), Of(cap, 1)>>]

ASSUME DistinctLines

\* The worker processes are alike.
Symmetry == Permutations(Workers)
=============================================================================
