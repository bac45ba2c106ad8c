------------------------ MODULE MCInventoryCommands ------------------------
(***************************************************************************)
(* Small instances of InventoryCommands: two SKUs at one location, one     *)
(* with stock, reservations and goods in transit, one without a row and    *)
(* without a variant in the catalogue.                                     *)
(***************************************************************************)
EXTENDS InventoryCommands, TLC

CONSTANTS sku1, sku2, loc, r1, r2, r3

MCKeys == {<<sku1, loc>>, <<sku2, loc>>}
MCCatalogued == {<<sku1, loc>>}
MCLocations == {loc}
MCLocationOf == [k \in MCKeys |-> loc]
MCCapacity == [l \in {loc} |-> 5]

MCInitialItems ==
    (<<sku1, loc>> :> [quantity |-> 2, allocated |-> 1, inTransit |-> 1, version |-> 4])
      @@ (<<sku2, loc>> :> NoRow)

Single(m, k, n) ==
    [method |-> m, keys |-> {k}, repeated |-> FALSE, scanned |-> FALSE,
     amount |-> [x \in MCKeys |-> IF x = k THEN n ELSE 0]]

Count(n1, n2) ==
    [method |-> "reconcileStock", keys |-> MCKeys, repeated |-> FALSE, scanned |-> FALSE,
     amount |-> (<<sku1, loc>> :> n1) @@ (<<sku2, loc>> :> n2)]

\* One command of every method, some that exhaust the stock, one count of both
\* rows, one scan at the point of sale.
CommandList ==
    <<Single("receiveStock", <<sku1, loc>>, 2),
      Single("receiveStock", <<sku2, loc>>, 1),
      Single("dispatchStock", <<sku1, loc>>, 2),
      Single("allocateStock", <<sku1, loc>>, 2),
      Single("releaseAllocation", <<sku1, loc>>, 1),
      Single("fulfillAllocation", <<sku1, loc>>, 1),
      Single("createInTransit", <<sku2, loc>>, 1),
      Single("receiveInTransit", <<sku1, loc>>, 1),
      Count(3, 1),
      [Single("dispatchStock", <<sku1, loc>>, 1) EXCEPT !.scanned = TRUE]>>

MCCommands == {CommandList[i] : i \in DOMAIN CommandList}

\* The requests are interchangeable, so it is enough to start with commands in the
\* order of the list: every behaviour is one of these, up to the requests' names.
InitInOrder ==
    /\ Init
    /\ \E i, j, k \in DOMAIN CommandList :
        /\ i <= j /\ j <= k
        /\ cmd[r1] = CommandList[i] /\ cmd[r2] = CommandList[j] /\ cmd[r3] = CommandList[k]

OrderedSpec == InitInOrder /\ [][Next]_vars /\ \A r \in Requests : WF_vars(Step(r))
=============================================================================
