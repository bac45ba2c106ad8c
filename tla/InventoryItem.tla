--------------------------- MODULE InventoryItem ---------------------------
(***************************************************************************)
(* The aggregate of the stock system: one row of inventory_items, that is  *)
(* the stock of one SKU at one location.  Every method of the class        *)
(* InventoryItem is an operator that returns the item after the call; the  *)
(* exceptions a method throws are collected in Permits.  Units of measure  *)
(* are left out: every caller works in the default unit (each).            *)
(***************************************************************************)
EXTENDS Integers

CONSTANT LowStockThreshold  \* 10 in the code: below it a dispatch raises an alert

\* quantity is physical stock on hand, allocated is reserved, inTransit is
\* incoming; version is the optimistic-locking counter.
Item == [quantity : Nat, allocated : Nat, inTransit : Nat, version : Nat \ {0}]

CreateNew == [quantity |-> 0, allocated |-> 0, inTransit |-> 0, version |-> 1]

\* Mutant of Available: what is reserved already is promised again.
AvailableIgnoringReservations(i) == i.quantity + i.inTransit

\* Available to promise, clamped at zero.
Available(i) ==
    LET free == i.quantity - i.allocated + i.inTransit
    IN  IF free < 0 THEN 0 ELSE free

-----------------------------------------------------------------------------
\* Every method ends in incrementVersion.
Revised(i, quantity, allocated, inTransit) ==
    [quantity |-> quantity, allocated |-> allocated, inTransit |-> inTransit,
     version |-> i.version + 1]

ReceiveStock(i, n)      == Revised(i, i.quantity + n, i.allocated, i.inTransit)
DispatchStock(i, n)     == Revised(i, i.quantity - n, i.allocated, i.inTransit)
AllocateStock(i, n)     == Revised(i, i.quantity, i.allocated + n, i.inTransit)
ReleaseAllocation(i, n) == Revised(i, i.quantity, i.allocated - n, i.inTransit)
FulfillAllocation(i, n) == Revised(i, i.quantity - n, i.allocated - n, i.inTransit)
CreateInTransit(i, n)   == Revised(i, i.quantity, i.allocated, i.inTransit + n)
ReceiveInTransit(i, n)  == Revised(i, i.quantity + n, i.allocated, i.inTransit - n)
CancelInTransit(i, n)   == Revised(i, i.quantity, i.allocated, i.inTransit - n)
ReconcileStock(i, n)    == Revised(i, n, i.allocated, i.inTransit)

Methods == {"receiveStock", "dispatchStock", "allocateStock",
            "releaseAllocation", "fulfillAllocation", "createInTransit",
            "receiveInTransit", "cancelInTransit", "reconcileStock"}

\* Mutant of Permits: a dispatch takes what is not there.
PermitsAnyDispatch(m, i, n) ==
    /\ m = "allocateStock"     => Available(i) >= n
    /\ m = "releaseAllocation" => i.allocated >= n
    /\ m = "fulfillAllocation" => i.allocated >= n /\ i.quantity >= n
    /\ m = "receiveInTransit"  => i.inTransit >= n
    /\ m = "cancelInTransit"   => i.inTransit >= n

\* The method m of item i does not throw for the amount n.
Permits(m, i, n) ==
    /\ m = "dispatchStock"     => i.quantity >= n
    /\ m = "allocateStock"     => Available(i) >= n
    /\ m = "releaseAllocation" => i.allocated >= n
    /\ m = "fulfillAllocation" => i.allocated >= n /\ i.quantity >= n
    /\ m = "receiveInTransit"  => i.inTransit >= n
    /\ m = "cancelInTransit"   => i.inTransit >= n

Apply(m, i, n) ==
    CASE m = "receiveStock"      -> ReceiveStock(i, n)
      [] m = "dispatchStock"     -> DispatchStock(i, n)
      [] m = "allocateStock"     -> AllocateStock(i, n)
      [] m = "releaseAllocation" -> ReleaseAllocation(i, n)
      [] m = "fulfillAllocation" -> FulfillAllocation(i, n)
      [] m = "createInTransit"   -> CreateInTransit(i, n)
      [] m = "receiveInTransit"  -> ReceiveInTransit(i, n)
      [] m = "cancelInTransit"   -> CancelInTransit(i, n)
      [] m = "reconcileStock"    -> ReconcileStock(i, n)

-----------------------------------------------------------------------------
\* The domain events a call leaves in the item, tagged with the version the
\* item has after it: a dispatch that ends below the threshold raises an
\* alert with the remaining quantity, a reconciliation always reports what
\* was expected and what was counted.
EventsOf(m, k, i, n) ==
    LET after == Apply(m, i, n)
    IN  CASE m = "dispatchStock" /\ after.quantity < LowStockThreshold ->
               {[type |-> "LowStockAlert", key |-> k,
                 version |-> after.version, quantity |-> after.quantity]}
          [] m = "reconcileStock" ->
               {[type |-> "InventoryReconciled", key |-> k,
                 version |-> after.version, expected |-> i.quantity,
                 actual |-> n]}
          [] OTHER -> {}
=============================================================================
