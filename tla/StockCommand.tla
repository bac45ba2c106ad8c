---------------------------- MODULE StockCommand ----------------------------
(***************************************************************************)
(* What one stock mutation (ReceiveStock, DispatchStock, the allocation    *)
(* use cases, SubmitInventoryCount) computes from the rows it has read.    *)
(* A command applies one method of InventoryItem to the rows of c.keys;    *)
(* all but the inventory count name a single row.  A count may list the    *)
(* same row on two lines: c.repeated says that it does.  A receipt, a sale *)
(* or a count may come from the barcode scanner: c.scanned.                *)
(***************************************************************************)
EXTENDS InventoryItem

CONSTANTS Keys,      \* <<sku, location>> pairs: the unique key of inventory_items
          NoRow,     \* there is no row yet for a key
          Commands   \* the commands that clients may send

\* The methods that have a scan handler.
Scannable == {"receiveStock", "dispatchStock", "reconcileStock"}

Command ==
    {c \in [method : Methods \ {"cancelInTransit"}, keys : SUBSET Keys,
            amount : [Keys -> Nat], repeated : BOOLEAN, scanned : BOOLEAN] :
        /\ c.repeated => c.method = "reconcileStock"
        /\ c.scanned => c.method \in Scannable /\ ~c.repeated}

ASSUME NoRowAssumption == NoRow \notin Item
ASSUME CommandsAssumption == Commands \subseteq Command
ASSUME ThresholdAssumption == LowStockThreshold \in Nat

Tables == [Keys -> Item \cup {NoRow}]

\* The use cases that start from a new item when the row does not exist; the
\* others throw.
Creating == {"receiveStock", "allocateStock", "createInTransit", "reconcileStock"}

Base(table, k) == IF table[k] = NoRow THEN CreateNew ELSE table[k]

Once(c, k, i) == Apply(c.method, i, c.amount[k])
Mutate(c, k, i) == IF c.repeated THEN Once(c, k, Once(c, k, i)) ELSE Once(c, k, i)

\* No use case throws on the rows of the table.
Accepts(table, c) ==
    \A k \in c.keys :
        /\ table[k] = NoRow => c.method \in Creating
        /\ Permits(c.method, Base(table, k), c.amount[k])

\* The items in memory after the call, and the domain events they carry.
Drafts(table, c) ==
    [k \in Keys |-> IF k \in c.keys THEN Mutate(c, k, Base(table, k)) ELSE NoRow]

LineEvents(c, k, i) ==
    EventsOf(c.method, k, i, c.amount[k])
      \cup (IF c.repeated
            THEN EventsOf(c.method, k, Once(c, k, i), c.amount[k])
            ELSE {})

Raised(table, c) == UNION {LineEvents(c, k, Base(table, k)) : k \in c.keys}
=============================================================================
