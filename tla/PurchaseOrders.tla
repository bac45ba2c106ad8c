--------------------------- MODULE PurchaseOrders ---------------------------
(***************************************************************************)
(* Purchase orders and the approvals that may hold them up.  Placing an    *)
(* order puts its goods in transit to the destination, receiving it takes  *)
(* them in and writes the ledger, cancelling it takes them out of transit. *)
(* The calls are built like those of StockTransfers: the status is checked *)
(* on a copy, the rows are saved in one transaction guarded by their       *)
(* versions, the status is written last and unconditionally, and nothing   *)
(* is retried.  If the workflow for purchase_order.place is active, a call *)
(* that places an order opens an approval request (see Approvals) instead  *)
(* and leaves the order pending.  The approval of the request is only      *)
(* published to subscribers: no code of the repository acts on it.         *)
(***************************************************************************)
EXTENDS InventoryItem, FiniteSets, Sequences, Functions

CONSTANTS Keys,       \* <<sku, location>> pairs
          NoRow,
          Orders,
          Lines,      \* of each order: the pieces of each key
          Requests,   \* calls of place, receive and cancel
          InitialItems,
          MaxSales,   \* bound: pieces sold by others meanwhile
          Deciders, Required, MaxSweeps, MaxToggles

Tables == [Keys -> Item \cup {NoRow}]
Ops == {"place", "receive", "cancel"}

ASSUME OrderAssumption ==
    /\ IsFiniteSet(Orders)
    /\ Lines \in [Orders -> [Keys -> Nat]]
    /\ InitialItems \in Tables
    /\ NoRow \notin Item
    /\ MaxSales \in Nat

ASSUME WorkflowAssumption ==
    /\ Required \in Seq(Nat) /\ Required # <<>>
    /\ MaxSweeps \in Nat /\ MaxToggles \in Nat
    /\ IsFiniteSet(Deciders)

VARIABLES items, ledger, sold,
          orders,     \* the status column of purchase_orders
          call,       \* operation and order of each request
          pc, seen,   \* where a request is; the status it has read
          loaded,     \* the stock rows it has read
          halted,     \* requests whose process stopped
          active, status, step, ballots, dpc, view, sweep, sweeps, toggles

\* The approval requests: each call that places an order may open one.
A == INSTANCE Approvals WITH Petitions <- Requests

approvals == <<active, status, step, ballots, dpc, view, sweep, sweeps, toggles>>
memory == <<seen, loaded>>
purchase == <<items, ledger, sold, orders, call, pc, memory, halted>>
vars == <<purchase, approvals>>

Init ==
    /\ A!ApprovalInit
    /\ items = InitialItems
    /\ ledger = [k \in Keys |-> 0]
    /\ sold = [k \in Keys |-> 0]
    /\ orders = [o \in Orders |-> "none"]
    /\ call \in [Requests -> [op : Ops, order : Orders]]
    /\ pc = [r \in Requests |-> "find"]
    /\ seen = [r \in Requests |-> "none"]
    /\ loaded = [r \in Requests |-> [k \in Keys |-> NoRow]]
    /\ halted = {}

-----------------------------------------------------------------------------
Create(o) ==
    /\ orders[o] = "none"
    /\ orders' = [orders EXCEPT ![o] = "DRAFT"]
    /\ UNCHANGED <<items, ledger, sold, call, pc, memory, halted, approvals>>

\* The guards of receive and cancel in the class PurchaseOrder; place has its
\* guard after the look for a workflow.
Allowed(op, s) ==
    CASE op = "place"   -> s # "none"
      [] op = "receive" -> s = "ORDERED"
      [] op = "cancel"  -> s \notin {"none", "RECEIVED", "CANCELLED"}

Find(r) ==
    LET now == orders[call[r].order]
    IN  /\ pc[r] = "find"
        /\ Allowed(call[r].op, now)
        /\ seen' = [seen EXCEPT ![r] = now]
        /\ pc' = [pc EXCEPT ![r] =
               CASE call[r].op = "place" -> "lookup"
                 [] call[r].op = "cancel" /\ now # "ORDERED" -> "save"
                 [] OTHER -> "load"]
        /\ UNCHANGED <<items, ledger, sold, orders, call, loaded, halted, approvals>>

Refuse(r) ==
    /\ pc[r] = "find"
    /\ ~Allowed(call[r].op, orders[call[r].order])
    /\ pc' = [pc EXCEPT ![r] = "rejected"]
    /\ UNCHANGED <<items, ledger, sold, orders, call, memory, halted, approvals>>

\* findWorkflowByTrigger, and place on the copy if nothing intercepts it.
Lookup(r) ==
    /\ pc[r] = "lookup"
    /\ pc' = [pc EXCEPT ![r] = CASE active -> "intercept"
                                 [] ~active /\ seen[r] = "DRAFT" -> "load"
                                 [] OTHER -> "rejected"]
    /\ UNCHANGED <<items, ledger, sold, orders, call, memory, halted, approvals>>

\* createApprovalRequest, and then markPendingApproval, which throws unless the
\* order is a draft: the request stays.
Intercept(r) ==
    /\ pc[r] = "intercept"
    /\ A!Open(r)
    /\ pc' = [pc EXCEPT ![r] = IF seen[r] = "DRAFT" THEN "save" ELSE "rejected"]
    /\ UNCHANGED <<items, ledger, sold, orders, call, memory, halted>>

-----------------------------------------------------------------------------
Rows(r) == {k \in Keys : Lines[call[r].order][k] > 0}
Amount(r, k) == Lines[call[r].order][k]

\* Mutant of Method: a cancelled order is taken in.
MethodReceivingCancel(r) ==
    CASE call[r].op = "place"   -> "createInTransit"
      [] call[r].op = "receive" -> "receiveInTransit"
      [] call[r].op = "cancel"  -> "receiveInTransit"

Method(r) ==
    CASE call[r].op = "place"   -> "createInTransit"
      [] call[r].op = "receive" -> "receiveInTransit"
      [] call[r].op = "cancel"  -> "cancelInTransit"

\* place creates missing rows, receive throws, cancel passes over them.
Saved(r, table) ==
    {k \in Rows(r) : table[k] = NoRow => call[r].op # "cancel"}

Base(table, k) == IF table[k] = NoRow THEN CreateNew ELSE table[k]

Accepts(r, table) ==
    \A k \in Saved(r, table) :
        /\ table[k] = NoRow => call[r].op = "place"
        /\ Permits(Method(r), Base(table, k), Amount(r, k))

Load(r) ==
    /\ pc[r] = "load"
    /\ Accepts(r, items)
    /\ loaded' = [loaded EXCEPT ![r] =
                      [k \in Keys |-> IF k \in Rows(r) THEN items[k] ELSE NoRow]]
    /\ pc' = [pc EXCEPT ![r] = "saveBatch"]
    /\ UNCHANGED <<items, ledger, sold, orders, call, seen, halted, approvals>>

Reject(r) ==
    /\ pc[r] = "load"
    /\ ~Accepts(r, items)
    /\ pc' = [pc EXCEPT ![r] = "rejected"]
    /\ UNCHANGED <<items, ledger, sold, orders, call, memory, halted, approvals>>

Draft(r, k) == Apply(Method(r), Base(loaded[r], k), Amount(r, k))

\* Mutant of Current: the versions are not compared.
CurrentUnchecked(r) == TRUE

\* The rows to insert are still missing, those to update not revised.
Current(r) ==
    \A k \in Saved(r, loaded[r]) :
        IF loaded[r][k] = NoRow THEN items[k] = NoRow
        ELSE items[k].version = Draft(r, k).version - 1

SaveBatch(r) ==
    /\ pc[r] = "saveBatch"
    /\ Current(r)
    /\ items' = [k \in Keys |-> IF k \in Saved(r, loaded[r]) THEN Draft(r, k) ELSE items[k]]
    /\ pc' = [pc EXCEPT ![r] = IF call[r].op = "receive" THEN "append" ELSE "save"]
    /\ UNCHANGED <<ledger, sold, orders, call, memory, halted, approvals>>

Conflict(r) ==
    /\ pc[r] = "saveBatch"
    /\ ~Current(r)
    /\ pc' = [pc EXCEPT ![r] = "rejected"]
    /\ UNCHANGED <<items, ledger, sold, orders, call, memory, halted, approvals>>

AppendLedger(r) ==
    /\ pc[r] = "append"
    /\ ledger' = [k \in Keys |-> ledger[k] + Amount(r, k)]
    /\ pc' = [pc EXCEPT ![r] = "save"]
    /\ UNCHANGED <<items, sold, orders, call, memory, halted, approvals>>

\* The status the call has in memory: a petition tells of an interception.
Target(r) ==
    CASE call[r].op = "place" /\ status[r] # "none" -> "PENDING_APPROVAL"
      [] call[r].op = "place" /\ status[r] = "none" -> "ORDERED"
      [] call[r].op = "receive" -> "RECEIVED"
      [] call[r].op = "cancel"  -> "CANCELLED"

SaveOrder(r) ==
    /\ pc[r] = "save"
    /\ orders' = [orders EXCEPT ![call[r].order] = Target(r)]
    /\ pc' = [pc EXCEPT ![r] = "done"]
    /\ UNCHANGED <<items, ledger, sold, call, memory, halted, approvals>>

\* The process stops; what it has written stays.
Crash(r) ==
    /\ pc[r] \in {"intercept", "saveBatch", "append", "save"}
    /\ r \notin halted
    /\ halted' = halted \cup {r}
    /\ UNCHANGED <<items, ledger, sold, orders, call, pc, memory, approvals>>

Sell(k) ==
    /\ items[k] # NoRow
    /\ Permits("dispatchStock", items[k], 1)
    /\ sold[k] < MaxSales
    /\ items' = [items EXCEPT ![k] = DispatchStock(@, 1)]
    /\ sold' = [sold EXCEPT ![k] = @ + 1]
    /\ UNCHANGED <<ledger, orders, call, pc, memory, halted, approvals>>

Step(r) ==
    /\ r \notin halted
    /\ \/ Find(r) \/ Refuse(r) \/ Lookup(r) \/ Intercept(r) \/ Load(r) \/ Reject(r)
       \/ SaveBatch(r) \/ Conflict(r) \/ AppendLedger(r) \/ SaveOrder(r)

Approve ==
    \/ A!Toggle
    \/ \E d \in Deciders, r \in Requests :
        \/ A!Refuse(d, r)
        \/ \E verdict \in A!Verdicts : A!Read(d, r, verdict)
    \/ \E d \in Deciders : A!Save(d) \/ A!Lose(d)
    \/ A!FindStale
    \/ \E s \in sweep : A!Escalate(s)
    \/ A!EndSweep

Next ==
    \/ \E o \in Orders : Create(o)
    \/ \E r \in Requests : Step(r) \/ Crash(r)
    \/ \E k \in Keys : Sell(k)
    \/ Approve /\ UNCHANGED purchase

Spec == Init /\ [][Next]_vars

-----------------------------------------------------------------------------
TypeOK ==
    /\ A!ApprovalTypeOK
    /\ items \in Tables
    /\ ledger \in [Keys -> Nat]
    /\ sold \in [Keys -> 0..MaxSales]
    /\ orders \in [Orders -> {"none", "DRAFT", "PENDING_APPROVAL", "ORDERED",
                              "RECEIVED", "CANCELLED"}]
    /\ call \in [Requests -> [op : Ops, order : Orders]]
    /\ pc \in [Requests -> {"find", "lookup", "intercept", "load", "saveBatch",
                            "append", "save", "done", "rejected"}]
    /\ seen \in [Requests -> {"none", "DRAFT", "PENDING_APPROVAL", "ORDERED",
                              "RECEIVED", "CANCELLED"}]
    /\ loaded \in [Requests -> Tables]
    /\ halted \subseteq Requests

\* The calls of op on o whose stock movement has been committed.
Moves(op, o) ==
    {r \in Requests :
        /\ call[r] = [op |-> op, order |-> o]
        /\ pc[r] \in {"append", "save", "done"}
        /\ op = "place" => status[r] = "none"
        /\ op = "cancel" => seen[r] = "ORDERED"}

OnHand(table, k) == IF table[k] = NoRow THEN 0 ELSE table[k].quantity
Incoming(table, k) == IF table[k] = NoRow THEN 0 ELSE table[k].inTransit

\* How often the goods of an order are on their way.
Outstanding(o) ==
    Cardinality(Moves("place", o)) - Cardinality(Moves("receive", o))
        - Cardinality(Moves("cancel", o))

\* What is in transit to a location is what the placed orders announced there
\* less what receipts took in and cancellations took out: no call of another
\* order, no sale and no conflict loses or doubles a piece of it.
InTransitIsOrdered ==
    \A k \in Keys :
        Incoming(items, k) = Incoming(InitialItems, k)
            + SumFunction([o \in Orders |-> Lines[o][k] * Outstanding(o)])

\* The receipts in the ledger explain the stock: it lags behind the rows by
\* exactly the receipts whose call is between its two writes or stopped there.
ReceiptsInLedger ==
    \A k \in Keys :
        OnHand(items, k) + sold[k] =
            OnHand(InitialItems, k) + ledger[k]
              + SumFunctionOnSet([r \in Requests |-> Amount(r, k)],
                                 {r \in Requests : pc[r] = "append"})

\* Goods are taken in only for an order whose goods were sent on their way: an
\* order intercepted for approval, and not placed by another call, moves no
\* stock and is never ordered or received.
OnlyPlacedOrdersMove ==
    \A o \in Orders :
        Moves("place", o) = {} =>
            /\ orders[o] \notin {"ORDERED", "RECEIVED"}
            /\ Moves("receive", o) \cup Moves("cancel", o) = {}

\* Every piece taken in was ordered, and is in the ledger.
OrdersTraced == TypeOK /\ ReceiptsInLedger /\ OnlyPlacedOrdersMove
=============================================================================
