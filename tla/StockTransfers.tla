--------------------------- MODULE StockTransfers ---------------------------
(***************************************************************************)
(* Transfers of stock between two locations.  A transfer is a row with a   *)
(* status; dispatch, receive and cancel are asynchronous calls that read   *)
(* the transfer, check its status in memory, read the stock rows, save     *)
(* them in one transaction guarded by their versions, append the ledger    *)
(* entries, and at last write the status, unconditionally: five separate   *)
(* round trips.  No call is retried, and a process may stop between any    *)
(* two of them.                                                            *)
(***************************************************************************)
EXTENDS InventoryItem, FiniteSets, FiniteSetsExt, Functions

CONSTANTS Skus, Locations,
          NoRow,        \* no inventory_items row yet
          Unread,       \* a row a call has not read
          Transfers,
          Source, Destination, Lines,  \* of each transfer; Lines[t][sku] pieces
          Requests,     \* calls of the three mutations
          InitialItems,
          MaxSales      \* bound: pieces sold by others meanwhile

Keys == Skus \X Locations
Tables == [Keys -> Item \cup {NoRow}]
Ops == {"dispatch", "receive", "cancel"}

ASSUME TransferAssumption ==
    /\ Source \in [Transfers -> Locations]
    /\ Destination \in [Transfers -> Locations]
    /\ \A t \in Transfers : Source[t] # Destination[t]
    /\ Lines \in [Transfers -> [Skus -> Nat]]
    /\ InitialItems \in Tables
    /\ NoRow \notin Item /\ Unread \notin Item /\ Unread # NoRow
ASSUME FiniteAssumption == IsFiniteSet(Locations) /\ IsFiniteSet(Transfers)

VARIABLES items,      \* the table inventory_items
          outbox,     \* outbox_events, written with the items
          ledger,     \* the sum of the transfer entries of each key
          transfers,  \* the status column of each transfer
          sold,       \* pieces that dispatchStock took meanwhile, by key
          call,       \* operation and transfer of each request
          pc, seen,   \* where a request is; the status it has read
          loaded,     \* the stock rows it has read
          halted      \* requests whose process stopped

stock == <<items, outbox>>
vars == <<stock, ledger, transfers, sold, call, pc, seen, loaded, halted>>

Op(r) == call[r].op
Transfer(r) == call[r].transfer

Init ==
    /\ items = InitialItems
    /\ outbox = {}
    /\ ledger = [k \in Keys |-> 0]
    /\ transfers = [t \in Transfers |-> "none"]
    /\ sold = [k \in Keys |-> 0]
    /\ call \in [Requests -> [op : Ops, transfer : Transfers]]
    /\ pc = [r \in Requests |-> "find"]
    /\ seen = [r \in Requests |-> "none"]
    /\ loaded = [r \in Requests |-> [k \in Keys |-> Unread]]
    /\ halted = {}

-----------------------------------------------------------------------------
\* CreateStockTransfer inserts the row and its items.
Create(t) ==
    /\ transfers[t] = "none"
    /\ transfers' = [transfers EXCEPT ![t] = "draft"]
    /\ UNCHANGED <<stock, ledger, sold, call, pc, seen, loaded, halted>>

\* The methods dispatch, receive and cancel of the class StockTransfer.
Allowed(op, status) ==
    CASE op = "dispatch" -> status = "draft"
      [] op = "receive"  -> status = "dispatched"
      [] op = "cancel"   -> status \in {"draft", "dispatched"}

Target(op) ==
    CASE op = "dispatch" -> "dispatched"
      [] op = "receive"  -> "received"
      [] op = "cancel"   -> "cancelled"

\* Mutant of Find: the new status is written as soon as it is known.
FindAndMark(r) ==
    /\ pc[r] = "find"
    /\ Allowed(Op(r), transfers[Transfer(r)])
    /\ seen' = [seen EXCEPT ![r] = transfers[Transfer(r)]]
    /\ pc' = [pc EXCEPT ![r] = "load"]
    /\ transfers' = [transfers EXCEPT ![Transfer(r)] = Target(Op(r))]
    /\ UNCHANGED <<stock, ledger, sold, call, loaded, halted>>

\* findById and the status change in memory; the cancellation of a draft
\* touches no stock.
Find(r) ==
    /\ pc[r] = "find"
    /\ Allowed(Op(r), transfers[Transfer(r)])
    /\ seen' = [seen EXCEPT ![r] = transfers[Transfer(r)]]
    /\ pc' = [pc EXCEPT ![r] = IF Op(r) = "cancel" /\ seen'[r] = "draft"
                               THEN "saveStatus" ELSE "load"]
    /\ UNCHANGED <<stock, ledger, transfers, sold, call, loaded, halted>>

\* The transfer does not exist or its status forbids the operation.
Refuse(r) ==
    /\ pc[r] = "find"
    /\ ~Allowed(Op(r), transfers[Transfer(r)])
    /\ pc' = [pc EXCEPT ![r] = "rejected"]
    /\ UNCHANGED <<stock, ledger, transfers, sold, call, seen, loaded, halted>>

-----------------------------------------------------------------------------
Side(t, l) == {s \in Skus : Lines[t][s] > 0} \X {l}

\* The queries of a call: dispatch and cancel read both sides at once.
Queries(r) ==
    IF Op(r) = "receive" THEN {Side(Transfer(r), Destination[Transfer(r)])}
    ELSE {Side(Transfer(r), Source[Transfer(r)]),
          Side(Transfer(r), Destination[Transfer(r)])}

Rows(r) == UNION Queries(r)

\* One of the queries is answered; they may be answered in either order.
Read(r) ==
    /\ pc[r] = "load"
    /\ \E side \in Queries(r) :
        /\ \A k \in side : loaded[r][k] = Unread
        /\ side # {}
        /\ loaded' = [loaded EXCEPT ![r] =
                          [k \in Keys |-> IF k \in side THEN items[k] ELSE @[k]]]
    /\ UNCHANGED <<stock, ledger, transfers, sold, call, pc, seen, halted>>

AllRead(r) == pc[r] = "load" /\ \A k \in Rows(r) : loaded[r][k] # Unread

\* Mutant of Method: a receipt takes the goods in as a delivery nobody announced.
MethodPlainReceipt(r, k) ==
    LET atSource == k[2] = Source[Transfer(r)]
    IN  CASE Op(r) = "dispatch" -> IF atSource THEN "dispatchStock" ELSE "createInTransit"
          [] Op(r) = "receive"  -> "receiveStock"
          [] Op(r) = "cancel"   -> IF atSource THEN "receiveStock" ELSE "cancelInTransit"

Method(r, k) ==
    LET atSource == k[2] = Source[Transfer(r)]
    IN  CASE Op(r) = "dispatch" -> IF atSource THEN "dispatchStock" ELSE "createInTransit"
          [] Op(r) = "receive"  -> "receiveInTransit"
          [] Op(r) = "cancel"   -> IF atSource THEN "receiveStock" ELSE "cancelInTransit"

Amount(r, k) == Lines[Transfer(r)][k[1]]

\* A missing row is created, is an error, or (in a cancellation, at the
\* destination) is passed over.
Saved(r) ==
    {k \in Rows(r) : loaded[r][k] = NoRow => Method(r, k) # "cancelInTransit"}

Base(r, k) == IF loaded[r][k] = NoRow THEN CreateNew ELSE loaded[r][k]

Accepts(r) ==
    \A k \in Saved(r) :
        /\ loaded[r][k] = NoRow =>
               Method(r, k) \notin {"dispatchStock", "receiveInTransit"}
        /\ Permits(Method(r, k), Base(r, k), Amount(r, k))

Draft(r, k) == Apply(Method(r, k), Base(r, k), Amount(r, k))

\* A row is missing or a method of InventoryItem throws.
Reject(r) ==
    /\ AllRead(r)
    /\ ~Accepts(r)
    /\ pc' = [pc EXCEPT ![r] = "rejected"]
    /\ UNCHANGED <<stock, ledger, transfers, sold, call, seen, loaded, halted>>

Insertable(r) == \A k \in Saved(r) : loaded[r][k] = NoRow => items[k] = NoRow

\* Mutant of UpToDate: update by id alone.
UpToDateUnchecked(r) == TRUE

UpToDate(r) ==
    \A k \in Saved(r) : loaded[r][k] # NoRow =>
        items[k].version = Draft(r, k).version - 1

\* saveBatch: all rows and their events, or nothing.
SaveBatch(r) ==
    /\ AllRead(r)
    /\ Accepts(r)
    /\ Insertable(r)
    /\ UpToDate(r)
    /\ items' = [k \in Keys |-> IF k \in Saved(r) THEN Draft(r, k) ELSE items[k]]
    /\ outbox' = outbox \cup
           UNION {EventsOf(Method(r, k), k, Base(r, k), Amount(r, k)) : k \in Saved(r)}
    /\ pc' = [pc EXCEPT ![r] = "append"]
    /\ UNCHANGED <<ledger, transfers, sold, call, seen, loaded, halted>>

\* ConcurrencyError or a violation of the unique key: no decorator retries it.
Conflict(r) ==
    /\ AllRead(r)
    /\ Accepts(r)
    /\ ~(Insertable(r) /\ UpToDate(r))
    /\ pc' = [pc EXCEPT ![r] = "rejected"]
    /\ UNCHANGED <<stock, ledger, transfers, sold, call, seen, loaded, halted>>

-----------------------------------------------------------------------------
LedgerDelta(r, k) ==
    IF k \notin Rows(r) THEN 0
    ELSE CASE Method(r, k) = "dispatchStock" -> -Amount(r, k)
           [] Method(r, k) \in {"receiveStock", "receiveInTransit"} -> Amount(r, k)
           [] OTHER -> 0

\* appendStockLedgerEntries, one insert of all entries.
AppendLedger(r) ==
    /\ pc[r] = "append"
    /\ ledger' = [k \in Keys |-> ledger[k] + LedgerDelta(r, k)]
    /\ pc' = [pc EXCEPT ![r] = "saveStatus"]
    /\ UNCHANGED <<stock, transfers, sold, call, seen, loaded, halted>>

\* transferRepo.save: an upsert by id, whatever the status is by now.
SaveStatus(r) ==
    /\ pc[r] = "saveStatus"
    /\ transfers' = [transfers EXCEPT ![Transfer(r)] = Target(Op(r))]
    /\ pc' = [pc EXCEPT ![r] = "done"]
    /\ UNCHANGED <<stock, ledger, sold, call, seen, loaded, halted>>

Crash(r) ==
    /\ r \notin halted
    /\ pc[r] \in {"load", "append", "saveStatus"}
    /\ halted' = halted \cup {r}
    /\ UNCHANGED <<stock, ledger, transfers, sold, call, pc, seen, loaded>>

\* Others keep selling from the same rows (see InventoryCommands).
Sell(k) ==
    /\ items[k] # NoRow
    /\ Permits("dispatchStock", items[k], 1)
    /\ MapThenSumSet(LAMBDA x : sold[x], Keys) < MaxSales
    /\ items' = [items EXCEPT ![k] = DispatchStock(@, 1)]
    /\ outbox' = outbox \cup EventsOf("dispatchStock", k, items[k], 1)
    /\ sold' = [sold EXCEPT ![k] = @ + 1]
    /\ UNCHANGED <<ledger, transfers, call, pc, seen, loaded, halted>>

Step(r) ==
    /\ r \notin halted
    /\ \/ Find(r) \/ Refuse(r) \/ Read(r) \/ Reject(r) \/ SaveBatch(r)
       \/ Conflict(r) \/ AppendLedger(r) \/ SaveStatus(r)

Next ==
    \/ \E t \in Transfers : Create(t)
    \/ \E r \in Requests : Step(r) \/ Crash(r)
    \/ \E k \in Keys : Sell(k)

Spec == Init /\ [][Next]_vars

-----------------------------------------------------------------------------
TypeOK ==
    /\ items \in Tables
    /\ ledger \in [Keys -> Int]
    /\ transfers \in [Transfers -> {"none", "draft", "dispatched", "received", "cancelled"}]
    /\ sold \in [Keys -> Nat]
    /\ call \in [Requests -> [op : Ops, transfer : Transfers]]
    /\ pc \in [Requests -> {"find", "load", "append", "saveStatus", "done", "rejected"}]
    /\ seen \in [Requests -> {"none", "draft", "dispatched"}]
    /\ loaded \in [Requests -> [Keys -> Item \cup {NoRow, Unread}]]
    /\ halted \subseteq Requests

\* The calls of op on t whose stock movement has been committed.
Moves(op, t) ==
    {r \in Requests :
        /\ call[r] = [op |-> op, transfer |-> t]
        /\ pc[r] \in {"append", "saveStatus", "done"}
        /\ op = "cancel" => seen[r] = "dispatched"}

OnHand(table, k) == IF table[k] = NoRow THEN 0 ELSE table[k].quantity
Incoming(table, k) == IF table[k] = NoRow THEN 0 ELSE table[k].inTransit

Total(table, s) ==
    SumFunction([l \in Locations |->
                     OnHand(table, <<s, l>>) + Incoming(table, <<s, l>>)])

\* Transfers neither make nor lose stock: whatever calls overlap, conflict or
\* stop half-way, the pieces of a SKU on hand, in transit and sold are those
\* that were there at the start.
StockConserved ==
    \A s \in Skus :
        Total(items, s) + SumFunction([l \in Locations |-> sold[<<s, l>>]])
            = Total(InitialItems, s)

\* What is in transit to a location is what the committed dispatches sent
\* there less what committed receipts and cancellations took out.
Owed(t) ==
    Cardinality(Moves("dispatch", t))
      - Cardinality(Moves("receive", t)) - Cardinality(Moves("cancel", t))

InTransitIsOwed ==
    \A s \in Skus, l \in Locations :
        Incoming(items, <<s, l>>) = Incoming(InitialItems, <<s, l>>) +
            SumFunction([t \in {t \in Transfers : Destination[t] = l} |->
                             Lines[t][s] * Owed(t)])

\* A status is written after the movement it tells of: a transfer that reads
\* dispatched or received has been, and no call took goods in or put them back
\* that no dispatch had sent.
StatusFollowsStock ==
    \A t \in Transfers :
        /\ transfers[t] = "dispatched" => Moves("dispatch", t) # {}
        /\ transfers[t] = "received" => Moves("receive", t) # {}
        /\ Moves("receive", t) \cup Moves("cancel", t) # {} => Moves("dispatch", t) # {}

\* The ledger lags behind the stock by exactly the movements whose call is
\* between its two writes, or has stopped there.
LedgerLag ==
    \A k \in Keys :
        OnHand(InitialItems, k) - sold[k] + ledger[k]
          + SumFunctionOnSet([r \in Requests |-> LedgerDelta(r, k)],
                             {r \in Requests : pc[r] = "append"})
            = OnHand(items, k)

\* What is written after the stock tells the truth about it.
TransfersTraced == TypeOK /\ StatusFollowsStock /\ LedgerLag

\* The guards of StockTransfer promise that a transfer moves its stock once;
\* they are checked on a copy, long before the status is written.
MovesOnce ==
    \A t \in Transfers, op \in Ops : Cardinality(Moves(op, t)) <= 1
=============================================================================
