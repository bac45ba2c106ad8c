-------------------------------- MODULE Lots --------------------------------
(***************************************************************************)
(* Stock of one variant at one location that is received in lots           *)
(* (ReceiveStockWithLotUseCase), sold like any other (dispatchStock), and  *)
(* looked for by lot: what FEFO picking may offer, and what a recall can   *)
(* trace.  A receipt writes the row, then the ledger entry that names the  *)
(* lot, then the cost layer of the lot; no transaction holds the three     *)
(* together, and some of what the client sent is looked at only on the     *)
(* way.  The sale names no lot anywhere.                                   *)
(***************************************************************************)
EXTENDS InventoryItem, FiniteSets, Functions

CONSTANTS LotNumbers,
          Calls,     \* requests that may overlap
          Commands,  \* what a client may ask for
          Capacity,  \* the units that fit in the location
          MaxStops,  \* bound: no process stops once so many calls were cut short
          Missing

VARIABLES row,      \* the row of inventory_items, or Missing
          entries,  \* the ledger: an entry says whose it is, of which lot and how many
          layers,   \* the cost layers: whose, of which lot and how many
          batch,    \* the status of each lot in lot_batches, or Missing
          call, pc,
          loaded,   \* the row or batch that each call has read
          halted    \* calls that were cut short, by an error or because their process stopped

vars == <<row, entries, layers, batch, call, pc, loaded, halted>>

NoLot == "no lot"
OnHand(r) == IF r = Missing THEN 0 ELSE r.quantity

Init ==
  /\ row = Missing /\ entries = {} /\ layers = {}
  /\ batch = [l \in LotNumbers |-> Missing]
  /\ call \in [Calls -> Commands]
  /\ pc = [c \in Calls |-> IF call[c].op = "receive" THEN "check" ELSE "load"]
  /\ loaded = [c \in Calls |-> Missing]
  /\ halted = {}

Goto(c, at) == pc' = [pc EXCEPT ![c] = at]
At(c, at) == pc[c] = at /\ c \notin halted
Stock == <<row, entries, layers>>

-----------------------------------------------------------------------------
(* validateCapacity, in a query before the row is read *)
CheckCapacity(c) ==
  /\ At(c, "check")
  /\ Goto(c, IF OnHand(row) + call[c].amount <= Capacity THEN "load" ELSE "refused")
  /\ UNCHANGED <<Stock, batch, call, loaded, halted>>

Load(c) ==
  /\ At(c, "load") /\ call[c].op \in {"receive", "dispatch"}
  /\ call[c].op = "dispatch" => row # Missing /\ Permits("dispatchStock", row, call[c].amount)
  /\ loaded' = [loaded EXCEPT ![c] = row]
  /\ Goto(c, "save")
  /\ UNCHANGED <<Stock, batch, call, halted>>

Refuse(c) ==
  /\ At(c, "load") /\ call[c].op = "dispatch"
  /\ row # Missing => ~Permits("dispatchStock", row, call[c].amount)
  /\ Goto(c, "refused")
  /\ UNCHANGED <<Stock, batch, call, loaded, halted>>

Draft(c) ==
  IF call[c].op = "dispatch" THEN DispatchStock(loaded[c], call[c].amount)
  ELSE ReceiveStock(IF loaded[c] = Missing THEN CreateNew ELSE loaded[c], call[c].amount)

(* a bug: the row is overwritten *)
UpToDateUnchecked(c) == TRUE
(* the version of the row, or the unique key of a new one *)
UpToDate(c) == IF loaded[c] = Missing THEN row = Missing ELSE row.version = loaded[c].version

Save(c) ==
  /\ At(c, "save") /\ UpToDate(c)
  /\ row' = Draft(c)
  /\ Goto(c, "append")
  /\ UNCHANGED <<entries, layers, batch, call, loaded, halted>>

(* dispatches are wrapped in the retry, receipts with a lot are not *)
Conflict(c) ==
  /\ At(c, "save") /\ ~UpToDate(c)
  /\ Goto(c, IF call[c].op = "dispatch" THEN "load" ELSE "refused")
  /\ UNCHANGED <<Stock, batch, call, loaded, halted>>

(* the constructors of Lot and LedgerEntry throw when the row is saved already *)
Bookable(c) == call[c].op = "receive" => call[c].lot # NoLot /\ call[c].amount # 0

(* a receipt names its lot; a sale takes from none *)
Entry(c) == IF call[c].op = "receive"
            THEN [by |-> c, lot |-> call[c].lot, quantity |-> call[c].amount]
            ELSE [by |-> c, lot |-> NoLot, quantity |-> 0 - call[c].amount]

Append(c) ==
  /\ At(c, "append") /\ Bookable(c)
  /\ entries' = entries \union {Entry(c)}
  /\ Goto(c, IF call[c].op = "receive" THEN "layer" ELSE "done")
  /\ UNCHANGED <<row, layers, batch, call, loaded, halted>>

(* that of InventoryCostLayer throws when the entry is there already *)
Costed(c) == call[c].cost >= 0

Layer(c) == [by |-> c, lot |-> call[c].lot, quantity |-> call[c].amount]

SaveLayer(c) ==
  /\ At(c, "layer") /\ Costed(c)
  /\ layers' = layers \union {Layer(c)}
  /\ Goto(c, "done")
  /\ UNCHANGED <<row, entries, batch, call, loaded, halted>>

Throw(c) ==
  /\ \/ At(c, "append") /\ ~Bookable(c)
     \/ At(c, "layer") /\ ~Costed(c)
  /\ halted' = halted \union {c}
  /\ UNCHANGED <<Stock, batch, call, pc, loaded>>

-----------------------------------------------------------------------------
(* The status of a lot.  It is looked up and then created or overwritten;  *)
(* releasing a lot that has no status fails.  Nothing reads the status but *)
(* the queries that show it.                                               *)
StatusAfter == [quarantine |-> "QUARANTINED", recall |-> "RECALLED", release |-> "ACTIVE"]

FindBatch(c) ==
  /\ At(c, "load") /\ call[c].op \in {"quarantine", "recall"}
  /\ loaded' = [loaded EXCEPT ![c] = batch[call[c].lot]]
  /\ Goto(c, "mark")
  /\ UNCHANGED <<Stock, batch, call, halted>>

MarkBatch(c) ==
  LET lot == call[c].lot
      taken == loaded[c] = Missing /\ batch[lot] # Missing
  IN /\ At(c, "mark")
     /\ batch' = IF taken THEN batch ELSE [batch EXCEPT ![lot] = StatusAfter[call[c].op]]
     /\ Goto(c, IF taken THEN "refused" ELSE "done")
     /\ UNCHANGED <<Stock, call, loaded, halted>>

ReleaseBatch(c) ==
  LET lot == call[c].lot
  IN /\ At(c, "load") /\ call[c].op = "release"
     /\ batch' = IF batch[lot] = Missing THEN batch ELSE [batch EXCEPT ![lot] = StatusAfter.release]
     /\ Goto(c, IF batch[lot] = Missing THEN "refused" ELSE "done")
     /\ UNCHANGED <<Stock, call, loaded, halted>>

Stop(c) ==
  /\ c \notin halted /\ pc[c] \notin {"check", "load", "done", "refused"}
  /\ Cardinality(halted) < MaxStops
  /\ halted' = halted \union {c}
  /\ UNCHANGED <<Stock, batch, call, pc, loaded>>

Next == \E c \in Calls :
          \/ CheckCapacity(c) \/ Load(c) \/ Refuse(c) \/ Save(c) \/ Conflict(c) \/ Append(c) \/ SaveLayer(c) \/ Throw(c)
          \/ FindBatch(c) \/ MarkBatch(c) \/ ReleaseBatch(c) \/ Stop(c)

Spec == Init /\ [][Next]_vars
-----------------------------------------------------------------------------
Units(records) == SumFunctionOnSet([e \in records |-> e.quantity], records)
Amount(calls) == SumFunctionOnSet([c \in calls |-> call[c].amount], calls)
OfLot(records, l) == {e \in records : e.lot = l}

(* suggestFefoPicking: of the lots that have a layer, what the ledger says *)
Offered == Units({e \in entries : \E layer \in layers : layer.lot = e.lot})

(* traceProductRecall: the deductions that name the lot *)
Traced(l) == {e \in OfLot(entries, l) : e.quantity < 0}

Receipts(at) == {c \in Calls : call[c].op = "receive" /\ pc[c] \in at}
Sales(at) == {c \in Calls : call[c].op = "dispatch" /\ pc[c] \in at}

(* No receipt and no sale is lost on the row, whichever overlap; what the  *)
(* ledger lacks is in the hands of calls that go on or were cut short; and *)
(* no lot has a layer that the ledger does not explain.                    *)
StockKept ==
  /\ OnHand(row) = Amount(Receipts({"append", "layer", "done"})) - Amount(Sales({"append", "done"}))
  /\ OnHand(row) - Units(entries) = Amount(Receipts({"append"})) - Amount(Sales({"append"}))
  /\ \A l \in LotNumbers : Units(OfLot(layers, l)) <= Units(OfLot(entries, l))

(* Picking by expiry offers what is in stock and also all that was sold,   *)
(* because no sale says of which lot it took; it misses only receipts that *)
(* have not come to their layer, unless another receipt of the lot has.    *)
OffersExplained ==
  LET unlayered == {c \in Receipts({"layer"}) : \A layer \in layers : layer.lot # call[c].lot}
  IN Offered = OnHand(row) + Amount(Sales({"append", "done"}))
                 - Amount(Receipts({"append"})) - Amount(unlayered)

(* A recall finds no sale, for the same reason.                            *)
NothingTraced == \A l \in LotNumbers : Traced(l) = {}

LotsTraced == StockKept /\ OffersExplained /\ NothingTraced
=============================================================================
