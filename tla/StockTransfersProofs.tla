------------------------ MODULE StockTransfersProofs ------------------------
(***************************************************************************)
(* Transfers neither make nor lose stock, for every number of SKUs,        *)
(* locations, transfers and calls.  The argument: a save that passes the   *)
(* version check writes what the methods make of the present rows          *)
(* (Snapshots), so it changes the stock by what its operation says; and    *)
(* what it says sums to zero over the two locations, because the one row a *)
(* cancellation would pass over is there: a call that has seen the         *)
(* transfer dispatched comes after a dispatch that made the row (Traces).  *)
(***************************************************************************)
EXTENDS StockTransfers, CommonTheorems

\* What a call is about.
LEMMA CallType ==
    ASSUME TypeOK, NEW r \in Requests
    PROVE  /\ Op(r) \in Ops
           /\ Transfer(r) \in Transfers
           /\ call[r] = [op |-> Op(r), transfer |-> Transfer(r)]
           /\ Source[Transfer(r)] \in Locations
           /\ Destination[Transfer(r)] \in Locations
           /\ Source[Transfer(r)] # Destination[Transfer(r)]
           /\ \A s \in Skus : Lines[Transfer(r)][s] \in Nat
  <1>1. call[r] \in [op : Ops, transfer : Transfers]
    BY DEF TypeOK
  <1>2. /\ Op(r) \in Ops
        /\ Transfer(r) \in Transfers
        /\ call[r] = [op |-> Op(r), transfer |-> Transfer(r)]
    BY <1>1 DEF Op, Transfer
  <1> QED
    BY <1>2, TransferAssumption

\* The rows of a call: those of its lines at the destination, and at the source
\* too unless it is a receipt.
LEMMA InRows ==
    ASSUME TypeOK, NEW r \in Requests, NEW k
    PROVE  k \in Rows(r) <=>
             \E s \in Skus, l \in Locations :
               /\ k = <<s, l>>
               /\ Lines[Transfer(r)][s] > 0
               /\ \/ l = Destination[Transfer(r)]
                  \/ l = Source[Transfer(r)] /\ Op(r) # "receive"
  <1> DEFINE t == Transfer(r)
  <1>1. \A l : k \in Side(t, l) <=> \E s \in Skus : k = <<s, l>> /\ Lines[t][s] > 0
    BY DEF Side
  <1>2. k \in Rows(r) <=>
          \/ k \in Side(t, Destination[t])
          \/ k \in Side(t, Source[t]) /\ Op(r) # "receive"
    BY DEF Rows, Queries
  <1>3. Source[t] \in Locations /\ Destination[t] \in Locations
    BY CallType
  <1> QED
    BY <1>1, <1>2, <1>3

LEMMA RowType ==
    ASSUME TypeOK, NEW r \in Requests, NEW k \in Rows(r)
    PROVE  /\ k \in Keys
           /\ Amount(r, k) \in Nat
           /\ Method(r, k) \in Methods
           /\ Base(r, k) \in Item \/ loaded[r][k] = Unread
  <1>1. PICK s \in Skus, l \in Locations : k = <<s, l>>
    BY InRows
  <1>2. k \in Keys /\ Amount(r, k) \in Nat
    BY <1>1, CallType DEF Keys, Amount
  <1>3. Method(r, k) \in Methods
    BY CallType DEF Method, Methods, Ops
  <1>4. Base(r, k) \in Item \/ loaded[r][k] = Unread
    BY <1>2 DEF TypeOK, Base, CreateNew, Item
  <1> QED
    BY <1>2, <1>3, <1>4

-----------------------------------------------------------------------------
LEMMA InitType == Init => TypeOK
BY TransferAssumption DEF Init, TypeOK

\* What a save writes are items.
LEMMA DraftNext ==
    ASSUME TypeOK, NEW r \in Requests, AllRead(r), Accepts(r), NEW k \in Saved(r)
    PROVE  /\ k \in Keys
           /\ Base(r, k) \in Item
           /\ Permits(Method(r, k), Base(r, k), Amount(r, k))
           /\ NextOf(Base(r, k), Draft(r, k))
  <1>1. k \in Rows(r) /\ loaded[r][k] # Unread
    BY DEF Saved, AllRead
  <1>2. /\ k \in Keys
        /\ Amount(r, k) \in Nat
        /\ Method(r, k) \in Methods
        /\ Base(r, k) \in Item
    BY <1>1, RowType
  <1>3. Permits(Method(r, k), Base(r, k), Amount(r, k))
    BY DEF Accepts
  <1> QED
    BY <1>2, <1>3, ApplyNext DEF Draft

\* A sale takes a piece of a row that is there.
LEMMA SellNext ==
    ASSUME TypeOK, NEW k \in Keys, Sell(k)
    PROVE  /\ items[k] \in Item
           /\ NextOf(items[k], items'[k])
           /\ items'[k] = DispatchStock(items[k], 1)
           /\ items' = [items EXCEPT ![k] = items'[k]]
  <1>1. items[k] \in Item /\ items'[k] = DispatchStock(items[k], 1)
    BY DEF Sell, TypeOK, Tables
  <1>2. items' = [items EXCEPT ![k] = items'[k]]
    BY <1>1 DEF Sell
  <1>3. Permits("dispatchStock", items[k], 1)
    BY DEF Sell
  <1>4. Apply("dispatchStock", items[k], 1) = DispatchStock(items[k], 1)
    BY DEF Apply
  <1>5. NextOf(items[k], Apply("dispatchStock", items[k], 1))
    BY <1>1, <1>3, ApplyNext DEF Methods
  <1> QED
    BY <1>1, <1>2, <1>4, <1>5

LEMMA DeltaType ==
    ASSUME TypeOK, NEW r \in Requests, NEW k
    PROVE  LedgerDelta(r, k) \in Int
BY RowType DEF LedgerDelta

\* Every step preserves the types.
LEMMA NextType == TypeOK /\ [Next]_vars => TypeOK'
  <1> SUFFICES ASSUME TypeOK, [Next]_vars PROVE TypeOK'
    OBVIOUS
  <1> USE DEF TypeOK
  <1>1. ASSUME NEW t \in Transfers, Create(t) PROVE TypeOK'
    BY <1>1 DEF Create, stock
  <1>2. ASSUME NEW r \in Requests, Find(r) PROVE TypeOK'
    <2>1. Op(r) \in Ops /\ Transfer(r) \in Transfers
      BY CallType
    <2>2. transfers[Transfer(r)] \in {"draft", "dispatched"}
      BY <1>2, <2>1 DEF Find, Allowed, Ops
    <2> QED
      BY <1>2, <2>2 DEF Find, stock
  <1>3. ASSUME NEW r \in Requests, Refuse(r) \/ Reject(r) \/ Conflict(r) PROVE TypeOK'
    BY <1>3 DEF Refuse, Reject, Conflict, stock
  <1>4. ASSUME NEW r \in Requests, Read(r) PROVE TypeOK'
    <2>1. PICK side : loaded' = [loaded EXCEPT ![r] =
                          [k \in Keys |-> IF k \in side THEN items[k] ELSE @[k]]]
      BY <1>4 DEF Read
    <2>2. [k \in Keys |-> IF k \in side THEN items[k] ELSE loaded[r][k]]
            \in [Keys -> Item \cup {NoRow, Unread}]
      BY DEF Tables
    <2> QED
      BY <1>4, <2>1, <2>2 DEF Read, stock
  <1>5. ASSUME NEW r \in Requests, SaveBatch(r) PROVE TypeOK'
    <2>1. \A k \in Saved(r) : Draft(r, k) \in Item
      BY <1>5, DraftNext DEF SaveBatch, NextOf
    <2>2. items' \in Tables
      BY <1>5, <2>1 DEF SaveBatch, Tables
    <2> QED
      BY <1>5, <2>2 DEF SaveBatch
  <1>6. ASSUME NEW r \in Requests, AppendLedger(r) PROVE TypeOK'
    <2>1. ledger' \in [Keys -> Int]
      BY <1>6, DeltaType DEF AppendLedger
    <2> QED
      BY <1>6, <2>1 DEF AppendLedger, stock
  <1>7. ASSUME NEW r \in Requests, SaveStatus(r) PROVE TypeOK'
    <2>1. Target(Op(r)) \in {"dispatched", "received", "cancelled"}
      BY CallType DEF Target, Ops
    <2> QED
      BY <1>7, <2>1 DEF SaveStatus, stock
  <1>8. ASSUME NEW r \in Requests, Crash(r) PROVE TypeOK'
    BY <1>8 DEF Crash, stock
  <1>9. ASSUME NEW k \in Keys, Sell(k) PROVE TypeOK'
    <2>1. items' \in Tables
      BY <1>9, SellNext DEF Tables, NextOf
    <2> QED
      BY <1>9, <2>1 DEF Sell
  <1>10. CASE UNCHANGED vars
    BY <1>10 DEF vars, stock
  <1> QED
    BY <1>1, <1>2, <1>3, <1>4, <1>5, <1>6, <1>7, <1>8, <1>9, <1>10 DEF Next, Step

-----------------------------------------------------------------------------
\* A row that a call has read is an earlier state of it: the row is there
\* still, its version has not gone down, and where it is the same the row is.
Earlier(row, k) ==
    /\ items[k] # NoRow
    /\ row.version <= items[k].version
    /\ row.version = items[k].version => row = items[k]

Snapshots ==
    \A r \in Requests, k \in Keys :
        loaded[r][k] \notin {NoRow, Unread} => Earlier(loaded[r][k], k)

\* A save writes the next item after each present row.
LEMMA SaveApplies ==
    ASSUME TypeOK, Snapshots, NEW r \in Requests, SaveBatch(r), NEW k \in Saved(r)
    PROVE  /\ k \in Keys
           /\ Base(r, k) = IF items[k] = NoRow THEN CreateNew ELSE items[k]
           /\ Base(r, k) \in Item
           /\ Permits(Method(r, k), Base(r, k), Amount(r, k))
           /\ items'[k] = Apply(Method(r, k), Base(r, k), Amount(r, k))
           /\ NextOf(Base(r, k), items'[k])
  <1>1. AllRead(r) /\ Accepts(r) /\ k \in Keys
    BY DraftNext DEF SaveBatch
  <1>2. /\ Base(r, k) \in Item
        /\ Permits(Method(r, k), Base(r, k), Amount(r, k))
        /\ NextOf(Base(r, k), Draft(r, k))
    BY <1>1, DraftNext
  <1>3. items'[k] = Draft(r, k)
    BY <1>1 DEF SaveBatch
  <1>4. CASE loaded[r][k] = NoRow
    BY <1>1, <1>2, <1>3, <1>4 DEF SaveBatch, Insertable, Base, Draft
  <1>5. CASE loaded[r][k] # NoRow
    <2>1. loaded[r][k] # Unread
      BY <1>1 DEF AllRead, Saved
    <2>2. Earlier(loaded[r][k], k) /\ Base(r, k) = loaded[r][k]
      BY <1>1, <1>5, <2>1 DEF Snapshots, Base
    <2>3. items[k].version = Draft(r, k).version - 1
      BY <1>5 DEF SaveBatch, UpToDate
    <2>4. Draft(r, k).version = loaded[r][k].version + 1 /\ loaded[r][k].version \in Nat
      BY <1>2, <2>2 DEF NextOf, Item
    <2>5. items[k] = loaded[r][k] /\ items[k] # NoRow
      BY <2>2, <2>3, <2>4 DEF Earlier
    <2> QED
      BY <1>1, <1>2, <1>3, <2>2, <2>5 DEF Draft
  <1> QED
    BY <1>4, <1>5

\* A row goes on to its next state or stays.
LEMMA RowsGoOn ==
    ASSUME TypeOK, Snapshots, [Next]_vars, NEW k \in Keys
    PROVE  \/ items'[k] = items[k]
           \/ /\ items'[k] \in Item
              /\ items[k] # NoRow => NextOf(items[k], items'[k])
  <1>1. ASSUME NEW r \in Requests, SaveBatch(r), k \in Saved(r)
        PROVE  items'[k] \in Item /\ (items[k] # NoRow => NextOf(items[k], items'[k]))
    BY <1>1, SaveApplies DEF NextOf
  <1>2. ASSUME NEW r \in Requests, SaveBatch(r), k \notin Saved(r)
        PROVE  items'[k] = items[k]
    BY <1>2 DEF SaveBatch
  <1>3. ASSUME NEW j \in Keys, Sell(j)
        PROVE  \/ items'[k] = items[k]
               \/ items'[k] \in Item /\ NextOf(items[k], items'[k])
    <2>1. items' = [items EXCEPT ![j] = items'[j]] /\ NextOf(items[j], items'[j])
      BY <1>3, SellNext
    <2> QED
      BY <2>1 DEF NextOf, TypeOK, Tables
  <1>4. ASSUME NEW r \in Requests, Step(r), ~SaveBatch(r)
        PROVE  items'[k] = items[k]
    BY <1>4 DEF Step, Find, Refuse, Read, Reject, Conflict, AppendLedger, SaveStatus, stock
  <1>5. ASSUME NEW r \in Requests, Crash(r) PROVE items'[k] = items[k]
    BY <1>5 DEF Crash, stock
  <1>6. ASSUME NEW t \in Transfers, Create(t) PROVE items'[k] = items[k]
    BY <1>6 DEF Create, stock
  <1>7. CASE UNCHANGED vars
    BY <1>7 DEF vars, stock
  <1> QED
    BY <1>1, <1>2, <1>3, <1>4, <1>5, <1>6, <1>7 DEF Next

LEMMA EarlierStays ==
    ASSUME TypeOK, Snapshots, [Next]_vars, NEW k \in Keys, NEW row \in Item,
           Earlier(row, k)
    PROVE  Earlier(row, k)'
  <1>1. items[k] \in Item /\ items[k].version \in Nat /\ row.version \in Nat
    BY DEF TypeOK, Tables, Earlier, Item
  <1>2. CASE items'[k] = items[k]
    BY <1>2 DEF Earlier
  <1>3. CASE items'[k] \in Item /\ items'[k].version = items[k].version + 1
    <2>1. items'[k] # NoRow
      BY <1>3, TransferAssumption
    <2> QED
      BY <1>1, <1>3, <2>1 DEF Earlier
  <1> QED
    BY <1>2, <1>3, RowsGoOn DEF Earlier, NextOf

\* Reading is the only step that changes what a call has read.
LEMMA LoadedStays ==
    ASSUME TypeOK, [Next]_vars, ~ \E r \in Requests : Read(r)
    PROVE  loaded' = loaded
BY DEF Next, Step, Create, Find, Refuse, Reject, SaveBatch, Conflict, AppendLedger,
       SaveStatus, Crash, Sell, vars

LEMMA NextSnapshots ==
    ASSUME TypeOK, Snapshots, [Next]_vars
    PROVE  Snapshots'
  <1> SUFFICES ASSUME NEW q \in Requests, NEW k \in Keys,
                      loaded'[q][k] \notin {NoRow, Unread}
               PROVE  Earlier(loaded[q][k], k)'
    BY DEF Snapshots
  <1>1. ASSUME loaded'[q][k] = loaded[q][k]
        PROVE  Earlier(loaded[q][k], k)'
    <2>1. loaded[q][k] \in Item /\ Earlier(loaded[q][k], k)
      BY <1>1 DEF TypeOK, Snapshots
    <2>2. \A row \in Item : Earlier(row, k) => Earlier(row, k)'
      BY EarlierStays
    <2> QED
      BY <1>1, <2>1, <2>2 DEF Earlier
  <1>2. ASSUME NEW r \in Requests, Read(r)
        PROVE  Earlier(loaded[q][k], k)'
    <2>1. items' = items
      BY <1>2 DEF Read, stock
    <2>2. loaded'[q][k] = loaded[q][k] \/ loaded'[q][k] = items[k]
      BY <1>2 DEF Read, TypeOK
    <2>3. CASE loaded'[q][k] = items[k]
      <3>1. items[k] \in Item
        BY <2>3 DEF TypeOK, Tables
      <3> QED
        BY <2>1, <2>3, <3>1 DEF Earlier, Item
    <2> QED
      BY <1>1, <2>2, <2>3
  <1> QED
    BY <1>1, <1>2, LoadedStays

-----------------------------------------------------------------------------
\* The calls whose movement is committed: a save adds its call, no step takes
\* one away.
LEMMA SaveJoins ==
    ASSUME TypeOK, NEW r \in Requests, SaveBatch(r),
           Op(r) = "cancel" => seen[r] = "dispatched",
           NEW op, NEW t
    PROVE  /\ r \notin Moves(op, t)
           /\ Moves(op, t)' = IF op = Op(r) /\ t = Transfer(r)
                              THEN Moves(op, t) \cup {r} ELSE Moves(op, t)
  <1>1. /\ pc[r] = "load" /\ pc' = [pc EXCEPT ![r] = "append"]
        /\ call' = call /\ seen' = seen
    BY DEF SaveBatch, AllRead
  <1>2. call[r] = [op |-> op, transfer |-> t] <=> op = Op(r) /\ t = Transfer(r)
    BY DEF Op, Transfer, TypeOK
  <1> QED
    BY <1>1, <1>2 DEF Moves, TypeOK

LEMMA OthersJoinNothing ==
    ASSUME TypeOK, [Next]_vars, ~ \E r \in Requests : SaveBatch(r), NEW op \in Ops, NEW t
    PROVE  Moves(op, t)' = Moves(op, t)
  <1> USE DEF TypeOK, Moves
  <1>1. ASSUME NEW r \in Requests, Find(r)
        PROVE  Moves(op, t)' = Moves(op, t)
    BY <1>1 DEF Find, Op, Ops
  <1>2. ASSUME NEW r \in Requests, Refuse(r) \/ Reject(r) \/ Conflict(r)
        PROVE  Moves(op, t)' = Moves(op, t)
    BY <1>2 DEF Refuse, Reject, Conflict, AllRead
  <1>3. ASSUME NEW r \in Requests, Read(r) \/ Crash(r)
        PROVE  Moves(op, t)' = Moves(op, t)
    BY <1>3 DEF Read, Crash
  <1>4. ASSUME NEW r \in Requests, AppendLedger(r) \/ SaveStatus(r)
        PROVE  Moves(op, t)' = Moves(op, t)
    BY <1>4 DEF AppendLedger, SaveStatus
  <1>5. ASSUME NEW u \in Transfers, Create(u)
        PROVE  Moves(op, t)' = Moves(op, t)
    BY <1>5 DEF Create
  <1>6. ASSUME NEW k \in Keys, Sell(k)
        PROVE  Moves(op, t)' = Moves(op, t)
    BY <1>6 DEF Sell
  <1>7. CASE UNCHANGED vars
    BY <1>7 DEF vars
  <1> QED
    BY <1>1, <1>2, <1>3, <1>4, <1>5, <1>6, <1>7 DEF Next, Step

-----------------------------------------------------------------------------
\* What a call that is under way has behind it.  A call that has seen the
\* transfer dispatched comes after a committed dispatch, which has made the
\* rows at the destination; so a cancellation, which passes over a row that is
\* not there, finds them all.
Reached(t) == \A k \in Side(t, Destination[t]) : items[k] # NoRow

Unmet(r) == \A k \in Keys : loaded[r][k] = Unread

Traced(r) ==
    /\ seen[r] = "dispatched" => Moves("dispatch", Transfer(r)) # {}
    /\ Op(r) = "receive" /\ pc[r] \notin {"find", "rejected"} => seen[r] = "dispatched"
    /\ Op(r) = "cancel" /\ pc[r] = "load" => seen[r] = "dispatched"
    /\ pc[r] = "find" => Unmet(r)
    /\ Op(r) = "cancel" /\ seen[r] = "dispatched" =>
         \A k \in Side(Transfer(r), Destination[Transfer(r)]) : loaded[r][k] # NoRow

Traces ==
    /\ \A t \in Transfers : Moves("dispatch", t) # {} => Reached(t)
    /\ \A r \in Requests : Traced(r)

IInv == TypeOK /\ Snapshots /\ StatusFollowsStock /\ Traces

LEMMA SideType ==
    ASSUME NEW t \in Transfers, NEW k \in Side(t, Destination[t])
    PROVE  /\ k \in Keys
           /\ k[2] = Destination[t]
           /\ k[1] \in Skus /\ Lines[t][k[1]] > 0
BY TransferAssumption DEF Side, Keys

\* No save passes over a row.
LEMMA NothingPassedOver ==
    ASSUME IInv, NEW r \in Requests, AllRead(r)
    PROVE  Saved(r) = Rows(r)
  <1> SUFFICES ASSUME NEW k \in Rows(r), loaded[r][k] = NoRow
               PROVE  Method(r, k) # "cancelInTransit"
    BY DEF Saved
  <1>1. TypeOK /\ Traced(r) /\ pc[r] = "load"
    BY DEF IInv, Traces, AllRead
  <1>2. Op(r) \in Ops
    BY <1>1, CallType
  <1>3. CASE Op(r) = "cancel"
    <2>1. k \notin Side(Transfer(r), Destination[Transfer(r)])
      BY <1>1, <1>3 DEF Traced
    <2>2. k \in Side(Transfer(r), Source[Transfer(r)])
      BY <1>3, <2>1 DEF Rows, Queries
    <2>3. k[2] = Source[Transfer(r)]
      BY <2>2 DEF Side
    <2> QED
      BY <1>3, <2>3 DEF Method
  <1>4. CASE Op(r) # "cancel"
    BY <1>2, <1>4 DEF Method, Ops
  <1> QED
    BY <1>3, <1>4

\* Rows stay once they are there, and a dispatch makes them.
LEMMA NextReached ==
    ASSUME IInv, [Next]_vars, NEW t \in Transfers, Moves("dispatch", t)' # {}
    PROVE  Reached(t)'
  <1> USE DEF IInv
  <1>1. ASSUME NEW k \in Keys, items[k] # NoRow PROVE items'[k] # NoRow
    BY <1>1, RowsGoOn, TransferAssumption
  <1>2. CASE Moves("dispatch", t) # {}
    BY <1>1, <1>2, SideType DEF Traces, Reached
  <1>3. CASE Moves("dispatch", t) = {}
    <2>1. PICK r \in Requests : SaveBatch(r)
      BY <1>3, OthersJoinNothing DEF Ops
    <2>2. Op(r) = "dispatch" /\ t = Transfer(r)
      <3>1. Op(r) = "cancel" => seen[r] = "dispatched"
        BY <2>1 DEF Traces, Traced, SaveBatch, AllRead
      <3> QED
        BY <1>3, <2>1, <3>1, SaveJoins
    <2>3. ASSUME NEW k \in Side(t, Destination[t]) PROVE items'[k] # NoRow
      <3>1. k \in Rows(r)
        BY <2>2 DEF Rows, Queries
      <3>2. k \in Saved(r)
        BY <2>1, <3>1, NothingPassedOver DEF SaveBatch
      <3>3. items'[k] \in Item
        BY <2>1, <3>2, SaveApplies DEF NextOf
      <3> QED
        BY <3>3, TransferAssumption
    <2> QED
      BY <2>3 DEF Reached
  <1> QED
    BY <1>2, <1>3

LEMMA MovesGrow ==
    ASSUME IInv, [Next]_vars, NEW op \in Ops, NEW t
    PROVE  Moves(op, t) \subseteq Moves(op, t)'
  <1>1. CASE \E r \in Requests : SaveBatch(r)
    <2>1. PICK r \in Requests : SaveBatch(r)
      BY <1>1
    <2>2. pc[r] = "load" /\ TypeOK /\ Traced(r)
      BY <2>1 DEF SaveBatch, AllRead, IInv, Traces
    <2>3. Op(r) = "cancel" => seen[r] = "dispatched"
      BY <2>2 DEF Traced
    <2> QED
      BY <2>1, <2>2, <2>3, SaveJoins
  <1>2. CASE ~ \E r \in Requests : SaveBatch(r)
    BY <1>2, OthersJoinNothing DEF IInv
  <1> QED
    BY <1>1, <1>2

LEMMA CallStays ==
    ASSUME [Next]_vars, NEW r
    PROVE  call' = call /\ Op(r)' = Op(r) /\ Transfer(r)' = Transfer(r)
BY DEF Next, Step, Create, Find, Refuse, Read, Reject, SaveBatch, Conflict, AppendLedger,
       SaveStatus, Crash, Sell, vars, Op, Transfer

\* A step of others leaves what a call has behind it, and so do the steps of
\* the call itself.
LEMMA NextTraced ==
    ASSUME IInv, [Next]_vars, NEW q \in Requests
    PROVE  Traced(q)'
  <1> USE DEF IInv
  <1>0. /\ Traced(q)
        /\ call' = call /\ Op(q)' = Op(q) /\ Transfer(q)' = Transfer(q)
        /\ Op(q) \in Ops /\ Transfer(q) \in Transfers
        /\ Moves("dispatch", Transfer(q)) # {} => Moves("dispatch", Transfer(q))' # {}
    BY CallStays, CallType, MovesGrow DEF Traces, Ops
  <1>1. ASSUME seen'[q] = seen[q], loaded'[q] = loaded[q],
               pc'[q] = pc[q] \/ pc'[q] = "rejected"
                 \/ /\ pc[q] \notin {"find", "rejected"}
                    /\ pc'[q] \in {"append", "saveStatus", "done"}
        PROVE  Traced(q)'
    BY <1>0, <1>1 DEF Traced, Unmet
  <1>2. ASSUME NEW r \in Requests, Find(r) PROVE Traced(q)'
    <2>1. CASE q = r
      <3>1. seen'[q] = transfers[Transfer(q)] /\ loaded' = loaded
        BY <1>2, <2>1 DEF Find, TypeOK
      <3>2. seen'[q] = "dispatched" => Moves("dispatch", Transfer(q))' # {}
        BY <1>0, <3>1 DEF StatusFollowsStock
      <3>3. Op(q) = "receive" => seen'[q] = "dispatched"
        BY <1>2, <2>1, <3>1 DEF Find, Allowed
      <3>4. Op(q) = "cancel" /\ pc'[q] = "load" => seen'[q] = "dispatched"
        BY <1>2, <2>1, <3>1 DEF Find, Allowed, TypeOK
      <3>5. Unmet(q) /\ Unmet(q)'
        BY <1>0, <1>2, <2>1, <3>1 DEF Find, Traced, Unmet
      <3>6. \A k \in Side(Transfer(q), Destination[Transfer(q)]) : loaded[q][k] # NoRow
        BY <1>0, <3>5, SideType, TransferAssumption DEF Unmet
      <3> QED
        BY <1>0, <3>1, <3>2, <3>3, <3>4, <3>5, <3>6 DEF Traced
    <2>2. CASE q # r
      BY <1>1, <1>2, <2>2 DEF Find, TypeOK
    <2> QED
      BY <2>1, <2>2
  <1>3. ASSUME NEW r \in Requests, Read(r) PROVE Traced(q)'
    <2>1. CASE q = r
      <3>1. pc[q] = "load" /\ pc' = pc /\ seen' = seen
        BY <1>3, <2>1 DEF Read
      <3>2. ASSUME Op(q) = "cancel", seen[q] = "dispatched",
                   NEW k \in Side(Transfer(q), Destination[Transfer(q)])
            PROVE  loaded'[q][k] # NoRow
        <4>1. k \in Keys
          BY <1>0, SideType
        <4>2. items[k] # NoRow
          BY <1>0, <3>2 DEF Traces, Reached, Traced
        <4>3. loaded[q][k] # NoRow
          BY <1>0, <3>2 DEF Traced
        <4>4. loaded'[q][k] = items[k] \/ loaded'[q][k] = loaded[q][k]
          BY <1>3, <2>1, <4>1 DEF Read, TypeOK
        <4> QED
          BY <4>2, <4>3, <4>4
      <3> QED
        BY <1>0, <3>1, <3>2 DEF Traced
    <2>2. CASE q # r
      BY <1>1, <1>3, <2>2 DEF Read, TypeOK
    <2> QED
      BY <2>1, <2>2
  <1>4. ASSUME NEW r \in Requests, Refuse(r) \/ Reject(r) \/ Conflict(r) PROVE Traced(q)'
    BY <1>1, <1>4 DEF Refuse, Reject, Conflict, TypeOK
  <1>5. ASSUME NEW r \in Requests, SaveBatch(r) PROVE Traced(q)'
    BY <1>1, <1>5 DEF SaveBatch, AllRead, TypeOK
  <1>6. ASSUME NEW r \in Requests, AppendLedger(r) \/ SaveStatus(r) PROVE Traced(q)'
    BY <1>1, <1>6 DEF AppendLedger, SaveStatus, TypeOK
  <1>7. ASSUME NEW r \in Requests, Crash(r) PROVE Traced(q)'
    BY <1>1, <1>7 DEF Crash
  <1>8. ASSUME NEW t \in Transfers, Create(t) PROVE Traced(q)'
    BY <1>1, <1>8 DEF Create
  <1>9. ASSUME NEW k \in Keys, Sell(k) PROVE Traced(q)'
    BY <1>1, <1>9 DEF Sell
  <1>10. CASE UNCHANGED vars
    BY <1>1, <1>10 DEF vars
  <1> QED
    BY <1>2, <1>3, <1>4, <1>5, <1>6, <1>7, <1>8, <1>9, <1>10 DEF Next, Step

\* A call writes the status only after its movement is committed.
LEMMA NextStatus ==
    ASSUME IInv, [Next]_vars
    PROVE  StatusFollowsStock'
  <1> USE DEF IInv
  <1> SUFFICES ASSUME NEW t \in Transfers
               PROVE  /\ transfers'[t] = "dispatched" => Moves("dispatch", t)' # {}
                      /\ transfers'[t] = "received" => Moves("receive", t)' # {}
                      /\ Moves("receive", t)' \cup Moves("cancel", t)' # {}
                           => Moves("dispatch", t)' # {}
    BY DEF StatusFollowsStock
  <1>1. \A op \in Ops : Moves(op, t) \subseteq Moves(op, t)'
    BY MovesGrow
  <1>2. /\ transfers[t] = "dispatched" => Moves("dispatch", t)' # {}
        /\ transfers[t] = "received" => Moves("receive", t)' # {}
        /\ Moves("receive", t) \cup Moves("cancel", t) # {} => Moves("dispatch", t)' # {}
    BY <1>1 DEF StatusFollowsStock, Ops
  <1>3. ASSUME NEW r \in Requests, SaveStatus(r)
        PROVE  /\ transfers'[t] = "dispatched" => Moves("dispatch", t)' # {}
               /\ transfers'[t] = "received" => Moves("receive", t)' # {}
    <2>1. CASE t = Transfer(r)
      <3>1. transfers'[t] = Target(Op(r)) /\ Op(r) \in Ops
        BY <1>3, <2>1, CallType DEF SaveStatus, TypeOK
      <3>2. Op(r) # "cancel" => r \in Moves(Op(r), t)
        BY <1>3, <2>1, CallType DEF SaveStatus, Moves
      <3> QED
        BY <1>1, <3>1, <3>2 DEF Target, Ops
    <2>2. CASE t # Transfer(r)
      BY <1>2, <1>3, <2>2 DEF SaveStatus, TypeOK
    <2> QED
      BY <2>1, <2>2
  <1>4. ASSUME NEW u \in Transfers, Create(u)
        PROVE  transfers'[t] = transfers[t] \/ transfers'[t] = "draft"
    BY <1>4 DEF Create, TypeOK
  <1>5. ASSUME ~ \E r \in Requests : SaveStatus(r), ~ \E u \in Transfers : Create(u)
        PROVE  transfers' = transfers
    BY <1>5 DEF Next, Step, Find, Refuse, Read, Reject, SaveBatch, Conflict,
                AppendLedger, Crash, Sell, vars
  <1>6. Moves("receive", t)' \cup Moves("cancel", t)' # {} => Moves("dispatch", t)' # {}
    <2>1. CASE \E r \in Requests : SaveBatch(r)
      <3>1. PICK r \in Requests : SaveBatch(r)
        BY <2>1
      <3>2. Traced(r) /\ pc[r] = "load"
        BY <3>1 DEF Traces, SaveBatch, AllRead
      <3>3. Op(r) \in {"receive", "cancel"} => Moves("dispatch", Transfer(r)) # {}
        BY <3>2 DEF Traced
      <3> QED
        BY <1>1, <1>2, <3>1, <3>2, <3>3, SaveJoins DEF Traced, Ops
    <2>2. CASE ~ \E r \in Requests : SaveBatch(r)
      BY <1>2, <2>2, OthersJoinNothing DEF Ops
    <2> QED
      BY <2>1, <2>2
  <1> QED
    BY <1>2, <1>3, <1>4, <1>5, <1>6

LEMMA InitTraces == Init => IInv
  <1> SUFFICES ASSUME Init PROVE IInv
    OBVIOUS
  <1>1. \A op, t : Moves(op, t) = {}
    BY DEF Init, Moves
  <1>2. StatusFollowsStock
    BY <1>1 DEF Init, StatusFollowsStock
  <1>3. Snapshots
    BY DEF Init, Snapshots
  <1>4. \A r \in Requests : Unmet(r)
    BY DEF Init, Unmet
  <1>5. \A r \in Requests : Traced(r)
    BY <1>4 DEF Init, Traced
  <1> QED
    BY <1>1, <1>2, <1>3, <1>5, InitType DEF IInv, Traces

LEMMA NextInv == IInv /\ [Next]_vars => IInv'
BY NextType, NextSnapshots, NextStatus, NextReached, NextTraced DEF IInv, Traces

LEMMA Invariance == Spec => []IInv
  <1>1. Init => IInv
    BY InitTraces
  <1>2. IInv /\ [Next]_vars => IInv'
    BY NextInv
  <1> QED
    BY <1>1, <1>2, PTL DEF Spec

-----------------------------------------------------------------------------
\* Finitely many calls are under way or over: none at first, and each step is
\* of one call.
Begun == {r \in Requests : pc[r] # "find"}

FinitelyMany == IsFiniteSet(Begun)

LEMMA NextFinite ==
    ASSUME TypeOK, [Next]_vars, FinitelyMany
    PROVE  FinitelyMany'
  <1>1. ASSUME NEW r \in Requests, Step(r) \/ Crash(r)
        PROVE  Begun' \subseteq Begun \cup {r}
    BY <1>1 DEF Step, Crash, Find, Refuse, Read, Reject, SaveBatch, Conflict, AppendLedger,
                SaveStatus, Begun, TypeOK
  <1>2. ASSUME ~ \E r \in Requests : Step(r) \/ Crash(r)
        PROVE  Begun' = Begun
    BY <1>2 DEF Next, Create, Sell, vars, Begun
  <1>3. \A r : IsFiniteSet(Begun \cup {r})
    BY FS_AddElement DEF FinitelyMany
  <1> QED
    BY <1>1, <1>2, <1>3, FS_Subset DEF FinitelyMany

LEMMA MovesFinite ==
    ASSUME FinitelyMany, NEW op, NEW t
    PROVE  IsFiniteSet(Moves(op, t)) /\ Cardinality(Moves(op, t)) \in Nat
BY FS_Subset, FS_CardinalityType DEF FinitelyMany, Begun, Moves

LEMMA InitFinite == Init => FinitelyMany
  <1> SUFFICES ASSUME Init PROVE FinitelyMany
    OBVIOUS
  <1>1. Begun = {}
    BY DEF Init, Begun
  <1> QED
    BY <1>1, FS_EmptySet DEF FinitelyMany

-----------------------------------------------------------------------------
\* What a save does to the goods in transit to a row; what it does to those on
\* hand is LedgerDelta.
TransitDelta(r, k) ==
    IF k \notin Rows(r) THEN 0
    ELSE CASE Method(r, k) = "createInTransit" -> Amount(r, k)
           [] Method(r, k) \in {"receiveInTransit", "cancelInTransit"} -> -Amount(r, k)
           [] OTHER -> 0

LEMMA TransitType ==
    ASSUME TypeOK, NEW r \in Requests, NEW k
    PROVE  TransitDelta(r, k) \in Int
BY RowType DEF TransitDelta

LEMMA RevisedFields ==
    \A i, q, a, t : Revised(i, q, a, t).quantity = q /\ Revised(i, q, a, t).inTransit = t
BY DEF Revised

LEMMA MethodOf ==
    ASSUME TypeOK, NEW r \in Requests, NEW k
    PROVE  Method(r, k) \in {"dispatchStock", "createInTransit", "receiveInTransit",
                             "receiveStock", "cancelInTransit"}
BY CallType DEF Method, Ops

LEMMA FieldType ==
    ASSUME NEW table \in Tables, NEW k \in Keys
    PROVE  OnHand(table, k) \in Nat /\ Incoming(table, k) \in Nat
BY DEF Tables, OnHand, Incoming, Item

LEMMA SaveDeltas ==
    ASSUME IInv, NEW r \in Requests, SaveBatch(r), NEW k \in Keys
    PROVE  /\ OnHand(items', k) = OnHand(items, k) + LedgerDelta(r, k)
           /\ Incoming(items', k) = Incoming(items, k) + TransitDelta(r, k)
  <1> USE DEF IInv
  <1>1. OnHand(items, k) \in Nat /\ Incoming(items, k) \in Nat
    BY FieldType DEF TypeOK
  <1>2. Saved(r) = Rows(r)
    BY NothingPassedOver DEF SaveBatch
  <1>3. CASE k \in Rows(r)
    <2> DEFINE i == Base(r, k)
               n == Amount(r, k)
               m == Method(r, k)
    <2>1. /\ items'[k] = Apply(m, i, n)
          /\ items'[k] # NoRow
          /\ i = IF items[k] = NoRow THEN CreateNew ELSE items[k]
      BY <1>2, <1>3, SaveApplies, TransferAssumption DEF NextOf
    <2>2. OnHand(items, k) = i.quantity /\ Incoming(items, k) = i.inTransit
      BY <2>1 DEF OnHand, Incoming, CreateNew
    <2>3. OnHand(items', k) = Apply(m, i, n).quantity
          /\ Incoming(items', k) = Apply(m, i, n).inTransit
      BY <2>1 DEF OnHand, Incoming
    <2>4. n \in Nat
      BY <1>3, RowType
    <2> HIDE DEF i, n, m
    <2>5. CASE m = "dispatchStock"
      <3>1. LedgerDelta(r, k) = -n /\ TransitDelta(r, k) = 0
        BY <1>3, <2>5 DEF LedgerDelta, TransitDelta, m, n
      <3>2. Apply(m, i, n).quantity = i.quantity - n /\ Apply(m, i, n).inTransit = i.inTransit
        BY <2>5, ApplyIs, RevisedFields
      <3> QED
        BY <1>1, <2>2, <2>3, <2>4, <3>1, <3>2
    <2>6. CASE m = "createInTransit"
      <3>1. LedgerDelta(r, k) = 0 /\ TransitDelta(r, k) = n
        BY <1>3, <2>6 DEF LedgerDelta, TransitDelta, m, n
      <3>2. Apply(m, i, n).quantity = i.quantity /\ Apply(m, i, n).inTransit = i.inTransit + n
        BY <2>6, ApplyIs, RevisedFields
      <3> QED
        BY <1>1, <2>2, <2>3, <2>4, <3>1, <3>2
    <2>7. CASE m = "receiveInTransit"
      <3>1. LedgerDelta(r, k) = n /\ TransitDelta(r, k) = -n
        BY <1>3, <2>7 DEF LedgerDelta, TransitDelta, m, n
      <3>2. /\ Apply(m, i, n).quantity = i.quantity + n
            /\ Apply(m, i, n).inTransit = i.inTransit - n
        BY <2>7, ApplyIs, RevisedFields
      <3> QED
        BY <1>1, <2>2, <2>3, <2>4, <3>1, <3>2
    <2>8. CASE m = "receiveStock"
      <3>1. LedgerDelta(r, k) = n /\ TransitDelta(r, k) = 0
        BY <1>3, <2>8 DEF LedgerDelta, TransitDelta, m, n
      <3>2. Apply(m, i, n).quantity = i.quantity + n /\ Apply(m, i, n).inTransit = i.inTransit
        BY <2>8, ApplyIs, RevisedFields
      <3> QED
        BY <1>1, <2>2, <2>3, <2>4, <3>1, <3>2
    <2>9. CASE m = "cancelInTransit"
      <3>1. LedgerDelta(r, k) = 0 /\ TransitDelta(r, k) = -n
        BY <1>3, <2>9 DEF LedgerDelta, TransitDelta, m, n
      <3>2. Apply(m, i, n).quantity = i.quantity /\ Apply(m, i, n).inTransit = i.inTransit - n
        BY <2>9, ApplyIs, RevisedFields
      <3> QED
        BY <1>1, <2>2, <2>3, <2>4, <3>1, <3>2
    <2>10. m \in {"dispatchStock", "createInTransit", "receiveInTransit",
                  "receiveStock", "cancelInTransit"}
      BY MethodOf DEF m
    <2> QED
      BY <2>5, <2>6, <2>7, <2>8, <2>9, <2>10
  <1>4. CASE k \notin Rows(r)
    <2>1. items'[k] = items[k]
      BY <1>2, <1>4 DEF SaveBatch
    <2>2. LedgerDelta(r, k) = 0 /\ TransitDelta(r, k) = 0
      BY <1>4 DEF LedgerDelta, TransitDelta
    <2> QED
      BY <1>1, <2>1, <2>2 DEF OnHand, Incoming
  <1> QED
    BY <1>3, <1>4

\* What the operations say, row by row.
LEMMA DeltasOf ==
    ASSUME TypeOK, NEW r \in Requests, NEW s \in Skus, NEW l \in Locations,
           NEW t, t = Transfer(r), NEW n, n = Lines[t][s]
    PROVE  /\ LedgerDelta(r, <<s, l>>) =
                 IF l = Source[t]
                 THEN IF Op(r) = "dispatch" THEN -n
                      ELSE IF Op(r) = "cancel" THEN n ELSE 0
                 ELSE IF l = Destination[t] /\ Op(r) = "receive" THEN n ELSE 0
           /\ TransitDelta(r, <<s, l>>) =
                 IF l = Destination[t]
                 THEN IF Op(r) = "dispatch" THEN n ELSE -n
                 ELSE 0
  <1> DEFINE k == <<s, l>>
  <1>1. Op(r) \in Ops /\ n \in Nat /\ Source[t] # Destination[t]
    BY CallType
  <1>2. k[1] = s /\ k[2] = l /\ Amount(r, k) = n
    BY DEF Amount
  <1>3. k \in Rows(r) <=>
          n > 0 /\ (l = Destination[t] \/ (l = Source[t] /\ Op(r) # "receive"))
    BY InRows
  <1>4. Method(r, k) =
          CASE Op(r) = "dispatch" -> IF l = Source[t] THEN "dispatchStock" ELSE "createInTransit"
            [] Op(r) = "receive"  -> "receiveInTransit"
            [] Op(r) = "cancel"   -> IF l = Source[t] THEN "receiveStock" ELSE "cancelInTransit"
    BY <1>2 DEF Method
  <1> HIDE DEF k
  <1>5. CASE k \in Rows(r)
    BY <1>1, <1>2, <1>3, <1>4, <1>5 DEF LedgerDelta, TransitDelta, Ops, k
  <1>6. CASE k \notin Rows(r)
    BY <1>1, <1>3, <1>6 DEF LedgerDelta, TransitDelta, Ops, k
  <1> QED
    BY <1>5, <1>6

-----------------------------------------------------------------------------
\* Stock and sales change by saves and sales only.
LEMMA OthersMoveNothing ==
    ASSUME [Next]_vars, ~ \E r \in Requests : SaveBatch(r), ~ \E k \in Keys : Sell(k)
    PROVE  items' = items /\ sold' = sold
BY DEF Next, Step, Create, Find, Refuse, Read, Reject, Conflict, AppendLedger, SaveStatus,
       Crash, vars, stock

\* The pieces of a SKU, location by location: there or on their way, and sold.
Row(table, s) == [l \in Locations |-> OnHand(table, <<s, l>>) + Incoming(table, <<s, l>>)]
SoldRow(s) == [l \in Locations |-> sold[<<s, l>>]]

LEMMA TotalIs ==
    ASSUME NEW s
    PROVE  /\ \A table : Total(table, s) = SumFunctionOnSet(Row(table, s), Locations)
           /\ SumFunction(SoldRow(s)) = SumFunctionOnSet(SoldRow(s), Locations)
BY DEF Total, SumFunction, Row, SoldRow

LEMMA RowSummable ==
    ASSUME NEW table \in Tables, NEW s \in Skus
    PROVE  Summable(Row(table, s), Locations)
  <1>1. \A l \in Locations : <<s, l>> \in Keys
    BY DEF Keys
  <1>2. \A l \in Locations : Row(table, s)[l] \in Int
    BY <1>1, FieldType DEF Row
  <1> QED
    BY <1>2, FiniteAssumption DEF Summable

\* A save takes from one location what it gives to the other.
LEMMA SaveConserves ==
    ASSUME IInv, TypeOK', NEW r \in Requests, SaveBatch(r), NEW s \in Skus
    PROVE  Total(items', s) = Total(items, s)
  <1> DEFINE t == Transfer(r)
             x == Source[t]
             y == Destination[t]
             n == Lines[t][s]
             f == Row(items, s)
             g == Row(items', s)
  <1>1. /\ x \in Locations /\ y \in Locations /\ x # y /\ n \in Nat
        /\ Op(r) \in Ops
    BY CallType DEF IInv
  <1>2. Summable(f, Locations) /\ Summable(g, Locations)
    BY RowSummable DEF IInv, TypeOK
  <1>3. ASSUME NEW l \in Locations
        PROVE  g[l] = f[l] + LedgerDelta(r, <<s, l>>) + TransitDelta(r, <<s, l>>)
    <2>1. <<s, l>> \in Keys
      BY DEF Keys
    <2>2. OnHand(items, <<s, l>>) \in Nat /\ Incoming(items, <<s, l>>) \in Nat
      BY <2>1, FieldType DEF IInv, TypeOK
    <2>3. /\ LedgerDelta(r, <<s, l>>) \in Int /\ TransitDelta(r, <<s, l>>) \in Int
      BY <1>1, DeltasOf DEF IInv
    <2>4. /\ OnHand(items', <<s, l>>) = OnHand(items, <<s, l>>) + LedgerDelta(r, <<s, l>>)
          /\ Incoming(items', <<s, l>>) = Incoming(items, <<s, l>>) + TransitDelta(r, <<s, l>>)
      BY <2>1, SaveDeltas
    <2> QED
      BY <2>2, <2>3, <2>4 DEF Row
  <1>4. f[x] \in Int /\ f[y] \in Int
    BY <1>1, <1>2 DEF Summable
  <1> HIDE DEF f, g
  <1>5. \A z \in Locations : z # x /\ z # y => f[z] = g[z]
    <2> SUFFICES ASSUME NEW z \in Locations, z # x, z # y PROVE f[z] = g[z]
      OBVIOUS
    <2>1. LedgerDelta(r, <<s, z>>) = 0 /\ TransitDelta(r, <<s, z>>) = 0
      BY DeltasOf DEF IInv
    <2>2. f[z] \in Int
      BY <1>2 DEF Summable
    <2> QED
      BY <1>3, <2>1, <2>2
  <1>6. g[x] + g[y] = f[x] + f[y]
    <2>1. /\ LedgerDelta(r, <<s, x>>) = IF Op(r) = "dispatch" THEN -n
                                        ELSE IF Op(r) = "cancel" THEN n ELSE 0
          /\ TransitDelta(r, <<s, x>>) = 0
          /\ LedgerDelta(r, <<s, y>>) = IF Op(r) = "receive" THEN n ELSE 0
          /\ TransitDelta(r, <<s, y>>) = IF Op(r) = "dispatch" THEN n ELSE -n
      BY <1>1, DeltasOf DEF IInv
    <2> QED
      BY <1>1, <1>3, <1>4, <2>1 DEF Ops
  <1>7. SumFunctionOnSet(g, Locations) = SumFunctionOnSet(f, Locations)
    BY <1>1, <1>2, <1>5, <1>6, SumMove
  <1> QED
    BY <1>7, TotalIs DEF f, g

\* A sale takes one piece from the stock and adds one to the sales.
LEMMA SellConserves ==
    ASSUME IInv, TypeOK', NEW k \in Keys, Sell(k), NEW s \in Skus
    PROVE  Total(items', s) + SumFunction(SoldRow(s)')
             = Total(items, s) + SumFunction(SoldRow(s))
  <1> DEFINE f == Row(items, s)
             g == Row(items', s)
             u == SoldRow(s)
             v == SoldRow(s)'
  <1>1. Summable(f, Locations) /\ Summable(g, Locations)
    BY RowSummable DEF IInv, TypeOK
  <1>2. \A l \in Locations : <<s, l>> \in Keys
    BY DEF Keys
  <1>3. Summable(u, Locations) /\ Summable(v, Locations)
    <2>1. \A l \in Locations : u[l] \in Int /\ v[l] \in Int
      BY <1>2 DEF IInv, TypeOK, SoldRow
    <2> QED
      BY <2>1, FiniteAssumption DEF Summable
  <1>4. PICK s0 \in Skus, x \in Locations : k = <<s0, x>>
    BY DEF Keys
  <1>5. /\ OnHand(items', k) = OnHand(items, k) - 1
        /\ Incoming(items', k) = Incoming(items, k)
        /\ sold'[k] = sold[k] + 1
        /\ \A j \in Keys : j # k => items'[j] = items[j] /\ sold'[j] = sold[j]
    <2>1. /\ items[k] \in Item /\ items'[k] \in Item
          /\ items'[k] = DispatchStock(items[k], 1)
          /\ items' = [items EXCEPT ![k] = items'[k]]
      BY SellNext DEF IInv, NextOf
    <2>2. items[k] # NoRow /\ items'[k] # NoRow
      BY <2>1, TransferAssumption
    <2>3. sold' = [sold EXCEPT ![k] = @ + 1]
      BY DEF Sell
    <2> QED
      BY <2>1, <2>2, <2>3, RevisedFields DEF OnHand, Incoming, DispatchStock, IInv, TypeOK, Tables
  <1>6. OnHand(items, k) \in Nat /\ Incoming(items, k) \in Nat /\ sold[k] \in Nat
    BY FieldType DEF IInv, TypeOK
  <1>7. CASE s0 = s
    <2>1. g[x] = f[x] - 1 /\ v[x] = u[x] + 1
      BY <1>4, <1>5, <1>6, <1>7 DEF Row, SoldRow
    <2>2. \A y \in Locations : y # x => f[y] = g[y] /\ u[y] = v[y]
      BY <1>2, <1>4, <1>5, <1>7 DEF Row, SoldRow, OnHand, Incoming
    <2>3. /\ f[x] \in Int /\ u[x] \in Int
          /\ SumFunctionOnSet(f, Locations) \in Int
          /\ SumFunctionOnSet(u, Locations) \in Int
      BY <1>1, <1>3, SumType DEF Summable
    <2> HIDE DEF f, g, u, v
    <2>4. SumFunctionOnSet(g, Locations) = SumFunctionOnSet(f, Locations) + (g[x] - f[x])
      BY <1>1, <2>2, SumUpdate
    <2>5. SumFunctionOnSet(v, Locations) = SumFunctionOnSet(u, Locations) + (v[x] - u[x])
      BY <1>3, <2>2, SumUpdate
    <2>6. SumFunctionOnSet(g, Locations) + SumFunctionOnSet(v, Locations)
            = SumFunctionOnSet(f, Locations) + SumFunctionOnSet(u, Locations)
      BY <2>1, <2>3, <2>4, <2>5
    <2>7. SumFunction(v) = SumFunctionOnSet(v, Locations)
      BY DEF v, SoldRow, SumFunction
    <2> QED
      BY <2>6, <2>7, TotalIs DEF f, g, u, v
  <1>8. CASE s0 # s
    <2>1. \A l \in Locations : <<s, l>> # k
      BY <1>4, <1>8
    <2>2. g = f /\ v = u
      BY <1>2, <1>5, <2>1 DEF Row, SoldRow, OnHand, Incoming
    <2> QED
      BY <2>2, TotalIs
  <1> QED
    BY <1>7, <1>8

LEMMA NextConserves ==
    ASSUME IInv, TypeOK', [Next]_vars, StockConserved
    PROVE  StockConserved'
  <1> SUFFICES ASSUME NEW s \in Skus
               PROVE  Total(items', s) + SumFunction(SoldRow(s)') = Total(InitialItems, s)
    BY DEF StockConserved, SoldRow
  <1>1. Total(items, s) + SumFunction(SoldRow(s)) = Total(InitialItems, s)
    BY DEF StockConserved, SoldRow
  <1>2. CASE \E r \in Requests : SaveBatch(r)
    <2>1. Total(items', s) = Total(items, s)
      BY <1>2, SaveConserves
    <2>2. sold' = sold
      BY <1>2 DEF SaveBatch
    <2> QED
      BY <1>1, <2>1, <2>2 DEF SoldRow
  <1>3. CASE \E k \in Keys : Sell(k)
    BY <1>1, <1>3, SellConserves
  <1>4. CASE ~ (\E r \in Requests : SaveBatch(r)) /\ ~ (\E k \in Keys : Sell(k))
    <2>1. items' = items /\ sold' = sold
      BY <1>4, OthersMoveNothing
    <2> QED
      BY <1>1, <2>1 DEF SoldRow
  <1> QED
    BY <1>2, <1>3, <1>4

LEMMA InitConserved == Init => StockConserved
  <1> SUFFICES ASSUME Init, NEW s \in Skus
               PROVE  Total(items, s) + SumFunction(SoldRow(s)) = Total(InitialItems, s)
    BY DEF StockConserved, SoldRow
  <1>1. \A l \in Locations : SoldRow(s)[l] = 0
    BY DEF Init, SoldRow, Keys
  <1>2. SumFunctionOnSet(SoldRow(s), Locations) = 0
    BY <1>1, FiniteAssumption, SumZero
  <1>3. SumFunctionOnSet(Row(InitialItems, s), Locations) \in Int
    BY RowSummable, SumType, TransferAssumption
  <1> QED
    BY <1>2, <1>3, TotalIs DEF Init

\* Transfers neither make nor lose stock, for any number of locations, transfers
\* and calls that overlap, conflict or stop half-way.
THEOREM Conservation == Spec => []StockConserved
  <1>1. Init => StockConserved
    BY InitConserved
  <1>2. IInv /\ IInv' /\ [Next]_vars /\ StockConserved => StockConserved'
    BY NextConserves DEF IInv
  <1>3. Spec => []IInv
    BY Invariance
  <1> QED
    BY <1>1, <1>2, <1>3, PTL DEF Spec

-----------------------------------------------------------------------------
\* What the transfers to a location owe it, of one SKU.
Towards(l) == {t \in Transfers : Destination[t] = l}

OwedRow(s, l) == [t \in Towards(l) |-> Lines[t][s] * Owed(t)]

LEMMA OwedType ==
    ASSUME FinitelyMany, NEW t
    PROVE  Owed(t) \in Int
BY MovesFinite DEF Owed

LEMMA OwedSummable ==
    ASSUME FinitelyMany, NEW s \in Skus, NEW l
    PROVE  Summable(OwedRow(s, l), Towards(l))
  <1>1. IsFiniteSet(Towards(l))
    BY FiniteAssumption, FS_Subset DEF Towards
  <1>2. \A t \in Towards(l) : OwedRow(s, l)[t] \in Int
    <2>1. \A t \in Transfers : Lines[t][s] \in Nat
      BY TransferAssumption
    <2>2. \A m \in Nat, n \in Int : m * n \in Int
      OBVIOUS
    <2> QED
      BY <2>1, <2>2, OwedType DEF OwedRow, Towards
  <1> QED
    BY <1>1, <1>2 DEF Summable

\* A save changes what its own transfer owes: a dispatch adds one movement to
\* the debt, a receipt or a cancellation takes one off.
LEMMA SaveOwes ==
    ASSUME IInv, FinitelyMany, NEW r \in Requests, SaveBatch(r), NEW t \in Transfers
    PROVE  Owed(t)' = IF t # Transfer(r) THEN Owed(t)
                      ELSE IF Op(r) = "dispatch" THEN Owed(t) + 1 ELSE Owed(t) - 1
  <1>1. Op(r) = "cancel" => seen[r] = "dispatched"
    BY DEF IInv, Traces, Traced, SaveBatch, AllRead
  <1>2. Op(r) \in Ops
    BY CallType DEF IInv
  <1>3. ASSUME NEW op
        PROVE  Cardinality(Moves(op, t))' =
                 IF op = Op(r) /\ t = Transfer(r)
                 THEN Cardinality(Moves(op, t)) + 1 ELSE Cardinality(Moves(op, t))
    <2>1. /\ r \notin Moves(op, t)
          /\ Moves(op, t)' = IF op = Op(r) /\ t = Transfer(r)
                             THEN Moves(op, t) \cup {r} ELSE Moves(op, t)
      BY <1>1, SaveJoins DEF IInv
    <2>2. IsFiniteSet(Moves(op, t))
      BY MovesFinite
    <2>3. Cardinality(Moves(op, t) \cup {r}) = Cardinality(Moves(op, t)) + 1
      BY <2>1, <2>2, FS_AddElement
    <2> QED
      BY <2>1, <2>3
  <1>4. \A op : Cardinality(Moves(op, t)) \in Nat
    BY MovesFinite
  <1> QED
    BY <1>2, <1>3, <1>4 DEF Owed, Ops

LEMMA SavePaysOff ==
    ASSUME IInv, FinitelyMany, FinitelyMany', NEW r \in Requests, SaveBatch(r),
           NEW s \in Skus, NEW l \in Locations
    PROVE  SumFunctionOnSet(OwedRow(s, l)', Towards(l))
             = SumFunctionOnSet(OwedRow(s, l), Towards(l)) + TransitDelta(r, <<s, l>>)
  <1>0. PICK x \in Transfers : x = Transfer(r)
    BY CallType DEF IInv
  <1> DEFINE n == Lines[x][s]
             f == OwedRow(s, l)
             g == OwedRow(s, l)'
             T == Towards(l)
  <1>1. Op(r) \in Ops /\ n \in Nat
    BY <1>0, CallType DEF IInv
  <1>2. Summable(f, T)
    BY OwedSummable
  <1>3. Summable(g, T)
    <2>1. \A t : Owed(t)' \in Int
      BY MovesFinite, FS_Subset, FS_CardinalityType DEF FinitelyMany, Begun, Moves, Owed
    <2>2. \A t \in Transfers : Lines[t][s] \in Nat
      BY TransferAssumption
    <2>3. \A m \in Nat, i \in Int : m * i \in Int
      OBVIOUS
    <2>4. \A t \in T : g[t] \in Int
      BY <2>1, <2>2, <2>3 DEF OwedRow, Towards
    <2> QED
      BY <1>2, <2>4 DEF Summable
  <1>4. \A t \in T : t # x => f[t] = g[t]
    BY <1>0, SaveOwes DEF OwedRow, Towards
  <1>5. SumFunctionOnSet(f, T) \in Int
    BY <1>2, SumType
  <1>6. CASE Destination[x] = l
    <2>1. x \in T
      BY <1>1, <1>6 DEF Towards
    <2>2. TransitDelta(r, <<s, l>>) = IF Op(r) = "dispatch" THEN n ELSE -n
      BY <1>0, <1>6, DeltasOf DEF IInv
    <2>3. f[x] = n * Owed(x) /\ g[x] = n * Owed(x)'
      BY <2>1 DEF OwedRow
    <2>4. /\ Owed(x) \in Int
          /\ Owed(x)' = IF Op(r) = "dispatch" THEN Owed(x) + 1 ELSE Owed(x) - 1
      <3>1. Owed(x) \in Int
        BY OwedType
      <3>2. Owed(x)' = IF Op(r) = "dispatch" THEN Owed(x) + 1 ELSE Owed(x) - 1
        BY <1>0, SaveOwes
      <3> QED
        BY <3>1, <3>2
    <2>5. \A i \in Int : n * (i + 1) = n * i + n /\ n * (i - 1) = n * i - n /\ n * i \in Int
      <3> HIDE DEF n
      <3> QED
        BY <1>1
    <2>6. g[x] = f[x] + TransitDelta(r, <<s, l>>)
      BY <1>1, <2>2, <2>3, <2>4, <2>5
    <2>7. f[x] \in Int /\ TransitDelta(r, <<s, l>>) \in Int
      BY <1>1, <2>2, <2>3, <2>4, <2>5
    <2> HIDE DEF f, g, T
    <2>8. SumFunctionOnSet(g, T) = SumFunctionOnSet(f, T) + (g[x] - f[x])
      BY <1>2, <1>3, <1>4, <2>1, SumUpdate
    <2>9. SumFunctionOnSet(g, T) = SumFunctionOnSet(f, T) + TransitDelta(r, <<s, l>>)
      BY <1>5, <2>6, <2>7, <2>8
    <2> QED
      BY <2>9 DEF f, g, T
  <1>7. CASE Destination[x] # l
    <2>1. TransitDelta(r, <<s, l>>) = 0
      BY <1>0, <1>7, DeltasOf DEF IInv
    <2>2. f = g
      BY <1>4, <1>7 DEF OwedRow, Towards
    <2> QED
      BY <1>5, <2>1, <2>2
  <1> QED
    BY <1>6, <1>7

LEMMA OwedIs ==
    InTransitIsOwed <=>
        \A s \in Skus, l \in Locations :
            Incoming(items, <<s, l>>) = Incoming(InitialItems, <<s, l>>)
                + SumFunctionOnSet(OwedRow(s, l), Towards(l))
BY DEF InTransitIsOwed, OwedRow, Towards, SumFunction

\* Sales leave what is in transit.
LEMMA SellLeavesTransit ==
    ASSUME TypeOK, NEW k \in Keys, Sell(k), NEW j \in Keys
    PROVE  Incoming(items', j) = Incoming(items, j)
  <1>1. /\ items[k] \in Item /\ items'[k] \in Item
        /\ items'[k] = DispatchStock(items[k], 1)
        /\ items' = [items EXCEPT ![k] = items'[k]]
    BY SellNext DEF NextOf
  <1> QED
    BY <1>1, RevisedFields, TransferAssumption DEF Incoming, DispatchStock, TypeOK, Tables

LEMMA NextOwed ==
    ASSUME IInv, FinitelyMany, FinitelyMany', [Next]_vars, InTransitIsOwed
    PROVE  InTransitIsOwed'
  <1> SUFFICES ASSUME NEW s \in Skus, NEW l \in Locations
               PROVE  Incoming(items', <<s, l>>) = Incoming(InitialItems, <<s, l>>)
                        + SumFunctionOnSet(OwedRow(s, l)', Towards(l))
    BY DEF InTransitIsOwed, OwedRow, Towards, SumFunction
  <1>0. <<s, l>> \in Keys
    BY DEF Keys
  <1>1. Incoming(items, <<s, l>>) = Incoming(InitialItems, <<s, l>>)
          + SumFunctionOnSet(OwedRow(s, l), Towards(l))
    BY OwedIs
  <1>2. CASE \E r \in Requests : SaveBatch(r)
    <2>1. PICK r \in Requests : SaveBatch(r)
      BY <1>2
    <2>2. Incoming(items', <<s, l>>) = Incoming(items, <<s, l>>) + TransitDelta(r, <<s, l>>)
      BY <1>0, <2>1, SaveDeltas
    <2>3. SumFunctionOnSet(OwedRow(s, l)', Towards(l))
            = SumFunctionOnSet(OwedRow(s, l), Towards(l)) + TransitDelta(r, <<s, l>>)
      BY <2>1, SavePaysOff
    <2>4. /\ Incoming(InitialItems, <<s, l>>) \in Int
          /\ SumFunctionOnSet(OwedRow(s, l), Towards(l)) \in Int
          /\ TransitDelta(r, <<s, l>>) \in Int
      <3>1. TransitDelta(r, <<s, l>>) \in Int
        BY TransitType DEF IInv
      <3> QED
        BY <1>0, <3>1, FieldType, TransferAssumption, OwedSummable, SumType
    <2> QED
      BY <1>1, <2>2, <2>3, <2>4
  <1>3. CASE ~ \E r \in Requests : SaveBatch(r)
    <2>1. OwedRow(s, l)' = OwedRow(s, l)
      <3>1. \A t : Owed(t)' = Owed(t)
        BY <1>3, OthersJoinNothing DEF Owed, IInv, Ops
      <3> QED
        BY <3>1 DEF OwedRow
    <2>2. Incoming(items', <<s, l>>) = Incoming(items, <<s, l>>)
      BY <1>0, <1>3, SellLeavesTransit, OthersMoveNothing DEF IInv
    <2> QED
      BY <1>1, <2>1, <2>2
  <1> QED
    BY <1>2, <1>3

LEMMA InitOwed == Init => InTransitIsOwed
  <1> SUFFICES ASSUME Init, NEW s \in Skus, NEW l \in Locations
               PROVE  Incoming(items, <<s, l>>) = Incoming(InitialItems, <<s, l>>)
                        + SumFunctionOnSet(OwedRow(s, l), Towards(l))
    BY OwedIs
  <1>1. \A t : Owed(t) = 0
    <2>1. \A op, t : Moves(op, t) = {}
      BY DEF Init, Moves
    <2> QED
      BY <2>1, FS_EmptySet DEF Owed
  <1>2. \A t \in Towards(l) : OwedRow(s, l)[t] = 0
    BY <1>1, TransferAssumption DEF OwedRow, Towards
  <1>3. IsFiniteSet(Towards(l))
    BY FiniteAssumption, FS_Subset DEF Towards
  <1>4. SumFunctionOnSet(OwedRow(s, l), Towards(l)) = 0
    BY <1>2, <1>3, SumZero
  <1>5. Incoming(InitialItems, <<s, l>>) \in Int
    BY FieldType, TransferAssumption DEF Keys
  <1> QED
    BY <1>4, <1>5 DEF Init

\* What is in transit to a location is, to the piece, what the dispatches have
\* sent there less what receipts and cancellations have taken out, for any
\* number of transfers that share its rows.
THEOREM TransitOwed == Spec => []InTransitIsOwed
  <1>1. Init => FinitelyMany /\ InTransitIsOwed
    BY InitFinite, InitOwed
  <1>2. IInv /\ [Next]_vars /\ FinitelyMany /\ InTransitIsOwed
          => FinitelyMany' /\ InTransitIsOwed'
    BY NextFinite, NextOwed DEF IInv
  <1>3. Spec => []IInv
    BY Invariance
  <1> QED
    BY <1>1, <1>2, <1>3, PTL DEF Spec

-----------------------------------------------------------------------------
\* The calls between their two writes, and what the ledger will say of each.
Lagging == {r \in Requests : pc[r] = "append"}

Entry(k) == [r \in Requests |-> LedgerDelta(r, k)]

LEMMA LagIs ==
    LedgerLag <=> \A k \in Keys :
        OnHand(InitialItems, k) - sold[k] + ledger[k] + SumFunctionOnSet(Entry(k), Lagging)
          = OnHand(items, k)
BY DEF LedgerLag, Entry, Lagging

LEMMA EntryStays ==
    ASSUME [Next]_vars, NEW k
    PROVE  /\ \A r : LedgerDelta(r, k)' = LedgerDelta(r, k)
           /\ Entry(k)' = Entry(k)
  <1>1. \A r : Op(r)' = Op(r) /\ Transfer(r)' = Transfer(r)
    BY CallStays
  <1>2. \A r : /\ Rows(r)' = Rows(r)
               /\ Method(r, k)' = Method(r, k)
               /\ Amount(r, k)' = Amount(r, k)
    BY <1>1 DEF Rows, Queries, Method, Amount
  <1>3. \A r : LedgerDelta(r, k)' = LedgerDelta(r, k)
    BY <1>2 DEF LedgerDelta
  <1> QED
    BY <1>3 DEF Entry

LEMMA EntrySummable ==
    ASSUME TypeOK, FinitelyMany, NEW k, NEW S \in SUBSET Begun
    PROVE  Summable(Entry(k), S)
  <1>1. IsFiniteSet(S)
    BY FS_Subset DEF FinitelyMany
  <1>2. \A r \in S : Entry(k)[r] \in Int
    BY DeltaType DEF Entry, Begun
  <1> QED
    BY <1>1, <1>2 DEF Summable

LEMMA NextLag ==
    ASSUME IInv, TypeOK', FinitelyMany, FinitelyMany', [Next]_vars, LedgerLag
    PROVE  LedgerLag'
  <1> SUFFICES ASSUME NEW k \in Keys
               PROVE  OnHand(InitialItems, k) - sold'[k] + ledger'[k]
                        + SumFunctionOnSet(Entry(k)', Lagging') = OnHand(items', k)
    BY DEF LedgerLag, Entry, Lagging
  <1> USE DEF IInv
  <1>1. OnHand(InitialItems, k) - sold[k] + ledger[k] + SumFunctionOnSet(Entry(k), Lagging)
          = OnHand(items, k)
    BY LagIs
  <1>2. Entry(k)' = Entry(k)
    BY EntryStays
  <1>3. Lagging \in SUBSET Begun
    BY DEF Lagging, Begun
  <1>4. /\ OnHand(InitialItems, k) \in Int /\ OnHand(items, k) \in Int
        /\ sold[k] \in Int /\ ledger[k] \in Int
        /\ SumFunctionOnSet(Entry(k), Lagging) \in Int
    BY <1>3, FieldType, TransferAssumption, EntrySummable, SumType DEF TypeOK
  <1>5. ASSUME NEW r \in Requests, SaveBatch(r)
        PROVE  OnHand(InitialItems, k) - sold'[k] + ledger'[k]
                 + SumFunctionOnSet(Entry(k), Lagging') = OnHand(items', k)
    <2>1. Lagging' = Lagging \cup {r} /\ r \notin Lagging /\ r \in Begun
      BY <1>5 DEF SaveBatch, AllRead, Lagging, Begun, TypeOK
    <2>2. Summable(Entry(k), Lagging \cup {r})
      BY <1>3, <2>1, EntrySummable
    <2>3. SumFunctionOnSet(Entry(k), Lagging \cup {r})
            = SumFunctionOnSet(Entry(k), Lagging) + LedgerDelta(r, k)
      BY <2>1, <2>2, SumAddElement DEF Entry
    <2>4. OnHand(items', k) = OnHand(items, k) + LedgerDelta(r, k)
      BY <1>5, SaveDeltas
    <2>5. sold' = sold /\ ledger' = ledger /\ LedgerDelta(r, k) \in Int
      BY <1>5, DeltaType DEF SaveBatch
    <2> QED
      BY <1>1, <1>4, <2>1, <2>3, <2>4, <2>5
  <1>6. ASSUME NEW r \in Requests, AppendLedger(r)
        PROVE  OnHand(InitialItems, k) - sold'[k] + ledger'[k]
                 + SumFunctionOnSet(Entry(k), Lagging') = OnHand(items', k)
    <2>1. Lagging' = Lagging \ {r} /\ r \in Lagging
      BY <1>6 DEF AppendLedger, Lagging, TypeOK
    <2>2. Summable(Entry(k), Lagging) /\ Summable(Entry(k), Lagging \ {r})
      BY <1>3, EntrySummable
    <2>3. SumFunctionOnSet(Entry(k), Lagging)
            = LedgerDelta(r, k) + SumFunctionOnSet(Entry(k), Lagging \ {r})
      BY <2>1, <2>2, SumTakeOut DEF Entry
    <2>4. SumFunctionOnSet(Entry(k), Lagging \ {r}) \in Int /\ LedgerDelta(r, k) \in Int
      BY <2>2, SumType, DeltaType
    <2>5. items' = items /\ sold' = sold /\ ledger'[k] = ledger[k] + LedgerDelta(r, k)
      BY <1>6 DEF AppendLedger, stock
    <2> QED
      BY <1>1, <1>4, <2>1, <2>3, <2>4, <2>5
  <1>7. ASSUME NEW j \in Keys, Sell(j)
        PROVE  OnHand(InitialItems, k) - sold'[k] + ledger'[k]
                 + SumFunctionOnSet(Entry(k), Lagging') = OnHand(items', k)
    <2>1. ledger' = ledger /\ Lagging' = Lagging
      BY <1>7 DEF Sell, Lagging
    <2>2. /\ items[j] \in Item /\ items'[j] \in Item
          /\ items'[j] = DispatchStock(items[j], 1)
          /\ items' = [items EXCEPT ![j] = items'[j]]
          /\ sold' = [sold EXCEPT ![j] = @ + 1]
      BY <1>7, SellNext DEF NextOf, Sell
    <2>3. CASE k = j
      <3>1. OnHand(items', k) = OnHand(items, k) - 1 /\ sold'[k] = sold[k] + 1
        BY <2>2, <2>3, RevisedFields, TransferAssumption DEF OnHand, DispatchStock, TypeOK
      <3> QED
        BY <1>1, <1>4, <2>1, <3>1
    <2>4. CASE k # j
      <3>1. OnHand(items', k) = OnHand(items, k) /\ sold'[k] = sold[k]
        BY <2>2, <2>4 DEF OnHand, TypeOK, Tables
      <3> QED
        BY <1>1, <1>4, <2>1, <3>1
    <2> QED
      BY <2>3, <2>4
  <1>8. ASSUME ~ \E r \in Requests : SaveBatch(r) \/ AppendLedger(r),
               ~ \E j \in Keys : Sell(j)
        PROVE  OnHand(InitialItems, k) - sold'[k] + ledger'[k]
                 + SumFunctionOnSet(Entry(k), Lagging') = OnHand(items', k)
    <2>1. items' = items /\ sold' = sold
      BY <1>8, OthersMoveNothing
    <2>2. ledger' = ledger
      BY <1>8 DEF Next, Step, Create, Find, Refuse, Read, Reject, Conflict, SaveStatus,
                  Crash, vars
    <2>3. Lagging' = Lagging
      BY <1>8 DEF Next, Step, Create, Find, Refuse, Read, Reject, Conflict, AllRead,
                  SaveStatus, Crash, vars, Lagging, TypeOK
    <2> QED
      BY <1>1, <2>1, <2>2, <2>3
  <1> QED
    BY <1>2, <1>5, <1>6, <1>7, <1>8

LEMMA InitLag == Init => LedgerLag
  <1> SUFFICES ASSUME Init, NEW k \in Keys
               PROVE  OnHand(InitialItems, k) - sold[k] + ledger[k]
                        + SumFunctionOnSet(Entry(k), Lagging) = OnHand(items, k)
    BY LagIs
  <1>1. Lagging = {}
    BY DEF Init, Lagging
  <1>2. SumFunctionOnSet(Entry(k), Lagging) = 0
    BY <1>1, SumEmpty
  <1>3. OnHand(InitialItems, k) \in Int
    BY FieldType, TransferAssumption
  <1> QED
    BY <1>2, <1>3 DEF Init

\* What is written after the stock tells the truth about it: a status comes after
\* the movement it tells of, and the ledger lags by exactly the calls that are
\* between their two writes or have stopped there.
THEOREM TracesTrue == Spec => []TransfersTraced
  <1>1. Init => FinitelyMany /\ LedgerLag
    BY InitFinite, InitLag
  <1>2. IInv /\ IInv' /\ [Next]_vars /\ FinitelyMany /\ LedgerLag
          => FinitelyMany' /\ LedgerLag'
    BY NextFinite, NextLag DEF IInv
  <1>3. Spec => []IInv
    BY Invariance
  <1>4. IInv /\ LedgerLag => TransfersTraced
    BY DEF IInv, TransfersTraced
  <1> QED
    BY <1>1, <1>2, <1>3, <1>4, PTL DEF Spec

=============================================================================
