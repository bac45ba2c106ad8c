------------------------ MODULE ProcurementProofs ------------------------
(***************************************************************************)
(* Purchase orders bring in what was ordered and nothing else, for every   *)
(* number of orders, lines, calls, votes and sweeps.  The argument: a call *)
(* that takes goods in or cancels them has seen the order as ordered, so   *)
(* some call placed it (Traces) and made the rows (Reached); a save that   *)
(* passes the version check works on the present rows (Snapshots); and the *)
(* petition of a call that is past the interception was opened by that     *)
(* call alone (Opened), so an intercepted call moves nothing.              *)
(* Then the evaluation of the replenishment rules: what it has read of the *)
(* documents of a spot stays true of them, or the spot was doubled, so its *)
(* pipeline stays within the largest rule.                                 *)
(***************************************************************************)
EXTENDS PurchaseOrders, CommonTheorems

\* What a call is about.
LEMMA CallType ==
    ASSUME TypeOK, NEW r \in Requests
    PROVE  /\ call[r].op \in Ops
           /\ call[r].order \in Orders
           /\ call[r] = [op |-> call[r].op, order |-> call[r].order]
           /\ \A k \in Keys : Lines[call[r].order][k] \in Nat
  <1>1. call[r] \in [op : Ops, order : Orders]
    BY DEF TypeOK
  <1> QED
    BY <1>1, OrderAssumption

LEMMA RowType ==
    ASSUME TypeOK, NEW r \in Requests, NEW k \in Keys
    PROVE  /\ Amount(r, k) \in Nat
           /\ Method(r) \in Methods
           /\ \A table \in Tables : Base(table, k) \in Item
  <1>1. Amount(r, k) \in Nat
    BY CallType DEF Amount
  <1>2. Method(r) \in Methods
    BY CallType DEF Method, Methods, Ops
  <1>3. \A table \in Tables : Base(table, k) \in Item
    BY DEF Tables, Base, CreateNew, Item
  <1> QED
    BY <1>1, <1>2, <1>3

LEMMA CallStays == [Next]_vars => call' = call
BY DEF Next, Step, Create, Find, Refuse, Lookup, Intercept, Load, Reject, SaveBatch, Conflict,
       AppendLedger, SaveOrder, Crash, Sell, vars, purchase

-----------------------------------------------------------------------------
\* The types of the calls' variables.
PurchaseType ==
    /\ items \in Tables
    /\ ledger \in [Keys -> Nat]
    /\ sold \in [Keys -> 0..MaxSales]
    /\ orders \in [Orders -> {"none", "DRAFT", "PENDING_APPROVAL", "ORDERED",
                              "RECEIVED", "CANCELLED"}]
    /\ call \in [Requests -> [op : Ops, order : Orders]]
    /\ pc \in [Requests -> {"find", "lookup", "intercept", "load", "saveBatch",
                            "append", "save", "done", "rejected"}]
    /\ seen \in [Requests -> {"none", "DRAFT", "PENDING_APPROVAL", "ORDERED",
                              "RECEIVED", "CANCELLED"}]
    /\ loaded \in [Requests -> Tables]
    /\ halted \subseteq Requests

LEMMA TypeParts == TypeOK <=> A!ApprovalTypeOK /\ PurchaseType
BY DEF TypeOK, PurchaseType

LEMMA DecidedType ==
    ASSUME NEW w \in A!Views
    PROVE  /\ A!Decided(w)[1] \in {"PENDING", "APPROVED", "REJECTED"}
           /\ A!Decided(w)[2] \in A!Steps
  <1>1. w.step \in 1..Len(Required) /\ w.verdict \in {"APPROVED", "REJECTED"}
    BY DEF A!Views, A!Verdicts, A!Steps
  <1>2. Len(Required) \in Nat
    BY WorkflowAssumption
  <1>3. CASE w.verdict = "REJECTED"
    BY <1>1, <1>3 DEF A!Decided, A!Steps
  <1>4. CASE w.verdict = "APPROVED" /\ ~A!Enough(w)
    BY <1>1, <1>4 DEF A!Decided, A!Steps
  <1>5. CASE w.verdict = "APPROVED" /\ A!Enough(w) /\ w.step < Len(Required)
    BY <1>1, <1>2, <1>5 DEF A!Decided, A!Steps
  <1>6. CASE w.verdict = "APPROVED" /\ A!Enough(w) /\ w.step = Len(Required)
    BY <1>1, <1>2, <1>6 DEF A!Decided, A!Steps
  <1> QED
    BY <1>1, <1>2, <1>3, <1>4, <1>5, <1>6

LEMMA ApprovalType ==
    ASSUME A!ApprovalTypeOK, [Next]_vars
    PROVE  A!ApprovalTypeOK'
  <1> USE DEF A!ApprovalTypeOK
  <1>1. CASE UNCHANGED approvals
    BY <1>1 DEF approvals
  <1>2. ASSUME NEW r \in Requests, A!Open(r) PROVE A!ApprovalTypeOK'
    BY <1>2 DEF A!Open, A!bounds, A!RequestStatuses
  <1>3. CASE A!Toggle
    BY <1>3, WorkflowAssumption DEF A!Toggle, A!requests
  <1>4. ASSUME NEW d \in Deciders, NEW p \in Requests, A!Refuse(d, p) PROVE A!ApprovalTypeOK'
    BY <1>4 DEF A!Refuse, A!requests, A!bounds
  <1>5. ASSUME NEW d \in Deciders, NEW p \in Requests, NEW verdict \in A!Verdicts,
               A!Read(d, p, verdict)
        PROVE  A!ApprovalTypeOK'
    <2>1. [petition |-> p, verdict |-> verdict, step |-> step[p],
           approvals |-> A!ApprovalsOf(p, step[p])] \in A!Views
      BY DEF A!Views, A!ApprovalsOf
    <2> QED
      BY <1>5, <2>1 DEF A!Read, A!requests, A!bounds
  <1>6. ASSUME NEW d \in Deciders, A!Save(d) PROVE A!ApprovalTypeOK'
    <2>1. view[d] \in A!Views
      BY <1>6 DEF A!Save
    <2>2. /\ view[d].petition \in Requests /\ view[d].step \in A!Steps
          /\ view[d].verdict \in A!Verdicts
      BY <2>1 DEF A!Views
    <2>3. A!Decided(view[d])[1] \in A!RequestStatuses /\ A!Decided(view[d])[2] \in A!Steps
      BY <2>1, DecidedType DEF A!RequestStatuses
    <2> QED
      BY <1>6, <2>2, <2>3 DEF A!Save, A!bounds
  <1>7. ASSUME NEW d \in Deciders, A!Lose(d) PROVE A!ApprovalTypeOK'
    BY <1>7 DEF A!Lose, A!requests, A!bounds
  <1>8. CASE A!FindStale
    BY <1>8, WorkflowAssumption DEF A!FindStale, A!requests
  <1>9. ASSUME NEW s \in sweep, A!Escalate(s) PROVE A!ApprovalTypeOK'
    <2>1. s.petition \in Requests /\ s.step \in A!Steps
      OBVIOUS
    <2>2. (IF s.step = Len(Required) THEN s.step ELSE s.step + 1) \in A!Steps
      BY <2>1, WorkflowAssumption DEF A!Steps
    <2> QED
      BY <1>9, <2>1, <2>2 DEF A!Escalate, A!bounds, A!RequestStatuses
  <1>10. CASE A!EndSweep
    BY <1>10 DEF A!EndSweep, A!requests, A!bounds
  <1>11. ASSUME NEW r \in Requests, Step(r), ~Intercept(r) PROVE UNCHANGED approvals
    BY <1>11 DEF Step, Find, Refuse, Lookup, Load, Reject, SaveBatch, Conflict,
                AppendLedger, SaveOrder
  <1>12. ASSUME NEW r \in Requests, Intercept(r) PROVE A!Open(r)
    BY <1>12 DEF Intercept
  <1>13. ASSUME (\E o \in Orders : Create(o)) \/ (\E r \in Requests : Crash(r))
                  \/ (\E k \in Keys : Sell(k)) \/ UNCHANGED vars
         PROVE  UNCHANGED approvals
    BY <1>13 DEF Create, Crash, Sell, vars
  <1> HIDE DEF A!ApprovalTypeOK
  <1>14. CASE Approve
    BY <1>3, <1>4, <1>5, <1>6, <1>7, <1>8, <1>9, <1>10, <1>14 DEF Approve
  <1> QED
    BY <1>1, <1>2, <1>11, <1>12, <1>13, <1>14 DEF Next

-----------------------------------------------------------------------------
\* What a save writes are items.
LEMMA DraftNext ==
    ASSUME TypeOK, NEW r \in Requests, Accepts(r, loaded[r]), NEW k \in Saved(r, loaded[r])
    PROVE  /\ k \in Keys /\ k \in Rows(r)
           /\ Base(loaded[r], k) \in Item
           /\ Permits(Method(r), Base(loaded[r], k), Amount(r, k))
           /\ NextOf(Base(loaded[r], k), Draft(r, k))
  <1>1. k \in Rows(r) /\ k \in Keys /\ loaded[r] \in Tables
    BY DEF Saved, Rows, TypeOK
  <1>2. /\ Amount(r, k) \in Nat
        /\ Method(r) \in Methods
        /\ Base(loaded[r], k) \in Item
    BY <1>1, RowType
  <1>3. Permits(Method(r), Base(loaded[r], k), Amount(r, k))
    BY DEF Accepts
  <1> QED
    BY <1>1, <1>2, <1>3, ApplyNext DEF Draft

\* A sale takes a piece of a row that is there.
LEMMA SellNext ==
    ASSUME TypeOK, NEW k \in Keys, Sell(k)
    PROVE  /\ items[k] \in Item
           /\ NextOf(items[k], items'[k])
           /\ items'[k] = DispatchStock(items[k], 1)
           /\ items' = [items EXCEPT ![k] = items'[k]]
  <1>1. items[k] \in Item /\ items'[k] = DispatchStock(items[k], 1)
    BY DEF Sell, TypeOK, Tables
  <1>2. items' = [items EXCEPT ![k] = items'[k]]
    BY <1>1 DEF Sell
  <1>3. Permits("dispatchStock", items[k], 1)
    BY DEF Sell
  <1>4. Apply("dispatchStock", items[k], 1) = DispatchStock(items[k], 1)
    BY DEF Apply
  <1>5. NextOf(items[k], Apply("dispatchStock", items[k], 1))
    BY <1>1, <1>3, ApplyNext DEF Methods
  <1> QED
    BY <1>1, <1>2, <1>4, <1>5

\* The calls that are about to save have found their rows acceptable.
Accepted == \A r \in Requests : pc[r] = "saveBatch" => Accepts(r, loaded[r])

LEMMA NextAccepted ==
    ASSUME TypeOK, Accepted, [Next]_vars
    PROVE  Accepted'
  <1> SUFFICES ASSUME NEW q \in Requests, pc'[q] = "saveBatch"
               PROVE  Accepts(q, loaded[q])'
    BY DEF Accepted
  <1>0. call' = call
    BY CallStays
  <1>1. ASSUME pc[q] = "saveBatch", loaded'[q] = loaded[q] PROVE Accepts(q, loaded[q])'
    <2>1. Accepts(q, loaded[q])
      BY <1>1 DEF Accepted
    <2> QED
      BY <1>0, <1>1, <2>1 DEF Accepts, Saved, Rows, Method, Amount
  <1>2. ASSUME NEW r \in Requests, Load(r) PROVE Accepts(q, loaded[q])'
    <2>1. CASE q = r
      <3>1. loaded'[q] = [k \in Keys |-> IF k \in Rows(q) THEN items[k] ELSE NoRow]
        BY <1>2, <2>1 DEF Load, TypeOK
      <3>2. \A k \in Rows(q) : k \in Keys /\ loaded'[q][k] = items[k]
        BY <3>1 DEF Rows
      <3>3. Saved(q, loaded'[q]) = Saved(q, items)
        BY <3>2 DEF Saved
      <3>4. \A k \in Saved(q, items) : Base(loaded'[q], k) = Base(items, k)
        BY <3>2 DEF Base, Saved
      <3>5. Accepts(q, loaded'[q])
        BY <1>2, <2>1, <3>2, <3>3, <3>4 DEF Load, Accepts, Saved
      <3> QED
        BY <1>0, <3>5 DEF Accepts, Saved, Rows, Method, Amount
    <2>2. CASE q # r
      BY <1>1, <1>2, <2>2 DEF Load, TypeOK
    <2> QED
      BY <2>1, <2>2
  <1>3. ASSUME NEW r \in Requests, Step(r), ~Load(r)
        PROVE  pc[q] = "saveBatch" /\ loaded' = loaded
    BY <1>3 DEF Step, Find, Refuse, Lookup, Intercept, Reject, SaveBatch, Conflict,
                AppendLedger, SaveOrder, TypeOK, memory
  <1>4. ASSUME (\E o \in Orders : Create(o)) \/ (\E r \in Requests : Crash(r))
                 \/ (\E k \in Keys : Sell(k)) \/ UNCHANGED purchase \/ UNCHANGED vars
        PROVE  pc' = pc /\ loaded' = loaded
    BY <1>4 DEF Create, Crash, Sell, vars, purchase, memory
  <1> QED
    BY <1>1, <1>2, <1>3, <1>4 DEF Next

LEMMA NextPurchaseType ==
    ASSUME TypeOK, Accepted, [Next]_vars
    PROVE  PurchaseType'
  <1>0. PurchaseType
    BY TypeParts
  <1>1. ASSUME NEW o \in Orders, Create(o) PROVE PurchaseType'
    BY <1>0, <1>1 DEF PurchaseType, Create, memory
  <1>2. ASSUME NEW r \in Requests, Find(r) PROVE PurchaseType'
    <2>1. call[r].op \in Ops /\ call[r].order \in Orders
      BY CallType
    <2> QED
      BY <1>0, <1>2, <2>1 DEF PurchaseType, Find
  <1>3. ASSUME NEW r \in Requests, Refuse(r) \/ Lookup(r) \/ Reject(r) \/ Conflict(r)
        PROVE  PurchaseType'
    BY <1>0, <1>3 DEF PurchaseType, Refuse, Lookup, Reject, Conflict, memory
  <1>4. ASSUME NEW r \in Requests, Intercept(r) PROVE PurchaseType'
    BY <1>0, <1>4 DEF PurchaseType, Intercept, memory
  <1>5. ASSUME NEW r \in Requests, Load(r) PROVE PurchaseType'
    <2>1. [k \in Keys |-> IF k \in Rows(r) THEN items[k] ELSE NoRow] \in Tables
      BY <1>0 DEF PurchaseType, Tables
    <2> QED
      BY <1>0, <1>5, <2>1 DEF PurchaseType, Load
  <1>6. ASSUME NEW r \in Requests, SaveBatch(r) PROVE PurchaseType'
    <2>1. \A k \in Saved(r, loaded[r]) : Draft(r, k) \in Item
      BY <1>6, DraftNext DEF SaveBatch, NextOf, Accepted
    <2>2. items' \in Tables
      BY <1>0, <1>6, <2>1 DEF SaveBatch, Tables, PurchaseType
    <2> QED
      BY <1>0, <1>6, <2>2 DEF SaveBatch, PurchaseType, memory
  <1>7. ASSUME NEW r \in Requests, AppendLedger(r) PROVE PurchaseType'
    <2>1. \A k \in Keys : ledger[k] + Amount(r, k) \in Nat
      <3>1. \A k \in Keys : Amount(r, k) \in Nat
        BY RowType
      <3> QED
        BY <1>0, <3>1 DEF PurchaseType
    <2> QED
      BY <1>0, <1>7, <2>1 DEF AppendLedger, PurchaseType, memory
  <1>8. ASSUME NEW r \in Requests, SaveOrder(r) PROVE PurchaseType'
    <2>1. call[r].op \in Ops /\ call[r].order \in Orders
      BY CallType
    <2>2. Target(r) \in {"PENDING_APPROVAL", "ORDERED", "RECEIVED", "CANCELLED"}
      BY <2>1 DEF Target, Ops
    <2> QED
      BY <1>0, <1>8, <2>1, <2>2 DEF SaveOrder, PurchaseType, memory
  <1>9. ASSUME NEW r \in Requests, Crash(r) PROVE PurchaseType'
    BY <1>0, <1>9 DEF PurchaseType, Crash, memory
  <1>10. ASSUME NEW k \in Keys, Sell(k) PROVE PurchaseType'
    <2>1. items' \in Tables
      BY <1>0, <1>10, SellNext DEF Tables, NextOf, PurchaseType
    <2>2. sold' \in [Keys -> 0..MaxSales]
      BY <1>0, <1>10, OrderAssumption DEF Sell, PurchaseType
    <2> QED
      BY <1>0, <1>10, <2>1, <2>2 DEF Sell, PurchaseType, memory
  <1>11. CASE UNCHANGED purchase \/ UNCHANGED vars
    BY <1>0, <1>11 DEF PurchaseType, purchase, vars, memory
  <1> QED
    BY <1>1, <1>2, <1>3, <1>4, <1>5, <1>6, <1>7, <1>8, <1>9, <1>10, <1>11 DEF Next, Step

LEMMA NextType == TypeOK /\ Accepted /\ [Next]_vars => TypeOK' /\ Accepted'
  <1> SUFFICES ASSUME TypeOK, Accepted, [Next]_vars PROVE TypeOK' /\ Accepted'
    OBVIOUS
  <1>1. A!ApprovalTypeOK' /\ PurchaseType'
    BY ApprovalType, NextPurchaseType, TypeParts
  <1> QED
    BY <1>1, NextAccepted DEF TypeOK, PurchaseType

-----------------------------------------------------------------------------
\* A row that a call has loaded is an earlier state of it: the row is there
\* still, its version has not gone down, and where it is the same the row is.
Earlier(row, k) ==
    /\ items[k] # NoRow
    /\ row.version <= items[k].version
    /\ row.version = items[k].version => row = items[k]

Snapshots ==
    \A r \in Requests, k \in Keys : loaded[r][k] # NoRow => Earlier(loaded[r][k], k)

\* A save writes the next item after each present row.
LEMMA SaveApplies ==
    ASSUME TypeOK, Accepted, Snapshots, NEW r \in Requests, SaveBatch(r),
           NEW k \in Saved(r, loaded[r])
    PROVE  /\ k \in Keys /\ k \in Rows(r)
           /\ Base(items, k) \in Item
           /\ Permits(Method(r), Base(items, k), Amount(r, k))
           /\ items'[k] = Apply(Method(r), Base(items, k), Amount(r, k))
           /\ NextOf(Base(items, k), items'[k])
  <1>1. /\ k \in Keys /\ k \in Rows(r)
        /\ Base(loaded[r], k) \in Item
        /\ Permits(Method(r), Base(loaded[r], k), Amount(r, k))
        /\ NextOf(Base(loaded[r], k), Draft(r, k))
    BY DraftNext DEF SaveBatch, Accepted
  <1>2. items'[k] = Draft(r, k)
    BY <1>1 DEF SaveBatch
  <1>3. Base(items, k) = Base(loaded[r], k)
    <2>1. CASE loaded[r][k] = NoRow
      BY <2>1 DEF SaveBatch, Current, Base
    <2>2. CASE loaded[r][k] # NoRow
      <3>1. Earlier(loaded[r][k], k) /\ Base(loaded[r], k) = loaded[r][k]
        BY <1>1, <2>2 DEF Snapshots, Base
      <3>2. items[k].version = Draft(r, k).version - 1
        BY <2>2 DEF SaveBatch, Current
      <3>3. Draft(r, k).version = loaded[r][k].version + 1 /\ loaded[r][k].version \in Nat
        BY <1>1, <3>1 DEF NextOf, Item
      <3>4. items[k] = loaded[r][k] /\ items[k] # NoRow
        BY <3>1, <3>2, <3>3 DEF Earlier
      <3> QED
        BY <3>4 DEF Base
    <2> QED
      BY <2>1, <2>2
  <1> QED
    BY <1>1, <1>2, <1>3 DEF Draft

\* A save, a sale and nothing else writes rows.
LEMMA OthersLeaveRows ==
    ASSUME [Next]_vars, ~ \E r \in Requests : SaveBatch(r), ~ \E k \in Keys : Sell(k)
    PROVE  items' = items
BY DEF Next, Step, Create, Find, Refuse, Lookup, Intercept, Load, Reject, Conflict,
       AppendLedger, SaveOrder, Crash, vars, purchase

\* A row goes on to its next state or stays.
LEMMA RowsGoOn ==
    ASSUME TypeOK, Accepted, Snapshots, [Next]_vars, NEW k \in Keys
    PROVE  \/ items'[k] = items[k]
           \/ /\ items'[k] \in Item
              /\ items[k] # NoRow => NextOf(items[k], items'[k])
  <1>1. ASSUME NEW r \in Requests, SaveBatch(r), k \in Saved(r, loaded[r])
        PROVE  items'[k] \in Item /\ (items[k] # NoRow => NextOf(items[k], items'[k]))
    BY <1>1, SaveApplies DEF NextOf, Base
  <1>2. ASSUME NEW r \in Requests, SaveBatch(r), k \notin Saved(r, loaded[r])
        PROVE  items'[k] = items[k]
    BY <1>2 DEF SaveBatch
  <1>3. ASSUME NEW j \in Keys, Sell(j)
        PROVE  \/ items'[k] = items[k]
               \/ items'[k] \in Item /\ NextOf(items[k], items'[k])
    <2>1. items' = [items EXCEPT ![j] = items'[j]] /\ NextOf(items[j], items'[j])
      BY <1>3, SellNext
    <2> QED
      BY <2>1 DEF NextOf, TypeOK, Tables
  <1> QED
    BY <1>1, <1>2, <1>3, OthersLeaveRows

LEMMA EarlierStays ==
    ASSUME TypeOK, Accepted, Snapshots, [Next]_vars, NEW k \in Keys, NEW row \in Item,
           Earlier(row, k)
    PROVE  Earlier(row, k)'
  <1>1. items[k] \in Item /\ items[k].version \in Nat /\ row.version \in Nat
    BY DEF TypeOK, Tables, Earlier, Item
  <1>2. CASE items'[k] = items[k]
    BY <1>2 DEF Earlier
  <1>3. CASE items'[k] \in Item /\ items'[k].version = items[k].version + 1
    <2>1. items'[k] # NoRow
      BY <1>3, OrderAssumption
    <2> QED
      BY <1>1, <1>3, <2>1 DEF Earlier
  <1> QED
    BY <1>2, <1>3, RowsGoOn DEF Earlier, NextOf

\* Loading is the only step that changes what a call has read.
LEMMA LoadedStays ==
    ASSUME [Next]_vars, ~ \E r \in Requests : Load(r)
    PROVE  loaded' = loaded
BY DEF Next, Step, Create, Find, Refuse, Lookup, Intercept, Reject, SaveBatch, Conflict,
       AppendLedger, SaveOrder, Crash, Sell, vars, purchase, memory

LEMMA NextSnapshots ==
    ASSUME TypeOK, Accepted, Snapshots, [Next]_vars
    PROVE  Snapshots'
  <1> SUFFICES ASSUME NEW q \in Requests, NEW k \in Keys, loaded'[q][k] # NoRow
               PROVE  Earlier(loaded[q][k], k)'
    BY DEF Snapshots
  <1>1. ASSUME loaded'[q][k] = loaded[q][k]
        PROVE  Earlier(loaded[q][k], k)'
    <2>1. loaded[q][k] \in Item /\ Earlier(loaded[q][k], k)
      BY <1>1 DEF TypeOK, Snapshots, Tables
    <2>2. \A row \in Item : Earlier(row, k) => Earlier(row, k)'
      BY EarlierStays
    <2> QED
      BY <1>1, <2>1, <2>2 DEF Earlier
  <1>2. ASSUME NEW r \in Requests, Load(r)
        PROVE  Earlier(loaded[q][k], k)'
    <2>1. items' = items
      BY <1>2 DEF Load
    <2>2. loaded'[q][k] = loaded[q][k] \/ loaded'[q][k] = items[k]
      BY <1>2 DEF Load, TypeOK
    <2>3. CASE loaded'[q][k] = items[k]
      <3>1. items[k] \in Item
        BY <2>3 DEF TypeOK, Tables
      <3> QED
        BY <2>1, <2>3, <3>1 DEF Earlier, Item
    <2> QED
      BY <1>1, <2>2, <2>3
  <1> QED
    BY <1>1, <1>2, LoadedStays

-----------------------------------------------------------------------------
\* What a vote or a sweep holds is a petition that has been opened.
Opened ==
    /\ \A d \in Deciders : dpc[d] = "save" => status[view[d].petition] # "none"
    /\ \A s \in sweep : status[s.petition] # "none"

\* A petition is opened by the interception of its call, and never closed.
LEMMA StatusOpens ==
    ASSUME TypeOK, Opened, [Next]_vars, NEW r \in Requests
    PROVE  /\ status[r] # "none" => status'[r] # "none"
           /\ status[r] = "none" /\ ~Intercept(r) => status'[r] = "none"
  <1>0. status \in [Requests -> A!RequestStatuses]
    BY DEF TypeOK, A!ApprovalTypeOK
  <1>1. CASE UNCHANGED status
    BY <1>1
  <1>2. ASSUME NEW q \in Requests, Intercept(q)
        PROVE  /\ status[r] # "none" => status'[r] # "none"
               /\ q # r => status'[r] = status[r]
    BY <1>0, <1>2 DEF Intercept, A!Open
  <1>3. ASSUME NEW d \in Deciders, A!Save(d)
        PROVE  /\ status[r] # "none" => status'[r] # "none"
               /\ status[r] = "none" => status'[r] = "none"
    <2>1. view[d] \in A!Views /\ status[view[d].petition] # "none"
      BY <1>3 DEF TypeOK, A!ApprovalTypeOK, A!Save, Opened
    <2>2. A!Decided(view[d])[1] # "none"
      BY <2>1, DecidedType
    <2>3. status' = [status EXCEPT ![view[d].petition] = A!Decided(view[d])[1]]
      BY <1>3 DEF A!Save
    <2> QED
      BY <1>0, <2>1, <2>2, <2>3
  <1>4. ASSUME NEW s \in sweep, A!Escalate(s)
        PROVE  /\ status[r] # "none" => status'[r] # "none"
               /\ status[r] = "none" => status'[r] = "none"
    BY <1>0, <1>4 DEF A!Escalate, Opened
  <1>5. ASSUME Approve, ~ \E d \in Deciders : A!Save(d), ~ \E s \in sweep : A!Escalate(s)
        PROVE  UNCHANGED status
    BY <1>5 DEF Approve, A!Toggle, A!Refuse, A!Read, A!Lose, A!FindStale, A!EndSweep,
                A!requests
  <1>6. ASSUME NEW q \in Requests, Step(q), ~Intercept(q) PROVE UNCHANGED status
    BY <1>6 DEF Step, Find, Refuse, Lookup, Load, Reject, SaveBatch, Conflict,
                AppendLedger, SaveOrder, approvals
  <1>7. ASSUME (\E o \in Orders : Create(o)) \/ (\E q \in Requests : Crash(q))
                 \/ (\E k \in Keys : Sell(k)) \/ UNCHANGED vars
        PROVE  UNCHANGED status
    BY <1>7 DEF Create, Crash, Sell, vars, approvals
  <1> QED
    BY <1>1, <1>2, <1>3, <1>4, <1>5, <1>6, <1>7 DEF Next

LEMMA NextOpened ==
    ASSUME TypeOK, Opened, [Next]_vars
    PROVE  Opened'
  <1>0. \A r \in Requests : status[r] # "none" => status'[r] # "none"
    BY StatusOpens
  <1>1. /\ \A d \in Deciders : dpc[d] = "save" => view[d].petition \in Requests
        /\ \A s \in sweep : s.petition \in Requests
    BY DEF TypeOK, A!ApprovalTypeOK, A!Views
  <1>2. ASSUME UNCHANGED <<dpc, view, sweep>> PROVE Opened'
    BY <1>0, <1>1, <1>2 DEF Opened
  <1>3. ASSUME NEW d \in Deciders, NEW p \in Requests, NEW verdict, A!Read(d, p, verdict)
        PROVE  Opened'
    <2>1. /\ view' = [view EXCEPT ![d] = [petition |-> p, verdict |-> verdict,
                        step |-> step[p], approvals |-> A!ApprovalsOf(p, step[p])]]
          /\ dpc' = [dpc EXCEPT ![d] = "save"]
          /\ UNCHANGED <<status, sweep>> /\ status[p] = "PENDING"
      BY <1>3 DEF A!Read, A!requests
    <2>2. \A e \in Deciders : e # d => dpc'[e] = dpc[e] /\ view'[e] = view[e]
      BY <2>1
    <2>3. view'[d].petition = p
      BY <2>1 DEF TypeOK, A!ApprovalTypeOK
    <2> QED
      BY <2>1, <2>2, <2>3 DEF Opened
  <1>4. ASSUME NEW d \in Deciders,
               (\E p \in Requests : A!Refuse(d, p)) \/ A!Save(d) \/ A!Lose(d)
        PROVE  Opened'
    <2>1. \A e \in Deciders : dpc'[e] = dpc[e] \/ dpc'[e] # "save"
      BY <1>4 DEF A!Refuse, A!Save, A!Lose, TypeOK, A!ApprovalTypeOK
    <2>2. UNCHANGED <<view, sweep>>
      BY <1>4 DEF A!Refuse, A!Save, A!Lose
    <2> QED
      BY <1>0, <1>1, <2>1, <2>2 DEF Opened
  <1>5. CASE A!FindStale
    <2>1. UNCHANGED <<status, dpc, view>>
      BY <1>5 DEF A!FindStale, A!requests
    <2>2. \A s \in sweep' : status[s.petition] \in {"PENDING", "ESCALATED"}
      BY <1>5 DEF A!FindStale
    <2> QED
      BY <2>1, <2>2 DEF Opened
  <1>6. ASSUME (\E s \in sweep : A!Escalate(s)) \/ A!EndSweep
        PROVE  Opened'
    <2>1. UNCHANGED <<dpc, view>> /\ sweep' \subseteq sweep
      BY <1>6 DEF A!Escalate, A!EndSweep
    <2> QED
      BY <1>0, <1>1, <2>1 DEF Opened
  <1>7. CASE A!Toggle
    BY <1>2, <1>7 DEF A!Toggle
  <1>8. ASSUME NEW r \in Requests, Step(r) PROVE Opened'
    BY <1>2, <1>8 DEF Step, Find, Refuse, Lookup, Intercept, A!Open, Load, Reject, SaveBatch,
                Conflict, AppendLedger, SaveOrder, approvals
  <1>9. ASSUME (\E o \in Orders : Create(o)) \/ (\E q \in Requests : Crash(q))
                 \/ (\E k \in Keys : Sell(k)) \/ UNCHANGED vars
        PROVE  Opened'
    BY <1>2, <1>9 DEF Create, Crash, Sell, vars, approvals
  <1> QED
    BY <1>3, <1>4, <1>5, <1>6, <1>7, <1>8, <1>9 DEF Next, Approve

-----------------------------------------------------------------------------
\* What a call that is under way has behind it.
Traced(r) ==
    /\ pc[r] \in {"find", "lookup", "intercept", "load", "saveBatch", "append"} =>
         status[r] = "none"
    /\ call[r].op # "place" => status[r] = "none" /\ pc[r] \notin {"lookup", "intercept"}
    /\ pc[r] = "append" => call[r].op = "receive"
    /\ seen[r] = "ORDERED" => Moves("place", call[r].order) # {}
    /\ call[r].op = "receive" /\ pc[r] \notin {"find", "rejected"} => seen[r] = "ORDERED"
    /\ call[r].op = "cancel" /\ pc[r] \in {"load", "saveBatch"} => seen[r] = "ORDERED"
    /\ call[r].op = "cancel" /\ pc[r] = "saveBatch" =>
         \A k \in Rows(r) : loaded[r][k] # NoRow

\* The rows of an order that was placed are there.
Reached(o) == \A k \in Keys : Lines[o][k] > 0 => items[k] # NoRow

Traces ==
    /\ \A o \in Orders : Moves("place", o) # {} => Reached(o)
    /\ \A r \in Requests : Traced(r)

IInv == TypeOK /\ Accepted /\ Snapshots /\ Opened /\ OnlyPlacedOrdersMove /\ Traces

\* The calls whose movement is committed: a save adds its call, no step takes
\* one away.
LEMMA SaveJoins ==
    ASSUME IInv, NEW r \in Requests, SaveBatch(r), NEW op \in Ops, NEW o \in Orders
    PROVE  /\ r \notin Moves(op, o)
           /\ Moves(op, o)' = IF op = call[r].op /\ o = call[r].order
                              THEN Moves(op, o) \cup {r} ELSE Moves(op, o)
  <1>1. /\ pc[r] = "saveBatch" /\ call' = call /\ seen' = seen /\ status' = status
        /\ pc' = [pc EXCEPT ![r] = IF call[r].op = "receive" THEN "append" ELSE "save"]
    BY DEF SaveBatch, memory, approvals
  <1>2. status[r] = "none" /\ (call[r].op = "cancel" => seen[r] = "ORDERED")
    BY <1>1 DEF IInv, Traces, Traced
  <1>3. call[r] = [op |-> op, order |-> o] <=> op = call[r].op /\ o = call[r].order
    BY CallType DEF IInv
  <1>4. r \notin Moves(op, o)
    BY <1>1 DEF Moves
  <1>5. \A q \in Requests : q # r => (q \in Moves(op, o)' <=> q \in Moves(op, o))
    BY <1>1 DEF Moves, IInv, TypeOK
  <1>6. r \in Moves(op, o)' <=> op = call[r].op /\ o = call[r].order
    <2>1. pc'[r] \in {"append", "save"}
      BY <1>1 DEF IInv, TypeOK
    <2> QED
      BY <1>1, <1>2, <1>3, <2>1 DEF Moves
  <1>7. Moves(op, o) \subseteq Requests /\ Moves(op, o)' \subseteq Requests
    BY DEF Moves
  <1> QED
    BY <1>4, <1>5, <1>6, <1>7

LEMMA OthersJoinNothing ==
    ASSUME IInv, [Next]_vars, ~ \E r \in Requests : SaveBatch(r), NEW op \in Ops, NEW o
    PROVE  Moves(op, o)' = Moves(op, o)
  <1> USE DEF IInv
  <1> SUFFICES ASSUME NEW q \in Requests
               PROVE  q \in Moves(op, o)' <=> q \in Moves(op, o)
    BY DEF Moves
  <1>0. call' = call /\ call[q].op \in Ops /\ Traced(q)
    BY CallStays, CallType DEF Traces
  <1>1. ASSUME UNCHANGED <<pc[q], seen[q]>>, ~Intercept(q)
        PROVE  q \in Moves(op, o)' <=> q \in Moves(op, o)
    <2>1. status'[q] = "none" <=> status[q] = "none"
      BY <1>1, StatusOpens
    <2> QED
      BY <1>0, <1>1, <2>1 DEF Moves
  <1>2. CASE Find(q)
    <2>1. seen'[q] = orders[call[q].order]
      BY <1>2 DEF Find, TypeOK
    <2>2. pc'[q] = "save" => call[q].op = "cancel" /\ orders[call[q].order] # "ORDERED"
      BY <1>2 DEF Find, TypeOK
    <2>3. pc[q] = "find" /\ pc'[q] \in {"lookup", "save", "load"}
      BY <1>2 DEF Find, TypeOK
    <2>4. pc'[q] = "save" => seen'[q] # "ORDERED"
      BY <2>1, <2>2
    <2> QED
      BY <1>0, <2>2, <2>3, <2>4 DEF Moves
  <1>3. CASE Intercept(q)
    <2>1. pc[q] = "intercept" /\ status'[q] = "PENDING" /\ call[q].op = "place"
      BY <1>0, <1>3 DEF Intercept, A!Open, TypeOK, A!ApprovalTypeOK, Traced
    <2> QED
      BY <1>0, <2>1 DEF Moves
  <1>4. CASE Refuse(q) \/ Lookup(q) \/ Load(q) \/ Reject(q) \/ Conflict(q)
    BY <1>0, <1>4 DEF Refuse, Lookup, Load, Reject, Conflict, Moves, TypeOK
  <1>5. CASE AppendLedger(q) \/ SaveOrder(q)
    BY <1>0, <1>5 DEF AppendLedger, SaveOrder, Moves, TypeOK, memory, approvals
  <1>6. ASSUME NEW r \in Requests, Step(r), r # q
        PROVE  q \in Moves(op, o)' <=> q \in Moves(op, o)
    <2>1. UNCHANGED <<pc[q], seen[q]>>
      BY <1>6 DEF Step, Find, Refuse, Lookup, Intercept, Load, Reject, SaveBatch, Conflict,
                  AppendLedger, SaveOrder, TypeOK, memory
    <2>2. CASE Intercept(q)
      BY <1>3, <2>2
    <2> QED
      BY <1>1, <2>1, <2>2
  <1>7. ASSUME (\E u \in Orders : Create(u)) \/ (\E r \in Requests : Crash(r))
                 \/ (\E k \in Keys : Sell(k)) \/ UNCHANGED purchase \/ UNCHANGED vars
        PROVE  q \in Moves(op, o)' <=> q \in Moves(op, o)
    <2>1. UNCHANGED <<pc, seen>>
      BY <1>7 DEF Create, Crash, Sell, purchase, vars, memory
    <2>2. CASE Intercept(q)
      BY <1>3, <2>2
    <2> QED
      BY <1>1, <2>1, <2>2
  <1> QED
    BY <1>2, <1>3, <1>4, <1>5, <1>6, <1>7 DEF Next, Step

LEMMA MovesGrow ==
    ASSUME IInv, [Next]_vars, NEW op \in Ops, NEW o \in Orders
    PROVE  Moves(op, o) \subseteq Moves(op, o)'
  <1>1. CASE \E r \in Requests : SaveBatch(r)
    BY <1>1, SaveJoins
  <1>2. CASE ~ \E r \in Requests : SaveBatch(r)
    BY <1>2, OthersJoinNothing
  <1> QED
    BY <1>1, <1>2

\* No save passes over a row.
LEMMA NothingPassedOver ==
    ASSUME IInv, NEW r \in Requests, pc[r] = "saveBatch"
    PROVE  Saved(r, loaded[r]) = Rows(r)
BY DEF IInv, Traces, Traced, Saved

\* Rows stay once they are there, and the placing of an order makes them.
LEMMA NextReached ==
    ASSUME IInv, [Next]_vars, NEW o \in Orders, Moves("place", o)' # {}
    PROVE  Reached(o)'
  <1> USE DEF IInv
  <1>1. ASSUME NEW k \in Keys, items[k] # NoRow PROVE items'[k] # NoRow
    BY <1>1, RowsGoOn, OrderAssumption
  <1>2. CASE Moves("place", o) # {}
    BY <1>1, <1>2 DEF Traces, Reached
  <1>3. CASE Moves("place", o) = {}
    <2>1. PICK r \in Requests : SaveBatch(r)
      BY <1>3, OthersJoinNothing DEF Ops
    <2>2. call[r].op = "place" /\ o = call[r].order
      BY <1>3, <2>1, SaveJoins DEF Ops
    <2>3. ASSUME NEW k \in Keys, Lines[o][k] > 0 PROVE items'[k] # NoRow
      <3>1. k \in Saved(r, loaded[r])
        BY <2>1, <2>2, <2>3, NothingPassedOver DEF SaveBatch, Rows
      <3>2. items'[k] \in Item
        BY <2>1, <3>1, SaveApplies DEF NextOf
      <3> QED
        BY <3>2, OrderAssumption
    <2> QED
      BY <2>3 DEF Reached
  <1> QED
    BY <1>2, <1>3

\* A step of others leaves what a call has behind it, and so do the steps of
\* the call itself.
LEMMA NextTraced ==
    ASSUME IInv, [Next]_vars, NEW q \in Requests
    PROVE  Traced(q)'
  <1> USE DEF IInv
  <1>0. /\ Traced(q) /\ call' = call
        /\ call[q].op \in Ops /\ call[q].order \in Orders
        /\ Moves("place", call[q].order) # {} => Moves("place", call[q].order)' # {}
        /\ \A k \in Rows(q) : k \in Keys
    <2>1. call[q].op \in Ops /\ call[q].order \in Orders
      BY CallType
    <2>2. PICK o \in Orders : o = call[q].order
      BY <2>1
    <2>3. Moves("place", o) # {} => Moves("place", o)' # {}
      BY MovesGrow DEF Ops
    <2>4. call' = call
      BY CallStays
    <2>5. Moves("place", o)' = Moves("place", call[q].order)'
      BY <2>2, <2>4 DEF Moves
    <2> QED
      BY <2>1, <2>2, <2>3, <2>4, <2>5 DEF Traces, Rows
  <1>1. ASSUME UNCHANGED <<pc[q], seen[q], loaded[q]>>, ~Intercept(q) PROVE Traced(q)'
    <2>1. status'[q] = "none" <=> status[q] = "none"
      BY <1>1, StatusOpens
    <2> QED
      BY <1>0, <1>1, <2>1 DEF Traced, Rows
  <1>2. CASE Find(q)
    <2>1. /\ seen'[q] = orders[call[q].order] /\ loaded' = loaded /\ status' = status
          /\ pc[q] = "find" /\ status[q] = "none"
      BY <1>0, <1>2 DEF Find, TypeOK, approvals, Traced
    <2>2. seen'[q] = "ORDERED" => Moves("place", call[q].order)' # {}
      BY <1>0, <2>1 DEF OnlyPlacedOrdersMove
    <2>3. /\ call[q].op = "place" => pc'[q] = "lookup"
          /\ call[q].op = "receive" => pc'[q] = "load" /\ seen'[q] = "ORDERED"
          /\ call[q].op = "cancel" =>
               pc'[q] = "save" \/ (pc'[q] = "load" /\ seen'[q] = "ORDERED")
      BY <1>2, <2>1 DEF Find, Allowed, TypeOK
    <2> QED
      BY <1>0, <2>1, <2>2, <2>3 DEF Traced, Ops
  <1>3. CASE Intercept(q)
    <2>1. /\ pc[q] = "intercept" /\ pc'[q] \in {"save", "rejected"}
          /\ UNCHANGED <<seen, loaded>>
      BY <1>3 DEF Intercept, TypeOK, memory
    <2> QED
      BY <1>0, <2>1 DEF Traced, Ops
  <1>4. CASE Lookup(q)
    <2>1. /\ pc[q] = "lookup" /\ pc'[q] \in {"intercept", "load", "rejected"}
          /\ UNCHANGED <<seen, loaded, status>>
      BY <1>4 DEF Lookup, TypeOK, memory, approvals
    <2> QED
      BY <1>0, <2>1 DEF Traced, Ops
  <1>5. CASE Load(q)
    <2>1. /\ pc[q] = "load" /\ pc'[q] = "saveBatch"
          /\ loaded'[q] = [k \in Keys |-> IF k \in Rows(q) THEN items[k] ELSE NoRow]
          /\ UNCHANGED <<seen, status>>
      BY <1>5 DEF Load, TypeOK, approvals
    <2>2. ASSUME call[q].op = "cancel", NEW k \in Rows(q) PROVE loaded'[q][k] # NoRow
      <3>1. Reached(call[q].order)
        BY <1>0, <2>1, <2>2 DEF Traces, Traced
      <3>2. k \in Keys /\ Lines[call[q].order][k] > 0
        BY DEF Rows
      <3> QED
        BY <2>1, <3>1, <3>2 DEF Reached
    <2>3. Rows(q)' = Rows(q)
      BY <1>0 DEF Rows
    <2> QED
      BY <1>0, <2>1, <2>2, <2>3 DEF Traced
  <1>6. CASE SaveBatch(q)
    <2>1. /\ pc[q] = "saveBatch"
          /\ pc'[q] = IF call[q].op = "receive" THEN "append" ELSE "save"
          /\ UNCHANGED <<seen, loaded, status>>
      BY <1>6 DEF SaveBatch, TypeOK, memory, approvals
    <2> QED
      BY <1>0, <2>1 DEF Traced
  <1>7. CASE Refuse(q) \/ Reject(q) \/ Conflict(q)
    <2>1. pc'[q] = "rejected" /\ UNCHANGED <<seen, loaded, status>>
      BY <1>7 DEF Refuse, Reject, Conflict, TypeOK, memory, approvals
    <2> QED
      BY <1>0, <2>1 DEF Traced
  <1>8. CASE AppendLedger(q) \/ SaveOrder(q)
    <2>1. /\ pc[q] \in {"append", "save"} /\ pc'[q] \in {"save", "done"}
          /\ UNCHANGED <<seen, loaded, status>>
      BY <1>8 DEF AppendLedger, SaveOrder, TypeOK, memory, approvals
    <2> QED
      BY <1>0, <2>1 DEF Traced
  <1>9. ASSUME NEW r \in Requests, Step(r), r # q PROVE Traced(q)'
    <2>1. UNCHANGED <<pc[q], seen[q], loaded[q]>>
      BY <1>9 DEF Step, Find, Refuse, Lookup, Intercept, Load, Reject, SaveBatch, Conflict,
                  AppendLedger, SaveOrder, TypeOK, memory
    <2> QED
      BY <1>1, <1>3, <2>1
  <1>10. ASSUME (\E u \in Orders : Create(u)) \/ (\E r \in Requests : Crash(r))
                  \/ (\E k \in Keys : Sell(k)) \/ UNCHANGED purchase \/ UNCHANGED vars
         PROVE  Traced(q)'
    <2>1. UNCHANGED <<pc, seen, loaded>>
      BY <1>10 DEF Create, Crash, Sell, purchase, vars, memory
    <2> QED
      BY <1>1, <1>3, <2>1
  <1> QED
    BY <1>2, <1>3, <1>4, <1>5, <1>6, <1>7, <1>8, <1>9, <1>10 DEF Next, Step

LEMMA NextOnlyPlaced ==
    ASSUME IInv, [Next]_vars
    PROVE  OnlyPlacedOrdersMove'
  <1> USE DEF IInv
  <1> SUFFICES ASSUME NEW o \in Orders, Moves("place", o)' = {}
               PROVE  /\ orders'[o] \notin {"ORDERED", "RECEIVED"}
                      /\ Moves("receive", o)' = {} /\ Moves("cancel", o)' = {}
    BY DEF OnlyPlacedOrdersMove
  <1>0. Moves("place", o) = {}
    BY MovesGrow DEF Ops
  <1>1. /\ orders[o] \notin {"ORDERED", "RECEIVED"}
        /\ Moves("receive", o) = {} /\ Moves("cancel", o) = {}
    BY <1>0 DEF OnlyPlacedOrdersMove
  <1>2. \A r \in Requests : call[r].order = o => seen[r] # "ORDERED"
    BY <1>0 DEF Traces, Traced
  <1>3. Moves("receive", o)' = {} /\ Moves("cancel", o)' = {}
    <2>1. CASE ~ \E r \in Requests : SaveBatch(r)
      BY <1>1, <2>1, OthersJoinNothing DEF Ops
    <2>2. ASSUME NEW r \in Requests, SaveBatch(r)
          PROVE  Moves("receive", o)' = {} /\ Moves("cancel", o)' = {}
      <3>1. pc[r] = "saveBatch" /\ Traced(r)
        BY <2>2 DEF SaveBatch, Traces
      <3>2. call[r].order = o => call[r].op \notin {"receive", "cancel"}
        BY <1>2, <3>1 DEF Traced
      <3> QED
        BY <1>1, <2>2, <3>2, SaveJoins DEF Ops
    <2> QED
      BY <2>1, <2>2
  <1>4. orders'[o] \notin {"ORDERED", "RECEIVED"}
    <2>1. ASSUME NEW r \in Requests, SaveOrder(r) PROVE orders'[o] \notin {"ORDERED", "RECEIVED"}
      <3>1. orders' = [orders EXCEPT ![call[r].order] = Target(r)] /\ pc[r] = "save"
        BY <2>1 DEF SaveOrder
      <3>2. call[r].op \in Ops /\ call[r] = [op |-> call[r].op, order |-> call[r].order]
        BY CallType
      <3>3. CASE call[r].order = o
        <4>1. call[r].op = "place" => status[r] # "none"
          BY <1>0, <3>1, <3>2, <3>3 DEF Moves
        <4>2. call[r].op # "receive"
          BY <1>2, <3>1, <3>3 DEF Traces, Traced
        <4>3. Target(r) \in {"PENDING_APPROVAL", "CANCELLED"}
          BY <3>2, <4>1, <4>2 DEF Target, Ops
        <4> QED
          BY <3>1, <3>3, <4>3 DEF TypeOK
      <3>4. CASE call[r].order # o
        BY <1>1, <3>1, <3>4 DEF TypeOK
      <3> QED
        BY <3>3, <3>4
    <2>2. ASSUME NEW u \in Orders, Create(u) PROVE orders'[o] \notin {"ORDERED", "RECEIVED"}
      BY <1>1, <2>2 DEF Create, TypeOK
    <2>3. ASSUME ~ \E r \in Requests : SaveOrder(r), ~ \E u \in Orders : Create(u)
          PROVE  orders' = orders
      BY <2>3 DEF Next, Step, Find, Refuse, Lookup, Intercept, Load, Reject, SaveBatch,
                  Conflict, AppendLedger, Crash, Sell, purchase, vars
    <2> QED
      BY <1>1, <2>1, <2>2, <2>3
  <1> QED
    BY <1>3, <1>4

LEMMA InitInv == Init => IInv
  <1> SUFFICES ASSUME Init PROVE IInv
    OBVIOUS
  <1>1. A!ApprovalTypeOK
    BY WorkflowAssumption DEF Init, A!ApprovalInit, A!ApprovalTypeOK, A!RequestStatuses, A!Steps
  <1>2. PurchaseType
    BY OrderAssumption DEF Init, PurchaseType, Tables
  <1>3. TypeOK
    BY <1>1, <1>2, TypeParts
  <1>4. Accepted /\ Snapshots /\ Opened
    BY DEF Init, A!ApprovalInit, Accepted, Snapshots, Opened
  <1>5. \A op, o : Moves(op, o) = {}
    BY DEF Init, Moves
  <1>6. OnlyPlacedOrdersMove
    BY <1>5 DEF Init, OnlyPlacedOrdersMove
  <1>7. Traces
    BY <1>5, OrderAssumption DEF Init, A!ApprovalInit, Traces, Traced
  <1> QED
    BY <1>3, <1>4, <1>6, <1>7 DEF IInv

LEMMA NextInv == IInv /\ [Next]_vars => IInv'
  <1> SUFFICES ASSUME IInv, [Next]_vars PROVE IInv'
    OBVIOUS
  <1>1. TypeOK' /\ Accepted' /\ Snapshots' /\ Opened'
    BY NextType, NextSnapshots, NextOpened DEF IInv
  <1>2. Traces'
    BY NextTraced, NextReached DEF Traces
  <1> QED
    BY <1>1, <1>2, NextOnlyPlaced DEF IInv

LEMMA Invariance == Spec => []IInv
BY InitInv, NextInv, PTL DEF Spec

-----------------------------------------------------------------------------
\* Finitely many calls are under way or over: none at first, and each step is
\* of one call.
Begun == {r \in Requests : pc[r] # "find"}

FinitelyMany == IsFiniteSet(Begun)

LEMMA NextFinite ==
    ASSUME TypeOK, [Next]_vars, FinitelyMany
    PROVE  FinitelyMany'
  <1>1. ASSUME NEW r \in Requests, Step(r)
        PROVE  Begun' \subseteq Begun \cup {r}
    BY <1>1 DEF Step, Find, Refuse, Lookup, Intercept, Load, Reject, SaveBatch, Conflict,
                AppendLedger, SaveOrder, Begun, TypeOK
  <1>2. ASSUME ~ \E r \in Requests : Step(r)
        PROVE  Begun' = Begun
    BY <1>2 DEF Next, Create, Crash, Sell, vars, purchase, Begun
  <1>3. \A r : IsFiniteSet(Begun \cup {r})
    BY FS_AddElement DEF FinitelyMany
  <1> QED
    BY <1>1, <1>2, <1>3, FS_Subset DEF FinitelyMany

LEMMA InitFinite == Init => FinitelyMany
  <1> SUFFICES ASSUME Init PROVE FinitelyMany
    OBVIOUS
  <1>1. Begun = {}
    BY DEF Init, Begun
  <1> QED
    BY <1>1, FS_EmptySet DEF FinitelyMany

LEMMA MovesFinite ==
    ASSUME FinitelyMany, NEW op, NEW o
    PROVE  IsFiniteSet(Moves(op, o)) /\ Cardinality(Moves(op, o)) \in Nat
BY FS_Subset, FS_CardinalityType DEF FinitelyMany, Begun, Moves

LEMMA OutstandingType ==
    ASSUME FinitelyMany, NEW o
    PROVE  Outstanding(o) \in Int
BY MovesFinite DEF Outstanding

-----------------------------------------------------------------------------
\* What a save does to the goods in transit and to the goods on hand.
TransitDelta(r, k) == IF call[r].op = "place" THEN Amount(r, k) ELSE 0 - Amount(r, k)
ReceiptDelta(r, k) == IF call[r].op = "receive" THEN Amount(r, k) ELSE 0

LEMMA RevisedFields ==
    \A i, q, a, t : Revised(i, q, a, t).quantity = q /\ Revised(i, q, a, t).inTransit = t
BY DEF Revised

LEMMA FieldType ==
    ASSUME NEW table \in Tables, NEW k \in Keys
    PROVE  OnHand(table, k) \in Nat /\ Incoming(table, k) \in Nat
BY DEF Tables, OnHand, Incoming, Item

LEMMA SaveDeltas ==
    ASSUME IInv, NEW r \in Requests, SaveBatch(r), NEW k \in Keys
    PROVE  /\ OnHand(items', k) = OnHand(items, k) + ReceiptDelta(r, k)
           /\ Incoming(items', k) = Incoming(items, k) + TransitDelta(r, k)
  <1> USE DEF IInv
  <1>1. /\ OnHand(items, k) \in Nat /\ Incoming(items, k) \in Nat
        /\ Amount(r, k) \in Nat /\ call[r].op \in Ops
    BY FieldType, RowType, CallType DEF TypeOK
  <1>2. Saved(r, loaded[r]) = Rows(r)
    BY NothingPassedOver DEF SaveBatch
  <1>3. CASE k \in Rows(r)
    <2> DEFINE i == Base(items, k)
               n == Amount(r, k)
               m == Method(r)
    <2>1. items'[k] = Apply(m, i, n) /\ items'[k] # NoRow
      BY <1>2, <1>3, SaveApplies, OrderAssumption DEF NextOf
    <2>2. OnHand(items, k) = i.quantity /\ Incoming(items, k) = i.inTransit
      BY DEF OnHand, Incoming, Base, CreateNew
    <2>3. OnHand(items', k) = Apply(m, i, n).quantity
          /\ Incoming(items', k) = Apply(m, i, n).inTransit
      BY <2>1 DEF OnHand, Incoming
    <2>4. n \in Nat
      BY <1>1
    <2>5. /\ call[r].op = "place" =>
               m = "createInTransit" /\ TransitDelta(r, k) = n /\ ReceiptDelta(r, k) = 0
          /\ call[r].op = "receive" =>
               m = "receiveInTransit" /\ TransitDelta(r, k) = 0 - n /\ ReceiptDelta(r, k) = n
          /\ call[r].op = "cancel" =>
               m = "cancelInTransit" /\ TransitDelta(r, k) = 0 - n /\ ReceiptDelta(r, k) = 0
      BY DEF Method, TransitDelta, ReceiptDelta
    <2> HIDE DEF i, n, m
    <2>6. /\ m = "createInTransit" => /\ Apply(m, i, n).quantity = i.quantity
                                      /\ Apply(m, i, n).inTransit = i.inTransit + n
          /\ m = "receiveInTransit" => /\ Apply(m, i, n).quantity = i.quantity + n
                                       /\ Apply(m, i, n).inTransit = i.inTransit - n
          /\ m = "cancelInTransit" => /\ Apply(m, i, n).quantity = i.quantity
                                      /\ Apply(m, i, n).inTransit = i.inTransit - n
      BY ApplyIs, RevisedFields
    <2> QED
      BY <1>1, <2>2, <2>3, <2>4, <2>5, <2>6 DEF Ops
  <1>4. CASE k \notin Rows(r)
    <2>1. items'[k] = items[k]
      BY <1>2, <1>4 DEF SaveBatch
    <2>2. Amount(r, k) = 0
      BY <1>1, <1>4 DEF Rows, Amount
    <2>3. ReceiptDelta(r, k) = 0 /\ TransitDelta(r, k) = 0
      BY <2>2 DEF ReceiptDelta, TransitDelta
    <2> QED
      BY <1>1, <2>1, <2>3 DEF OnHand, Incoming
  <1> QED
    BY <1>3, <1>4

LEMMA SellDeltas ==
    ASSUME TypeOK, NEW j \in Keys, Sell(j), NEW k \in Keys
    PROVE  /\ Incoming(items', k) = Incoming(items, k)
           /\ OnHand(items', k) + sold'[k] = OnHand(items, k) + sold[k]
  <1>1. /\ items[j] \in Item /\ items'[j] \in Item
        /\ items'[j] = DispatchStock(items[j], 1)
        /\ items' = [items EXCEPT ![j] = items'[j]]
        /\ sold' = [sold EXCEPT ![j] = @ + 1]
    BY SellNext DEF NextOf, Sell
  <1>2. sold[k] \in Int /\ OnHand(items, k) \in Int
    BY FieldType DEF TypeOK
  <1>3. CASE k = j
    <2>1. items[k] # NoRow /\ items'[k] # NoRow
      BY <1>1, <1>3, OrderAssumption
    <2>2. items'[k].quantity = items[k].quantity - 1 /\ items'[k].inTransit = items[k].inTransit
      BY <1>1, <1>3, RevisedFields DEF DispatchStock
    <2>3. sold'[k] = sold[k] + 1
      BY <1>1, <1>3 DEF TypeOK
    <2> QED
      BY <1>2, <2>1, <2>2, <2>3 DEF OnHand, Incoming
  <1>4. CASE k # j
    BY <1>1, <1>4 DEF OnHand, Incoming, TypeOK, Tables
  <1> QED
    BY <1>3, <1>4

-----------------------------------------------------------------------------
\* A save changes how often the goods of its own order are on their way: a
\* placing adds one, a receipt or a cancellation takes one off.
LEMMA SaveOutstanding ==
    ASSUME IInv, FinitelyMany, NEW r \in Requests, SaveBatch(r), NEW o \in Orders
    PROVE  Outstanding(o)' = IF o # call[r].order THEN Outstanding(o)
                             ELSE IF call[r].op = "place" THEN Outstanding(o) + 1
                             ELSE Outstanding(o) - 1
  <1>1. call[r].op \in Ops
    BY CallType DEF IInv
  <1>2. ASSUME NEW op \in Ops
        PROVE  Cardinality(Moves(op, o))' =
                 IF op = call[r].op /\ o = call[r].order
                 THEN Cardinality(Moves(op, o)) + 1 ELSE Cardinality(Moves(op, o))
    <2>1. /\ r \notin Moves(op, o)
          /\ Moves(op, o)' = IF op = call[r].op /\ o = call[r].order
                             THEN Moves(op, o) \cup {r} ELSE Moves(op, o)
      BY SaveJoins
    <2>2. IsFiniteSet(Moves(op, o))
      BY MovesFinite
    <2>3. Cardinality(Moves(op, o) \cup {r}) = Cardinality(Moves(op, o)) + 1
      BY <2>1, <2>2, FS_AddElement
    <2> QED
      BY <2>1, <2>3
  <1>3. \A op : Cardinality(Moves(op, o)) \in Nat
    BY MovesFinite
  <1> QED
    BY <1>1, <1>2, <1>3 DEF Outstanding, Ops

\* What the orders have on the way to a row.
OnTheWay(k) == [o \in Orders |-> Lines[o][k] * Outstanding(o)]

LEMMA ProductType == \A m \in Nat, n \in Int : m * n \in Int
OBVIOUS

LEMMA WaySummable ==
    ASSUME FinitelyMany, NEW k \in Keys
    PROVE  Summable(OnTheWay(k), Orders)
  <1>1. \A o \in Orders : Lines[o][k] \in Nat
    BY OrderAssumption
  <1>2. \A o \in Orders : OnTheWay(k)[o] \in Int
    BY <1>1, ProductType, OutstandingType DEF OnTheWay
  <1> QED
    BY <1>2, OrderAssumption DEF Summable

LEMMA SaveOnTheWay ==
    ASSUME IInv, FinitelyMany, FinitelyMany', NEW r \in Requests, SaveBatch(r), NEW k \in Keys
    PROVE  SumFunctionOnSet(OnTheWay(k)', Orders)
             = SumFunctionOnSet(OnTheWay(k), Orders) + TransitDelta(r, k)
  <1>0. PICK x \in Orders : x = call[r].order
    BY CallType DEF IInv
  <1> DEFINE n == Lines[x][k]
             f == OnTheWay(k)
             g == OnTheWay(k)'
  <1>1. n \in Nat /\ n = Amount(r, k)
    BY <1>0, OrderAssumption DEF Amount
  <1>2. Summable(f, Orders)
    BY WaySummable
  <1>3. Summable(g, Orders)
    <2>1. \A o : Outstanding(o)' \in Int
      BY MovesFinite, FS_Subset, FS_CardinalityType DEF FinitelyMany, Begun, Moves, Outstanding
    <2>2. \A o \in Orders : Lines[o][k] \in Nat
      BY OrderAssumption
    <2>3. \A o \in Orders : g[o] \in Int
      BY <2>1, <2>2, ProductType DEF OnTheWay
    <2> QED
      BY <2>3, OrderAssumption DEF Summable
  <1>4. \A o \in Orders : o # x => f[o] = g[o]
    BY <1>0, SaveOutstanding DEF OnTheWay
  <1>5. f[x] = n * Outstanding(x) /\ g[x] = n * Outstanding(x)'
    BY DEF OnTheWay
  <1>6. /\ Outstanding(x) \in Int
        /\ Outstanding(x)' = IF call[r].op = "place" THEN Outstanding(x) + 1
                             ELSE Outstanding(x) - 1
    <2>1. Outstanding(x) \in Int
      BY OutstandingType
    <2>2. Outstanding(x)' = IF call[r].op = "place" THEN Outstanding(x) + 1
                            ELSE Outstanding(x) - 1
      BY <1>0, SaveOutstanding
    <2> QED
      BY <2>1, <2>2
  <1>7. TransitDelta(r, k) = IF call[r].op = "place" THEN n ELSE 0 - n
    BY <1>1 DEF TransitDelta
  <1>8. \A i \in Int : n * (i + 1) = n * i + n /\ n * (i - 1) = n * i - n /\ n * i \in Int
    <2> HIDE DEF n
    <2> QED
      BY <1>1
  <1> HIDE DEF n, f, g
  <1>9. g[x] = f[x] + TransitDelta(r, k) /\ f[x] \in Int /\ TransitDelta(r, k) \in Int
    <2>1. PICK i \in Int : i = Outstanding(x)
      BY <1>6
    <2>2. n * i \in Int /\ n * (i + 1) = n * i + n /\ n * (i - 1) = n * i - n
      BY <1>8, Zenon
    <2>3. f[x] = n * i
      BY <1>5, <2>1
    <2>4. CASE call[r].op = "place"
      <3>1. g[x] = n * (i + 1) /\ TransitDelta(r, k) = n
        BY <1>5, <1>6, <1>7, <2>1, <2>4
      <3> QED
        BY <1>1, <2>2, <2>3, <3>1
    <2>5. CASE call[r].op # "place"
      <3>1. g[x] = n * (i - 1) /\ TransitDelta(r, k) = 0 - n
        BY <1>5, <1>6, <1>7, <2>1, <2>5
      <3> QED
        BY <1>1, <2>2, <2>3, <3>1
    <2> QED
      BY <2>4, <2>5
  <1>10. SumFunctionOnSet(g, Orders) = SumFunctionOnSet(f, Orders) + (g[x] - f[x])
    BY <1>2, <1>3, <1>4, SumUpdate
  <1>11. SumFunctionOnSet(f, Orders) \in Int
    BY <1>2, SumType
  <1>12. SumFunctionOnSet(g, Orders) = SumFunctionOnSet(f, Orders) + TransitDelta(r, k)
    BY <1>9, <1>10, <1>11
  <1> QED
    BY <1>12 DEF f, g

LEMMA NextOrdered ==
    ASSUME IInv, FinitelyMany, FinitelyMany', [Next]_vars, InTransitIsOrdered
    PROVE  InTransitIsOrdered'
  <1> SUFFICES ASSUME NEW k \in Keys
               PROVE  Incoming(items', k) = Incoming(InitialItems, k)
                        + SumFunctionOnSet(OnTheWay(k)', Orders)
    BY DEF InTransitIsOrdered, OnTheWay, SumFunction
  <1>1. Incoming(items, k) = Incoming(InitialItems, k) + SumFunctionOnSet(OnTheWay(k), Orders)
    BY DEF InTransitIsOrdered, OnTheWay, SumFunction
  <1>2. ASSUME NEW r \in Requests, SaveBatch(r)
        PROVE  Incoming(items', k) = Incoming(InitialItems, k)
                 + SumFunctionOnSet(OnTheWay(k)', Orders)
    <2>1. Incoming(items', k) = Incoming(items, k) + TransitDelta(r, k)
      BY <1>2, SaveDeltas
    <2>2. SumFunctionOnSet(OnTheWay(k)', Orders)
            = SumFunctionOnSet(OnTheWay(k), Orders) + TransitDelta(r, k)
      BY <1>2, SaveOnTheWay
    <2>3. TransitDelta(r, k) \in Int
      <3>1. Amount(r, k) \in Nat
        BY RowType DEF IInv
      <3> QED
        BY <3>1 DEF TransitDelta
    <2>4. /\ Incoming(InitialItems, k) \in Int
          /\ SumFunctionOnSet(OnTheWay(k), Orders) \in Int
      BY FieldType, OrderAssumption, WaySummable, SumType
    <2> QED
      BY <1>1, <2>1, <2>2, <2>3, <2>4
  <1>3. CASE ~ \E r \in Requests : SaveBatch(r)
    <2>1. OnTheWay(k)' = OnTheWay(k)
      <3>1. \A o : Outstanding(o)' = Outstanding(o)
        BY <1>3, OthersJoinNothing DEF Outstanding, Ops
      <3> QED
        BY <3>1 DEF OnTheWay
    <2>2. Incoming(items', k) = Incoming(items, k)
      BY <1>3, SellDeltas, OthersLeaveRows DEF IInv
    <2> QED
      BY <1>1, <2>1, <2>2
  <1> QED
    BY <1>2, <1>3

LEMMA InitOrdered == Init => InTransitIsOrdered
  <1> SUFFICES ASSUME Init, NEW k \in Keys
               PROVE  Incoming(items, k) = Incoming(InitialItems, k)
                        + SumFunctionOnSet(OnTheWay(k), Orders)
    BY DEF InTransitIsOrdered, OnTheWay, SumFunction
  <1>1. \A o : Outstanding(o) = 0
    <2>1. \A op, o : Moves(op, o) = {}
      BY DEF Init, Moves
    <2> QED
      BY <2>1, FS_EmptySet DEF Outstanding
  <1>2. \A o \in Orders : OnTheWay(k)[o] = 0
    BY <1>1, OrderAssumption DEF OnTheWay
  <1>3. SumFunctionOnSet(OnTheWay(k), Orders) = 0
    BY <1>2, OrderAssumption, SumZero
  <1>4. Incoming(InitialItems, k) \in Int
    BY FieldType, OrderAssumption
  <1> QED
    BY <1>3, <1>4 DEF Init

\* What is in transit to a location is, to the piece, what placed orders have
\* announced there less what receipts and cancellations took out, for any number
\* of orders that share a row.
THEOREM TransitOrdered == Spec => []InTransitIsOrdered
  <1>1. Init => FinitelyMany /\ InTransitIsOrdered
    BY InitFinite, InitOrdered
  <1>2. IInv /\ [Next]_vars /\ FinitelyMany /\ InTransitIsOrdered
          => FinitelyMany' /\ InTransitIsOrdered'
    BY NextFinite, NextOrdered DEF IInv
  <1>3. Spec => []IInv
    BY Invariance
  <1> QED
    BY <1>1, <1>2, <1>3, PTL DEF Spec

-----------------------------------------------------------------------------
\* The receipts between their two writes, and what the ledger will say of each.
Lagging == {r \in Requests : pc[r] = "append"}

Receipt(k) == [r \in Requests |-> Amount(r, k)]

LEMMA LagIs ==
    ReceiptsInLedger <=> \A k \in Keys :
        OnHand(items, k) + sold[k] =
            OnHand(InitialItems, k) + ledger[k] + SumFunctionOnSet(Receipt(k), Lagging)
BY DEF ReceiptsInLedger, Receipt, Lagging

LEMMA ReceiptSummable ==
    ASSUME TypeOK, FinitelyMany, NEW k \in Keys, NEW S \in SUBSET Begun
    PROVE  Summable(Receipt(k), S)
  <1>1. IsFiniteSet(S)
    BY FS_Subset DEF FinitelyMany
  <1>2. \A r \in S : Receipt(k)[r] \in Int
    BY RowType DEF Receipt, Begun
  <1> QED
    BY <1>1, <1>2 DEF Summable

LEMMA NextLag ==
    ASSUME IInv, FinitelyMany, [Next]_vars, ReceiptsInLedger
    PROVE  ReceiptsInLedger'
  <1> DEFINE Balanced(k) == OnHand(items', k) + sold'[k] =
                 OnHand(InitialItems, k) + ledger'[k] + SumFunctionOnSet(Receipt(k), Lagging')
  <1> SUFFICES ASSUME NEW k \in Keys PROVE Balanced(k)
    <2>1. \A k : Receipt(k)' = Receipt(k)
      BY CallStays DEF Receipt, Amount
    <2> QED
      BY <2>1 DEF ReceiptsInLedger, Receipt, Lagging
  <1> USE DEF IInv
  <1>1. OnHand(items, k) + sold[k] =
            OnHand(InitialItems, k) + ledger[k] + SumFunctionOnSet(Receipt(k), Lagging)
    BY LagIs
  <1>2. Lagging \in SUBSET Begun
    BY DEF Lagging, Begun
  <1>3. /\ OnHand(InitialItems, k) \in Int /\ OnHand(items, k) \in Int
        /\ sold[k] \in Int /\ ledger[k] \in Int
        /\ SumFunctionOnSet(Receipt(k), Lagging) \in Int
    BY <1>2, FieldType, OrderAssumption, ReceiptSummable, SumType DEF TypeOK
  <1>4. ASSUME NEW r \in Requests, SaveBatch(r) PROVE Balanced(k)
    <2>1. OnHand(items', k) = OnHand(items, k) + ReceiptDelta(r, k)
      BY <1>4, SaveDeltas
    <2>2. UNCHANGED <<sold, ledger>> /\ pc[r] = "saveBatch" /\ Amount(r, k) \in Int
      BY <1>4, RowType DEF SaveBatch
    <2>3. CASE call[r].op = "receive"
      <3>1. Lagging' = Lagging \cup {r} /\ r \notin Lagging /\ r \in Begun
        BY <1>4, <2>3 DEF SaveBatch, Lagging, Begun, TypeOK
      <3>2. Summable(Receipt(k), Lagging \cup {r})
        BY <1>2, <3>1, ReceiptSummable
      <3>3. SumFunctionOnSet(Receipt(k), Lagging \cup {r})
              = SumFunctionOnSet(Receipt(k), Lagging) + Amount(r, k)
        BY <3>1, <3>2, SumAddElement DEF Receipt
      <3>4. ReceiptDelta(r, k) = Amount(r, k)
        BY <2>3 DEF ReceiptDelta
      <3> QED
        BY <1>1, <1>3, <2>1, <2>2, <3>1, <3>3, <3>4
    <2>4. CASE call[r].op # "receive"
      <3>1. Lagging' = Lagging
        BY <1>4, <2>4 DEF SaveBatch, Lagging, TypeOK
      <3>2. ReceiptDelta(r, k) = 0
        BY <2>4 DEF ReceiptDelta
      <3> QED
        BY <1>1, <1>3, <2>1, <2>2, <3>1, <3>2
    <2> QED
      BY <2>3, <2>4
  <1>5. ASSUME NEW r \in Requests, AppendLedger(r) PROVE Balanced(k)
    <2>1. Lagging' = Lagging \ {r} /\ r \in Lagging
      BY <1>5 DEF AppendLedger, Lagging, TypeOK
    <2>2. Summable(Receipt(k), Lagging) /\ Summable(Receipt(k), Lagging \ {r})
      BY <1>2, ReceiptSummable
    <2>3. SumFunctionOnSet(Receipt(k), Lagging)
            = Amount(r, k) + SumFunctionOnSet(Receipt(k), Lagging \ {r})
      BY <2>1, <2>2, SumTakeOut DEF Receipt
    <2>4. SumFunctionOnSet(Receipt(k), Lagging \ {r}) \in Int /\ Amount(r, k) \in Int
      BY <2>2, SumType, RowType
    <2>5. UNCHANGED <<items, sold>> /\ ledger'[k] = ledger[k] + Amount(r, k)
      BY <1>5 DEF AppendLedger
    <2> QED
      BY <1>1, <1>3, <2>1, <2>3, <2>4, <2>5
  <1>6. ASSUME NEW j \in Keys, Sell(j) PROVE Balanced(k)
    <2>1. ledger' = ledger /\ Lagging' = Lagging
      BY <1>6 DEF Sell, Lagging
    <2>2. OnHand(items', k) + sold'[k] = OnHand(items, k) + sold[k]
      BY <1>6, SellDeltas
    <2> QED
      BY <1>1, <2>1, <2>2
  <1>7. ASSUME ~ \E r \in Requests : SaveBatch(r) \/ AppendLedger(r),
               ~ \E j \in Keys : Sell(j)
        PROVE  Balanced(k)
    <2>1. UNCHANGED <<items, sold, ledger>>
      BY <1>7 DEF Next, Step, Create, Find, Refuse, Lookup, Intercept, Load, Reject, Conflict,
                  SaveOrder, Crash, vars, purchase
    <2>2. Lagging' = Lagging
      BY <1>7 DEF Next, Step, Create, Find, Refuse, Lookup, Intercept, Load, Reject, Conflict,
                  SaveOrder, Crash, vars, purchase, Lagging, TypeOK
    <2> QED
      BY <1>1, <2>1, <2>2
  <1> QED
    BY <1>4, <1>5, <1>6, <1>7

LEMMA InitLag == Init => ReceiptsInLedger
  <1> SUFFICES ASSUME Init, NEW k \in Keys
               PROVE  OnHand(items, k) + sold[k] =
                        OnHand(InitialItems, k) + ledger[k]
                          + SumFunctionOnSet(Receipt(k), Lagging)
    BY LagIs
  <1>1. Lagging = {}
    BY DEF Init, Lagging
  <1>2. SumFunctionOnSet(Receipt(k), Lagging) = 0
    BY <1>1, SumEmpty
  <1>3. OnHand(InitialItems, k) \in Int
    BY FieldType, OrderAssumption
  <1> QED
    BY <1>2, <1>3 DEF Init

\* Every piece taken in was ordered and is in the ledger, but for the receipts
\* that are between their two writes or have stopped there; and an order that is
\* intercepted for approval, and placed by no other call, moves no stock.
THEOREM OrdersAreTraced == Spec => []OrdersTraced
  <1>1. Init => FinitelyMany /\ ReceiptsInLedger
    BY InitFinite, InitLag
  <1>2. IInv /\ [Next]_vars /\ FinitelyMany /\ ReceiptsInLedger
          => FinitelyMany' /\ ReceiptsInLedger'
    BY NextFinite, NextLag DEF IInv
  <1>3. Spec => []IInv
    BY Invariance
  <1>4. IInv /\ ReceiptsInLedger => OrdersTraced
    BY DEF IInv, OrdersTraced
  <1> QED
    BY <1>1, <1>2, <1>3, <1>4, PTL DEF Spec

-----------------------------------------------------------------------------
(***************************************************************************)
(* Replenishment.  What an evaluation has read stays true of the documents *)
(* that were there when it began: one that it saw settled opens no more,   *)
(* and goods come in from documents that were on their way.  So at a spot  *)
(* where every document is known to it and none was open when it looked,   *)
(* nothing is on its way (TransitIs), the stock that it read hides at most *)
(* what was reserved, and the stock has only fallen since (Abreast).  What *)
(* it drafts there comes on top of less than a reorder point; any other    *)
(* step leaves the sum of a spot or lowers it (Bounded).                   *)
(***************************************************************************)
CONSTANTS Spots, Catalogued, Rules, RuleRequests, RuleCommands, MaxDocs, MaxStock,
          MaxReserved, Points, NoDoc, Unread
VARIABLES ruleRows, doc, onHand, reserved, inTransit, ruleCall, rulePc, ruleCopy, doubled

W == INSTANCE Replenishment WITH
       Requests <- RuleRequests, Commands <- RuleCommands, Absent <- NoDoc, None <- Unread,
       rules <- ruleRows, call <- ruleCall, pc <- rulePc, copy <- ruleCopy

DocKinds == {"supplier", "transfer"}
UnderWay == {"draft", "ordered"}
Documents == [spot : Spots, kind : DocKinds, quantity : Nat,
              status : UnderWay \cup {"pending", "received", "cancelled"}]
RuleRecords == [kind : DocKinds, point : Points \cup {r.point : r \in Rules},
                quantity : {r.quantity : r \in Rules}, active : BOOLEAN, dynamic : BOOLEAN]
RuleTables == [Spots -> RuleRecords \cup {NoDoc}]

RuleAssumption ==
    /\ IsFiniteSet(Spots) /\ IsFiniteSet(Points) /\ IsFiniteSet(Rules)
    /\ Points \subseteq Nat /\ Rules # {}
    /\ Rules \subseteq [kind : DocKinds, point : Nat, quantity : Nat \ {0},
                        active : BOOLEAN, dynamic : BOOLEAN]
    /\ \A c \in RuleCommands :
        /\ c.op = "toggle" => c.spot \in Spots /\ c.on \in BOOLEAN
        /\ c.op = "create" => c.spot \in Spots /\ (W!Valid(c.rule) => c.rule \in Rules)
    /\ MaxDocs \in Nat /\ MaxStock \in Nat /\ MaxReserved \in Nat
    /\ NoDoc \notin Documents /\ NoDoc \notin RuleRecords

RuleCopies ==
    [rules : RuleTables \cup {Unread}, orders : (SUBSET Documents) \cup {Unread},
     transfers : (SUBSET Documents) \cup {Unread}, position : [Spots -> Int] \cup {Unread},
     drafts : SUBSET Documents, known : SUBSET W!Docs]

RuleSteps == {"start", "save", "orders", "transfers", "stock", "decide", "saveRules",
              "saveTransfers", "saveOrders", "done"}
Evaluating == RuleSteps \ {"start", "save", "done"}

RuleTypes ==
    /\ ruleRows \in RuleTables
    /\ doc \in [W!Docs -> Documents \cup {NoDoc}]
    /\ onHand \in [Spots -> Nat]
    /\ reserved \in [Spots -> 0..MaxReserved]
    /\ inTransit \in [Spots -> Int]
    /\ ruleCall \in [RuleRequests -> RuleCommands]
    /\ rulePc \in [RuleRequests -> RuleSteps]
    /\ ruleCopy \in [RuleRequests -> RuleCopies]

\* Documents are numbered as they are drafted.
Numbered == \E n \in 0..MaxDocs : W!Existing = 1..n

\* The pieces of a spot in the documents of a status.
Held(standing, s) ==
    [d \in W!Docs |-> IF d \in W!Existing /\ doc[d].spot = s /\ doc[d].status = standing
                      THEN doc[d].quantity ELSE 0]
Pieces(standing, s) == SumFunctionOnSet(Held(standing, s), W!Docs)

TransitIs == \A s \in Spots : inTransit[s] = Pieces("ordered", s)

Most == Max({MaxStock, W!MaxPoint + MaxReserved - 1 + W!MaxQuantity})
Bounded ==
    \A s \in Spots \ doubled : onHand[s] + inTransit[s] + Pieces("draft", s) <= Most

\* The documents of a spot that an evaluation knows of are under way no more.
Quiet(q, kind, s) ==
    \A d \in ruleCopy[q].known :
        doc[d].kind = kind /\ doc[d].spot = s => doc[d].status \notin UnderWay

SawNone(docs, s) == \A d \in docs : ~(d.spot = s /\ d.status \in UnderWay)

\* What a call has read by the step it is at.
HasRead(q) ==
    /\ rulePc[q] \in Evaluating =>
         /\ ruleCopy[q].rules \in RuleTables /\ ruleCopy[q].known \subseteq W!Existing
    /\ rulePc[q] = "save" =>
         /\ ruleCopy[q].rules \in RuleTables /\ W!Op(q) = "toggle"
         /\ ruleCopy[q].rules[ruleCall[q].spot] # NoDoc
    /\ rulePc[q] \in {"transfers", "stock", "decide"} => ruleCopy[q].orders \in SUBSET Documents
    /\ rulePc[q] \in {"stock", "decide"} => ruleCopy[q].transfers \in SUBSET Documents
    /\ rulePc[q] = "decide" => ruleCopy[q].position \in [Spots -> Int]

\* What it makes of that still holds, but for documents drafted since it began.
OrdersSeen(q) ==
    rulePc[q] \in {"transfers", "stock", "decide"} =>
        \A s \in Spots : SawNone(ruleCopy[q].orders, s) => Quiet(q, "supplier", s)
TransfersSeen(q) ==
    rulePc[q] \in {"stock", "decide"} =>
        \A s \in Spots : SawNone(ruleCopy[q].transfers, s) => Quiet(q, "transfer", s)
StockSeen(q) ==
    rulePc[q] = "decide" =>
        \A s \in Spots : ~ W!HasOpen(q, s) /\ ~ W!Unknown(q, s) =>
            onHand[s] <= ruleCopy[q].position[s] + MaxReserved

\* There is room for a document.
Short(q, s) ==
    /\ Quiet(q, "supplier", s) /\ Quiet(q, "transfer", s)
    /\ onHand[s] <= W!MaxPoint - 1 + MaxReserved

Unsaved(q) ==
    {r \in ruleCopy[q].drafts : rulePc[q] = "saveOrders" => r.kind = "supplier"}
Drafting(q) ==
    rulePc[q] \in {"saveRules", "saveTransfers", "saveOrders"} =>
        /\ IsFiniteSet(ruleCopy[q].drafts)
        /\ \A r, t \in ruleCopy[q].drafts : r.spot = t.spot => r = t
        /\ \A r \in ruleCopy[q].drafts : r.status = "draft" /\ r.quantity <= W!MaxQuantity
        /\ \A r \in Unsaved(q) : ~ W!Unknown(q, r.spot) => Short(q, r.spot)

Abreast(q) == HasRead(q) /\ OrdersSeen(q) /\ TransfersSeen(q) /\ StockSeen(q) /\ Drafting(q)

RuleInv ==
    /\ RuleTypes /\ Numbered /\ TransitIs /\ Bounded
    /\ \A q \in RuleRequests : Abreast(q)

-----------------------------------------------------------------------------
\* The sums, bounds and sizes of the module are those of the theorems.
LEMMA SumOfRules == \A f, S : W!SumFunctionOnSet(f, S) = SumFunctionOnSet(f, S)
BY DEF W!SumFunctionOnSet, SumFunctionOnSet, W!FoldFunctionOnSet, FoldFunctionOnSet,
       W!MapThenFoldSet, MapThenFoldSet

LEMMA MaxOfRules == \A S : W!Max(S) = Max(S)
BY DEF W!Max, Max

LEMMA SizeOfRules == \A S : W!Cardinality(S) = Cardinality(S)
BY DEF W!Cardinality, Cardinality

\* What the rules allow is finite, so it has a largest.
LEMMA RuleBounds ==
    ASSUME RuleAssumption
    PROVE  /\ W!MaxPoint \in Nat /\ \A r \in RuleRecords : r.point <= W!MaxPoint
           /\ \A n \in Points : n <= W!MaxPoint
           /\ W!MaxQuantity \in Nat \ {0} /\ \A r \in RuleRecords : r.quantity <= W!MaxQuantity
           /\ \A r \in RuleRecords : r.point \in Nat /\ r.quantity \in Nat \ {0}
           /\ Rules \subseteq RuleRecords
           /\ Most \in Nat /\ MaxStock <= Most
           /\ W!MaxPoint - 1 + MaxReserved + W!MaxQuantity <= Most
  <1> DEFINE own == {r.point : r \in Rules}
             sizes == {r.quantity : r \in Rules}
             f == [r \in Rules |-> r.point]
             g == [r \in Rules |-> r.quantity]
             ps == Points \cup own
             ms == {MaxStock, W!MaxPoint + MaxReserved - 1 + W!MaxQuantity}
  <1>1. own \subseteq Nat /\ sizes \subseteq Nat \ {0} /\ own # {} /\ sizes # {} /\ ps # {} /\ ps \subseteq Nat
    BY DEF RuleAssumption
  <1>2. IsFiniteSet(own)
    <2>1. {f[r] : r \in Rules} = own
      OBVIOUS
    <2>2. IsFiniteSet({f[r] : r \in Rules})
      <3> HIDE DEF f
      <3> QED
        BY ImageIsFinite DEF RuleAssumption
    <2> QED
      BY <2>1, <2>2
  <1>3. IsFiniteSet(sizes)
    <2>1. {g[r] : r \in Rules} = sizes
      OBVIOUS
    <2>2. IsFiniteSet({g[r] : r \in Rules})
      <3> HIDE DEF g
      <3> QED
        BY ImageIsFinite DEF RuleAssumption
    <2> QED
      BY <2>1, <2>2
  <1>4. IsFiniteSet(ps)
    BY <1>2, FS_Union DEF RuleAssumption
  <1> HIDE DEF own, sizes, ps
  <1>5. Max(ps) \in ps /\ \A n \in ps : n <= Max(ps)
    BY <1>1, <1>4, MaxIsLargest
  <1>6. Max(sizes) \in sizes /\ \A n \in sizes : n <= Max(sizes)
    BY <1>1, <1>3, MaxIsLargest
  <1>7. W!MaxPoint = Max(ps) /\ W!MaxQuantity = Max(sizes)
    BY MaxOfRules DEF W!MaxPoint, W!MaxQuantity, ps, own, sizes
  <1>8. /\ W!MaxPoint \in Nat /\ \A n \in ps : n <= W!MaxPoint
        /\ W!MaxQuantity \in Nat \ {0} /\ \A n \in sizes : n <= W!MaxQuantity
    BY <1>1, <1>5, <1>6, <1>7
  <1>9. \A r \in RuleRecords : r.point \in ps /\ r.quantity \in sizes
    BY DEF RuleRecords, ps, own, sizes
  <1>10. ms \in SUBSET Nat /\ IsFiniteSet(ms) /\ ms # {}
    <2>1. W!MaxPoint + MaxReserved - 1 + W!MaxQuantity \in Nat
      BY <1>8 DEF RuleAssumption
    <2>2. IsFiniteSet({MaxStock}) /\ MaxStock \in Nat
      BY FS_Singleton DEF RuleAssumption
    <2>3. ms = {MaxStock} \cup {W!MaxPoint + MaxReserved - 1 + W!MaxQuantity}
      OBVIOUS
    <2> QED
      BY <2>1, <2>2, <2>3, FS_AddElement
  <1>11. Max(ms) \in ms /\ \A n \in ms : n <= Max(ms)
    BY <1>10, MaxIsLargest
  <1>12. Most \in Nat /\ MaxStock <= Most /\ W!MaxPoint + MaxReserved - 1 + W!MaxQuantity <= Most
    BY <1>10, <1>11 DEF Most
  <1>13. Rules \subseteq RuleRecords
    BY DEF RuleAssumption, RuleRecords
  <1>14. Points \subseteq ps
    BY DEF ps
  <1>15. W!MaxPoint - 1 + MaxReserved + W!MaxQuantity = W!MaxPoint + MaxReserved - 1 + W!MaxQuantity
    BY <1>8 DEF RuleAssumption
  <1> QED
    BY <1>1, <1>8, <1>9, <1>12, <1>13, <1>14, <1>15

\* The documents of a status and a spot have whole numbers of pieces.
LEMMA HeldIs ==
    ASSUME RuleTypes, MaxDocs \in Nat, NEW standing, NEW s
    PROVE  /\ \A d \in W!Docs : Held(standing, s)[d] \in Nat
           /\ IsFiniteSet(W!Docs) /\ Summable(Held(standing, s), W!Docs)
           /\ Pieces(standing, s) \in Nat
  <1>1. \A d \in W!Existing : doc[d] \in Documents
    BY DEF RuleTypes, W!Existing
  <1>2. \A d \in W!Docs : Held(standing, s)[d] \in Nat
    BY <1>1 DEF Held, Documents
  <1>3. IsFiniteSet(W!Docs)
    BY FS_Interval DEF W!Docs
  <1>4. Pieces(standing, s) \in Nat
    BY <1>2, <1>3, SumNat DEF Pieces
  <1> QED
    BY <1>2, <1>3, <1>4 DEF Summable

\* Documents stay, none that was settled opens again, and stock comes in from
\* ordered documents only.
GoesOn ==
    /\ W!Existing \subseteq W!Existing'
    /\ \A d \in W!Existing :
        /\ doc'[d].kind = doc[d].kind /\ doc'[d].spot = doc[d].spot
        /\ doc[d].status \notin UnderWay => doc'[d].status \notin UnderWay
    /\ \A s \in Spots :
        \/ onHand'[s] <= onHand[s]
        \/ \E d \in W!Existing : doc[d].spot = s /\ doc[d].status = "ordered"

\* An evaluation to which no document of a spot is unknown knows them all.
LEMMA KnowsThemAll ==
    ASSUME RuleTypes, NEW q \in RuleRequests, NEW s \in Spots, ~ W!Unknown(q, s),
           Quiet(q, "supplier", s), Quiet(q, "transfer", s)
    PROVE  \A d \in W!Existing : doc[d].spot = s => doc[d].status \notin UnderWay
  <1> SUFFICES ASSUME NEW d \in W!Existing, doc[d].spot = s PROVE doc[d].status \notin UnderWay
    OBVIOUS
  <1>1. d \in ruleCopy[q].known
    BY DEF W!Unknown
  <1>2. doc[d].kind \in DocKinds
    BY DEF RuleTypes, W!Existing, Documents
  <1> QED
    BY <1>1, <1>2 DEF Quiet, DocKinds

LEMMA SettledStay ==
    ASSUME GoesOn, NEW q \in RuleRequests, ruleCopy'[q] = ruleCopy[q], NEW s \in Spots,
           ruleCopy[q].known \subseteq W!Existing
    PROVE  /\ W!Unknown(q, s) => W!Unknown(q, s)'
           /\ \A kind \in DocKinds : Quiet(q, kind, s) => Quiet(q, kind, s)'
  <1>1. ASSUME W!Unknown(q, s) PROVE W!Unknown(q, s)'
    <2>1. PICK d \in W!Existing : doc[d].spot = s /\ d \notin ruleCopy[q].known
      BY <1>1 DEF W!Unknown
    <2>2. d \in W!Existing' /\ doc'[d].spot = s
      BY <2>1 DEF GoesOn
    <2> QED
      BY <2>1, <2>2 DEF W!Unknown
  <1>2. ASSUME NEW kind \in DocKinds, Quiet(q, kind, s) PROVE Quiet(q, kind, s)'
    BY <1>2 DEF Quiet, GoesOn
  <1> QED
    BY <1>1, <1>2

\* Room that an evaluation has found is left, unless there is a document that it does not know.
LEMMA ShortStays ==
    ASSUME RuleAssumption, RuleTypes, RuleTypes', NEW q \in RuleRequests, NEW s \in Spots,
           ruleCopy'[q] = ruleCopy[q], GoesOn, ruleCopy[q].known \subseteq W!Existing,
           ~ W!Unknown(q, s)', ~ W!Unknown(q, s) => Short(q, s)
    PROVE  Short(q, s)'
  <1>1. ~ W!Unknown(q, s)
    BY SettledStay
  <1>2. Quiet(q, "supplier", s)' /\ Quiet(q, "transfer", s)'
    BY <1>1, SettledStay DEF Short, DocKinds
  <1>3. onHand'[s] <= onHand[s] /\ onHand[s] <= W!MaxPoint - 1 + MaxReserved
    BY <1>1, KnowsThemAll DEF Short, GoesOn, UnderWay
  <1>4. /\ onHand[s] \in Int /\ onHand'[s] \in Int /\ W!MaxPoint - 1 + MaxReserved \in Int
    BY RuleBounds DEF RuleTypes, RuleAssumption
  <1>5. onHand'[s] <= W!MaxPoint - 1 + MaxReserved
    BY <1>3, <1>4
  <1> QED
    BY <1>2, <1>5 DEF Short, W!MaxPoint

\* What an evaluation has made of what it read holds on while others go on.
LEMMA InformedStays ==
    ASSUME RuleAssumption, RuleTypes, RuleTypes', NEW q \in RuleRequests, Abreast(q),
           ruleCall' = ruleCall, rulePc'[q] = rulePc[q], ruleCopy'[q] = ruleCopy[q], GoesOn
    PROVE  Abreast(q)'
  <1>1. HasRead(q)'
    BY DEF Abreast, HasRead, GoesOn, W!Op
  <1>2. rulePc[q] \in Evaluating => ruleCopy[q].known \subseteq W!Existing
    BY DEF Abreast, HasRead
  <1>3. OrdersSeen(q)' /\ TransfersSeen(q)'
    BY <1>2, SettledStay DEF Abreast, OrdersSeen, TransfersSeen, SawNone, Evaluating, RuleSteps, DocKinds
  <1>4. ASSUME NEW s \in Spots, ~ W!Unknown(q, s), Quiet(q, "supplier", s), Quiet(q, "transfer", s)
        PROVE  onHand'[s] <= onHand[s]
    BY <1>4, KnowsThemAll DEF GoesOn, UnderWay
  <1>5. StockSeen(q)'
    <2> SUFFICES ASSUME rulePc[q] = "decide", NEW s \in Spots, ~ W!HasOpen(q, s), ~ W!Unknown(q, s)'
                 PROVE  onHand'[s] <= ruleCopy[q].position[s] + MaxReserved
      BY DEF StockSeen, W!HasOpen
    <2>1. ~ W!Unknown(q, s)
      BY <1>2, SettledStay DEF Evaluating, RuleSteps
    <2>2. SawNone(ruleCopy[q].orders, s) /\ SawNone(ruleCopy[q].transfers, s)
      BY DEF W!HasOpen, SawNone, UnderWay
    <2>3. Quiet(q, "supplier", s) /\ Quiet(q, "transfer", s)
      BY <2>2 DEF Abreast, OrdersSeen, TransfersSeen
    <2>4. onHand'[s] <= onHand[s] /\ onHand[s] <= ruleCopy[q].position[s] + MaxReserved
      BY <1>4, <2>1, <2>3 DEF Abreast, StockSeen
    <2>5. /\ onHand[s] \in Int /\ onHand'[s] \in Int
          /\ ruleCopy[q].position[s] + MaxReserved \in Int
      <3>1. ruleCopy[q].position \in [Spots -> Int]
        BY DEF Abreast, HasRead
      <3> QED
        BY <3>1 DEF RuleTypes, RuleAssumption
    <2> QED
      BY <2>4, <2>5
  <1>6. Drafting(q)'
    <2> SUFFICES ASSUME rulePc[q] \in {"saveRules", "saveTransfers", "saveOrders"},
                        NEW r \in Unsaved(q), ~ W!Unknown(q, r.spot)'
                 PROVE  Short(q, r.spot)'
      BY DEF Abreast, Drafting, Unsaved, W!MaxQuantity
    <2>1. r.spot \in Spots
      BY DEF Unsaved, RuleTypes, RuleCopies, Documents
    <2>2. ruleCopy[q].known \subseteq W!Existing
      BY <1>2 DEF Evaluating, RuleSteps
    <2>3. ~ W!Unknown(q, r.spot) => Short(q, r.spot)
      BY DEF Abreast, Drafting
    <2> QED
      BY <2>1, <2>2, <2>3, ShortStays
  <1> QED
    BY <1>1, <1>3, <1>5, <1>6 DEF Abreast

\* The documents stay as they are, and so does what they hold.
LEMMA SameDocuments ==
    ASSUME doc' = doc
    PROVE  /\ W!Existing' = W!Existing
           /\ \A standing, s : Pieces(standing, s)' = Pieces(standing, s)
  <1>1. W!Existing' = W!Existing
    BY DEF W!Existing, W!Docs
  <1> QED
    BY <1>1 DEF Pieces, Held, W!Docs

\* A step that touches no document, and of the stock at most takes some away.
LEMMA WithoutDocuments ==
    ASSUME RuleAssumption, RuleInv, RuleTypes', ruleCall' = ruleCall,
           UNCHANGED <<doc, inTransit, doubled>>, \A s \in Spots : onHand'[s] <= onHand[s],
           \A q \in RuleRequests :
               \/ rulePc'[q] = rulePc[q] /\ ruleCopy'[q] = ruleCopy[q]
               \/ Abreast(q)'
    PROVE  RuleInv'
  <1>1. /\ W!Existing' = W!Existing
        /\ \A standing, s : Pieces(standing, s)' = Pieces(standing, s)
    BY SameDocuments
  <1>2. GoesOn
    BY <1>1 DEF GoesOn
  <1>3. \A q \in RuleRequests : Abreast(q)'
    BY <1>2, InformedStays DEF RuleInv
  <1>4. Numbered' /\ TransitIs'
    BY <1>1 DEF RuleInv, Numbered, TransitIs
  <1>5. Bounded'
    <2> SUFFICES ASSUME NEW s \in Spots \ doubled
                 PROVE  onHand'[s] + inTransit[s] + Pieces("draft", s)' <= Most
      BY DEF Bounded, Most, W!MaxPoint, W!MaxQuantity
    <2>1. onHand[s] + inTransit[s] + Pieces("draft", s) <= Most /\ onHand'[s] <= onHand[s]
      BY DEF RuleInv, Bounded
    <2>2. /\ onHand[s] \in Int /\ onHand'[s] \in Int /\ inTransit[s] \in Int
          /\ Pieces("draft", s) \in Int /\ Most \in Int
      BY HeldIs, RuleBounds DEF RuleInv, RuleTypes, RuleAssumption
    <2>3. Pieces("draft", s)' = Pieces("draft", s)
      BY <1>1
    <2> QED
      BY <2>1, <2>2, <2>3
  <1> QED
    BY <1>3, <1>4, <1>5 DEF RuleInv

LEMMA RuleGoto ==
    ASSUME RuleTypes, NEW q \in RuleRequests, NEW at \in RuleSteps, W!Goto(q, at)
    PROVE  /\ rulePc' \in [RuleRequests -> RuleSteps] /\ rulePc'[q] = at
           /\ \A p \in RuleRequests : p # q => rulePc'[p] = rulePc[p]
BY DEF RuleTypes, W!Goto

\* A sale, a reservation or the end of one.
LEMMA RuleStockMoves ==
    ASSUME RuleAssumption, RuleInv, ruleCall' = ruleCall, NEW s \in Spots,
           W!Sell(s) \/ W!Reserve(s) \/ W!Release(s)
    PROVE  RuleInv'
  <1>1. /\ UNCHANGED <<doc, inTransit, doubled, ruleRows, rulePc, ruleCopy>>
        /\ \/ onHand' = onHand
           \/ onHand' = [onHand EXCEPT ![s] = @ - 1] /\ onHand[s] > 0
        /\ reserved' \in [Spots -> 0..MaxReserved]
    <2>1. CASE W!Sell(s)
      BY <2>1 DEF W!Sell, RuleInv, RuleTypes
    <2>2. CASE W!Reserve(s)
      BY <2>2 DEF W!Reserve, RuleInv, RuleTypes, RuleAssumption
    <2>3. CASE W!Release(s)
      BY <2>3 DEF W!Release, RuleInv, RuleTypes, RuleAssumption
    <2> QED
      BY <2>1, <2>2, <2>3
  <1>2. onHand' \in [Spots -> Nat] /\ \A t \in Spots : onHand'[t] <= onHand[t]
    BY <1>1 DEF RuleInv, RuleTypes
  <1>3. RuleTypes'
    BY <1>1, <1>2 DEF RuleInv, RuleTypes, RuleCopies, W!Docs
  <1> QED
    BY <1>1, <1>2, <1>3, WithoutDocuments

\* A step of a call that leaves documents and stock alone.
LEMMA RuleCallMoves ==
    ASSUME RuleAssumption, RuleInv, ruleCall' = ruleCall, UNCHANGED <<doc, W!stock, doubled>>,
           NEW q \in RuleRequests, NEW at \in RuleSteps, W!Goto(q, at),
           ruleRows' \in RuleTables,
           \A p \in RuleRequests : p # q => ruleCopy'[p] = ruleCopy[p],
           ruleCopy' \in [RuleRequests -> RuleCopies],
           Abreast(q)'
    PROVE  RuleInv'
  <1>1. RuleTypes'
    BY RuleGoto DEF RuleInv, RuleTypes, W!stock, W!Docs
  <1>2. \A p \in RuleRequests : p # q => rulePc'[p] = rulePc[p]
    BY RuleGoto DEF RuleInv
  <1>3. \A s \in Spots : onHand'[s] <= onHand[s]
    BY DEF RuleInv, RuleTypes, W!stock
  <1> QED
    BY <1>1, <1>2, <1>3, WithoutDocuments DEF W!stock

\* The calls that change rules read and write no documents.
LEMMA RuleCreated ==
    ASSUME RuleAssumption, RuleInv, ruleCall' = ruleCall, NEW q \in RuleRequests, W!CreateRule(q)
    PROVE  RuleInv'
  <1>1. /\ W!Goto(q, "done") /\ UNCHANGED <<doc, W!stock, ruleCopy, doubled>> /\ W!Op(q) = "create"
    BY DEF W!CreateRule
  <1>2. ruleCall[q] \in RuleCommands /\ ruleCall[q].op = "create"
    BY <1>1 DEF RuleInv, RuleTypes, W!Op
  <1>3. W!Valid(ruleCall[q].rule) => ruleCall[q].rule \in RuleRecords
    BY <1>2, RuleBounds DEF RuleAssumption
  <1>4. ruleRows' \in RuleTables
    BY <1>2, <1>3 DEF W!CreateRule, RuleInv, RuleTypes, RuleTables
  <1>5. rulePc'[q] = "done"
    BY <1>1, RuleGoto DEF RuleInv, RuleSteps
  <1>6. Abreast(q)'
    BY <1>5 DEF Abreast, HasRead, OrdersSeen, TransfersSeen, StockSeen, Drafting, Evaluating
  <1> QED
    BY <1>1, <1>4, <1>6, RuleCallMoves DEF RuleInv, RuleTypes, RuleSteps

LEMMA RuleFound ==
    ASSUME RuleAssumption, RuleInv, ruleCall' = ruleCall, NEW q \in RuleRequests, W!FindRule(q)
    PROVE  RuleInv'
  <1> DEFINE at == IF ruleRows[ruleCall[q].spot] = NoDoc THEN "done" ELSE "save"
  <1>1. /\ W!Goto(q, at) /\ UNCHANGED <<doc, W!stock, ruleRows, doubled>> /\ W!Op(q) = "toggle"
        /\ ruleCopy' = [ruleCopy EXCEPT ![q].rules = ruleRows]
    BY DEF W!FindRule
  <1>2. /\ ruleCopy'[q].rules = ruleRows /\ ruleRows \in RuleTables
        /\ \A p \in RuleRequests : p # q => ruleCopy'[p] = ruleCopy[p]
        /\ ruleCopy' \in [RuleRequests -> RuleCopies]
    BY <1>1 DEF RuleInv, RuleTypes, RuleCopies
  <1>3. rulePc'[q] = at
    BY <1>1, RuleGoto DEF RuleInv, RuleSteps
  <1>4. Abreast(q)'
    BY <1>1, <1>2, <1>3 DEF Abreast, HasRead, OrdersSeen, TransfersSeen, StockSeen, Drafting,
                            Evaluating, W!Op
  <1> QED
    BY <1>1, <1>2, <1>4, RuleCallMoves DEF RuleSteps

LEMMA RuleToggled ==
    ASSUME RuleAssumption, RuleInv, ruleCall' = ruleCall, NEW q \in RuleRequests, W!ToggleRule(q)
    PROVE  RuleInv'
  <1> DEFINE s == ruleCall[q].spot
             r == ruleCopy[q].rules[s]
  <1>1. /\ rulePc[q] = "save" /\ W!Goto(q, "done")
        /\ UNCHANGED <<doc, W!stock, ruleCopy, doubled>>
        /\ ruleRows' = [ruleRows EXCEPT ![s] = [r EXCEPT !.active = ruleCall[q].on]]
    BY DEF W!ToggleRule
  <1>2. ruleCopy[q].rules \in RuleTables /\ W!Op(q) = "toggle" /\ r # NoDoc
    BY <1>1 DEF RuleInv, Abreast, HasRead
  <1>3. s \in Spots /\ ruleCall[q].on \in BOOLEAN
    BY <1>2 DEF RuleInv, RuleTypes, W!Op, RuleAssumption
  <1>4. r \in RuleRecords
    BY <1>2, <1>3 DEF RuleTables
  <1>5. [r EXCEPT !.active = ruleCall[q].on] \in RuleRecords
    <2> HIDE DEF r
    <2> QED
      BY <1>3, <1>4 DEF RuleRecords
  <1>6. ruleRows' \in RuleTables
    <2> HIDE DEF s, r
    <2> QED
      BY <1>1, <1>3, <1>5 DEF RuleInv, RuleTypes, RuleTables
  <1>7. rulePc'[q] = "done"
    BY <1>1, RuleGoto DEF RuleInv, RuleSteps
  <1>8. Abreast(q)'
    BY <1>7 DEF Abreast, HasRead, OrdersSeen, TransfersSeen, StockSeen, Drafting, Evaluating
  <1> QED
    BY <1>1, <1>6, <1>8, RuleCallMoves DEF RuleInv, RuleTypes, RuleSteps

\* An evaluation begins with the rules and the documents there are.
LEMMA EvaluationStarts ==
    ASSUME RuleAssumption, RuleInv, ruleCall' = ruleCall, NEW q \in RuleRequests, W!FindRules(q)
    PROVE  RuleInv'
  <1>1. PICK at \in {"orders", "done"} : W!Goto(q, at)
    BY DEF W!FindRules
  <1>2. /\ UNCHANGED <<doc, W!stock, ruleRows, doubled>>
        /\ ruleCopy' = [ruleCopy EXCEPT ![q].rules = ruleRows, ![q].known = W!Existing]
    BY DEF W!FindRules
  <1>3. W!Existing \subseteq W!Docs /\ W!Existing' = W!Existing
    BY <1>2, SameDocuments DEF W!Existing
  <1>4. /\ ruleCopy'[q].rules = ruleRows /\ ruleRows \in RuleTables /\ ruleCopy'[q].known = W!Existing
        /\ \A p \in RuleRequests : p # q => ruleCopy'[p] = ruleCopy[p]
        /\ ruleCopy' \in [RuleRequests -> RuleCopies]
    <2>1. ruleCopy \in [RuleRequests -> RuleCopies] /\ ruleRows \in RuleTables
      BY DEF RuleInv, RuleTypes
    <2>2. PICK c : c = [ruleCopy[q] EXCEPT !.rules = ruleRows, !.known = W!Existing]
      OBVIOUS
    <2>3. c \in RuleCopies /\ c.rules = ruleRows /\ c.known = W!Existing
      BY <1>3, <2>1, <2>2 DEF RuleCopies
    <2>4. ruleCopy' = [ruleCopy EXCEPT ![q] = c]
      BY <1>2, <2>1, <2>2 DEF RuleCopies
    <2> QED
      BY <2>1, <2>3, <2>4
  <1>5. rulePc'[q] = at
    BY <1>1, RuleGoto DEF RuleInv, RuleSteps
  <1>6. Abreast(q)'
    BY <1>2, <1>3, <1>4, <1>5 DEF Abreast, HasRead, OrdersSeen, TransfersSeen, StockSeen, Drafting
  <1> QED
    BY <1>1, <1>2, <1>4, <1>6, RuleCallMoves DEF RuleSteps

\* The documents of a kind, of which none that is known is under way unless it shows.
LEMMA RecordShows ==
    ASSUME RuleTypes, NEW q \in RuleRequests, ruleCopy[q].known \subseteq W!Existing,
           NEW kind \in DocKinds, NEW s \in Spots, SawNone(W!OnRecord(kind), s)
    PROVE  Quiet(q, kind, s)
  <1> SUFFICES ASSUME NEW d \in ruleCopy[q].known, doc[d].kind = kind, doc[d].spot = s
               PROVE  doc[d].status \notin UnderWay
    BY DEF Quiet
  <1>1. doc[d] \in W!OnRecord(kind)
    BY DEF W!OnRecord
  <1> QED
    BY <1>1 DEF SawNone

LEMMA EvaluationReads ==
    ASSUME RuleAssumption, RuleInv, ruleCall' = ruleCall, NEW q \in RuleRequests, W!ReadAll(q)
    PROVE  RuleInv'
  <1>0. UNCHANGED <<ruleRows, doc, W!stock, doubled>>
    BY DEF W!ReadAll
  <1>1. /\ W!Existing' = W!Existing /\ \A kind : W!OnRecord(kind) \in SUBSET Documents
        /\ ruleRows' \in RuleTables /\ ruleCopy \in [RuleRequests -> RuleCopies]
    BY <1>0, SameDocuments DEF RuleInv, RuleTypes, W!OnRecord, W!Existing
  <1>2. CASE rulePc[q] = "orders"
    <2>1. W!Goto(q, "transfers") /\ ruleCopy' = [ruleCopy EXCEPT ![q].orders = W!OnRecord("supplier")]
      BY <1>2 DEF W!ReadAll
    <2>0. rulePc'[q] = "transfers"
      BY <2>1, RuleGoto DEF RuleInv, RuleSteps
    <2>2. /\ ruleCopy'[q].orders = W!OnRecord("supplier")
          /\ ruleCopy'[q].rules = ruleCopy[q].rules /\ ruleCopy'[q].known = ruleCopy[q].known
          /\ \A p \in RuleRequests : p # q => ruleCopy'[p] = ruleCopy[p]
          /\ ruleCopy' \in [RuleRequests -> RuleCopies]
      BY <1>1, <2>1 DEF RuleCopies
    <2>3. HasRead(q)'
      BY <1>1, <1>2, <2>0, <2>2 DEF RuleInv, Abreast, HasRead, Evaluating, RuleSteps
    <2>4. OrdersSeen(q)'
      <3> SUFFICES ASSUME NEW s \in Spots, SawNone(W!OnRecord("supplier"), s)
                   PROVE  Quiet(q, "supplier", s)'
        BY <2>0, <2>2 DEF OrdersSeen, SawNone
      <3>1. Quiet(q, "supplier", s)
        BY <1>2, RecordShows DEF RuleInv, Abreast, HasRead, Evaluating, RuleSteps, DocKinds
      <3> QED
        BY <1>0, <2>2, <3>1 DEF Quiet
    <2>5. Abreast(q)'
      BY <2>0, <2>2, <2>3, <2>4 DEF Abreast, TransfersSeen, StockSeen, Drafting
    <2> QED
      BY <1>0, <1>1, <2>1, <2>2, <2>5, RuleCallMoves DEF RuleSteps
  <1>3. CASE rulePc[q] = "transfers"
    <2>1. W!Goto(q, "stock") /\ ruleCopy' = [ruleCopy EXCEPT ![q].transfers = W!OnRecord("transfer")]
      BY <1>3 DEF W!ReadAll
    <2>0. rulePc'[q] = "stock"
      BY <2>1, RuleGoto DEF RuleInv, RuleSteps
    <2>2. /\ ruleCopy'[q].transfers = W!OnRecord("transfer")
          /\ ruleCopy'[q].rules = ruleCopy[q].rules /\ ruleCopy'[q].known = ruleCopy[q].known
          /\ ruleCopy'[q].orders = ruleCopy[q].orders
          /\ \A p \in RuleRequests : p # q => ruleCopy'[p] = ruleCopy[p]
          /\ ruleCopy' \in [RuleRequests -> RuleCopies]
      BY <1>1, <2>1 DEF RuleCopies
    <2>3. HasRead(q)'
      BY <1>1, <1>3, <2>0, <2>2 DEF RuleInv, Abreast, HasRead, Evaluating, RuleSteps
    <2>4. OrdersSeen(q)'
      BY <1>0, <1>3, <2>0, <2>2 DEF RuleInv, Abreast, OrdersSeen, SawNone, Quiet
    <2>5. TransfersSeen(q)'
      <3> SUFFICES ASSUME NEW s \in Spots, SawNone(W!OnRecord("transfer"), s)
                   PROVE  Quiet(q, "transfer", s)'
        BY <2>0, <2>2 DEF TransfersSeen, SawNone
      <3>1. Quiet(q, "transfer", s)
        BY <1>3, RecordShows DEF RuleInv, Abreast, HasRead, Evaluating, RuleSteps, DocKinds
      <3> QED
        BY <1>0, <2>2, <3>1 DEF Quiet
    <2>6. Abreast(q)'
      BY <2>0, <2>2, <2>3, <2>4, <2>5 DEF Abreast, StockSeen, Drafting
    <2> QED
      BY <1>0, <1>1, <2>1, <2>2, <2>6, RuleCallMoves DEF RuleSteps
  <1>4. CASE rulePc[q] = "stock"
    <2>1. W!Goto(q, "decide") /\ ruleCopy' = [ruleCopy EXCEPT ![q].position = [s \in Spots |-> W!Position(s)]]
      BY <1>4 DEF W!ReadAll
    <2>2. [s \in Spots |-> W!Position(s)] \in [Spots -> Int]
      BY DEF RuleInv, RuleTypes, RuleAssumption, W!Position
    <2>0. rulePc'[q] = "decide"
      BY <2>1, RuleGoto DEF RuleInv, RuleSteps
    <2>3. /\ ruleCopy'[q].position = [s \in Spots |-> W!Position(s)]
          /\ ruleCopy'[q].rules = ruleCopy[q].rules /\ ruleCopy'[q].known = ruleCopy[q].known
          /\ ruleCopy'[q].orders = ruleCopy[q].orders /\ ruleCopy'[q].transfers = ruleCopy[q].transfers
          /\ \A p \in RuleRequests : p # q => ruleCopy'[p] = ruleCopy[p]
          /\ ruleCopy' \in [RuleRequests -> RuleCopies]
      BY <1>1, <2>1, <2>2 DEF RuleCopies
    <2>4. HasRead(q)'
      BY <1>1, <1>4, <2>0, <2>2, <2>3 DEF RuleInv, Abreast, HasRead, Evaluating, RuleSteps
    <2>5. OrdersSeen(q)' /\ TransfersSeen(q)'
      BY <1>0, <1>4, <2>0, <2>3 DEF RuleInv, Abreast, OrdersSeen, TransfersSeen, SawNone, Quiet
    <2>6. StockSeen(q)'
      <3> SUFFICES ASSUME NEW s \in Spots, ~ W!HasOpen(q, s)', ~ W!Unknown(q, s)'
                   PROVE  onHand'[s] <= ruleCopy'[q].position[s] + MaxReserved
        BY DEF StockSeen
      <3>1. SawNone(ruleCopy[q].orders, s) /\ SawNone(ruleCopy[q].transfers, s)
        BY <2>3 DEF W!HasOpen, SawNone, UnderWay
      <3>2. Quiet(q, "supplier", s) /\ Quiet(q, "transfer", s)
        BY <1>4, <3>1 DEF RuleInv, Abreast, OrdersSeen, TransfersSeen
      <3>3. ~ W!Unknown(q, s)
        BY <1>0, <1>1, <2>3 DEF W!Unknown
      <3>4. \A d \in W!Existing : doc[d].spot = s => doc[d].status \notin UnderWay
        BY <3>2, <3>3, KnowsThemAll DEF RuleInv
      <3>5. \A d \in W!Docs : Held("ordered", s)[d] = 0
        BY <3>4 DEF Held, UnderWay
      <3>6. inTransit[s] = 0
        <4>1. IsFiniteSet(W!Docs)
          BY HeldIs DEF RuleInv, RuleAssumption
        <4> QED
          BY <3>5, <4>1, SumZero DEF Pieces, RuleInv, TransitIs
      <3>7. onHand' = onHand /\ ruleCopy'[q].position[s] = onHand[s] - reserved[s] + inTransit[s]
        BY <1>0, <2>3 DEF W!Position, W!stock
      <3>8. onHand[s] \in Nat /\ reserved[s] \in 0..MaxReserved /\ MaxReserved \in Nat
        BY DEF RuleInv, RuleTypes, RuleAssumption
      <3> QED
        BY <3>6, <3>7, <3>8
    <2>7. Abreast(q)'
      BY <2>0, <2>3, <2>4, <2>5, <2>6 DEF Abreast, Drafting
    <2> QED
      BY <1>0, <1>1, <2>1, <2>3, <2>7, RuleCallMoves DEF RuleSteps
  <1> QED
    BY <1>2, <1>3, <1>4 DEF W!ReadAll

\* A rule fires where there is room for what it orders.
LEMMA FiresWhenShort ==
    ASSUME RuleAssumption, RuleInv, NEW q \in RuleRequests, rulePc[q] = "decide",
           NEW s \in Spots, NEW point \in Nat, point <= W!MaxPoint, W!Triggered(q, s, point),
           ~ W!Unknown(q, s)
    PROVE  Short(q, s)
  <1>1. SawNone(ruleCopy[q].orders, s) /\ SawNone(ruleCopy[q].transfers, s)
    BY DEF W!Triggered, W!HasOpen, SawNone, UnderWay
  <1>2. Quiet(q, "supplier", s) /\ Quiet(q, "transfer", s)
    BY <1>1 DEF RuleInv, Abreast, OrdersSeen, TransfersSeen
  <1>3. onHand[s] <= ruleCopy[q].position[s] + MaxReserved
    BY DEF RuleInv, Abreast, StockSeen, W!Triggered
  <1>4. ruleCopy[q].position[s] < point /\ ruleCopy[q].position[s] \in Int
    BY DEF W!Triggered, RuleInv, Abreast, HasRead
  <1>5. onHand[s] \in Nat /\ MaxReserved \in Nat /\ W!MaxPoint \in Nat
    BY RuleBounds DEF RuleInv, RuleTypes, RuleAssumption
  <1>6. onHand[s] <= W!MaxPoint - 1 + MaxReserved
    BY <1>3, <1>4, <1>5
  <1> QED
    BY <1>2, <1>6 DEF Short

LEMMA EvaluationDecides ==
    ASSUME RuleAssumption, RuleInv, ruleCall' = ruleCall, NEW q \in RuleRequests, W!Decide(q)
    PROVE  RuleInv'
  <1>1. /\ rulePc[q] = "decide" /\ UNCHANGED <<ruleRows, doc, W!stock, doubled>>
        /\ ruleCopy \in [RuleRequests -> RuleCopies] /\ ruleRows \in RuleTables
    BY DEF W!Decide, RuleInv, RuleTypes
  <1>2. ruleCopy[q].rules \in RuleTables /\ ruleCopy[q].known \subseteq W!Existing
    BY <1>1 DEF RuleInv, Abreast, HasRead, Evaluating, RuleSteps
  <1> DEFINE old == ruleCopy[q].rules
             dynamic == {s \in W!Active(q) : old[s].dynamic}
  <1>3. PICK forecast \in [Spots -> Points] :
          LET point(s) == IF s \in dynamic THEN forecast[s] ELSE old[s].point
              fired == {s \in W!Active(q) : W!Triggered(q, s, point(s))}
          IN  /\ ruleCopy' = [ruleCopy EXCEPT
                   ![q].rules = [s \in Spots |->
                       IF s \in dynamic THEN [@[s] EXCEPT !.point = forecast[s]] ELSE @[s]],
                   ![q].drafts = {W!Draft(q, s) : s \in fired},
                   ![q].orders = Unread, ![q].transfers = Unread, ![q].position = Unread]
              /\ W!Goto(q, IF dynamic # {} THEN "saveRules" ELSE "saveTransfers")
    BY DEF W!Decide
  <1> DEFINE point(s) == IF s \in dynamic THEN forecast[s] ELSE old[s].point
             fired == {s \in W!Active(q) : W!Triggered(q, s, point(s))}
             new == [s \in Spots |->
                        IF s \in dynamic THEN [old[s] EXCEPT !.point = forecast[s]] ELSE old[s]]
             drafts == {W!Draft(q, s) : s \in fired}
  <1>4. \A s \in W!Active(q) : s \in Spots /\ old[s] \in RuleRecords
    BY <1>2 DEF W!Active, RuleTables
  <1>5. \A s \in fired : /\ s \in Spots /\ point(s) \in Nat /\ point(s) <= W!MaxPoint
                         /\ W!Triggered(q, s, point(s))
    BY <1>3, <1>4, RuleBounds DEF RuleAssumption
  <1>6. new \in RuleTables
    <2>1. \A s \in dynamic : [old[s] EXCEPT !.point = forecast[s]] \in RuleRecords
      BY <1>3, <1>4 DEF RuleRecords
    <2> QED
      BY <1>2, <2>1 DEF RuleTables
  <1>7. \A s \in fired :
          /\ W!Draft(q, s) \in Documents /\ W!Draft(q, s).spot = s /\ W!Draft(q, s).status = "draft"
          /\ W!Draft(q, s).quantity <= W!MaxQuantity
    <2> SUFFICES ASSUME NEW s \in fired
                 PROVE  /\ W!Draft(q, s) \in Documents /\ W!Draft(q, s).spot = s
                        /\ W!Draft(q, s).status = "draft"
                        /\ W!Draft(q, s).quantity <= W!MaxQuantity
      OBVIOUS
    <2>1. old[s] \in RuleRecords /\ s \in Spots
      BY <1>4
    <2>2. old[s].kind \in DocKinds /\ old[s].quantity \in Nat /\ old[s].quantity <= W!MaxQuantity
      BY <2>1, RuleBounds DEF RuleRecords
    <2>3. W!Draft(q, s) = [spot |-> s, kind |-> old[s].kind, status |-> "draft",
                           quantity |-> old[s].quantity]
      BY DEF W!Draft
    <2> HIDE DEF old
    <2> QED
      BY <2>1, <2>2, <2>3 DEF Documents, UnderWay
  <1>8. IsFiniteSet(drafts)
    <2> DEFINE f == [s \in fired |-> W!Draft(q, s)]
    <2>1. IsFiniteSet(fired)
      BY <1>5, FS_Subset DEF RuleAssumption
    <2>2. IsFiniteSet({f[s] : s \in fired})
      <3> HIDE DEF f, fired
      <3> QED
        BY <2>1, ImageIsFinite
    <2>3. {f[s] : s \in fired} = drafts
      OBVIOUS
    <2> QED
      BY <2>2, <2>3
  <1>9. ASSUME NEW s \in fired, ~ W!Unknown(q, s) PROVE Short(q, s)
    <2>1. /\ s \in Spots /\ point(s) \in Nat /\ point(s) <= W!MaxPoint
          /\ W!Triggered(q, s, point(s))
      BY <1>5
    <2> HIDE DEF point, fired
    <2> QED
      BY <1>1, <1>9, <2>1, FiresWhenShort
  <1>10. drafts \in SUBSET Documents
    BY <1>7
  <1>11. PICK c : c = [ruleCopy[q] EXCEPT !.rules = new, !.drafts = drafts, !.orders = Unread,
                                          !.transfers = Unread, !.position = Unread]
    OBVIOUS
  <1>12. ruleCopy' = [ruleCopy EXCEPT ![q] = c]
    BY <1>1, <1>3, <1>11 DEF RuleCopies
  <1>13. PICK at \in {"saveRules", "saveTransfers"} : W!Goto(q, at)
    BY <1>3
  <1>14. \A s \in fired : W!Draft(q, s) \in drafts
    OBVIOUS
  <1>15. \A r \in drafts : \E s \in fired : r = W!Draft(q, s)
    OBVIOUS
  <1> HIDE DEF new, drafts, fired
  <1>16. c \in RuleCopies /\ c.rules = new /\ c.drafts = drafts /\ c.known = ruleCopy[q].known
    <2>1. ruleCopy[q] \in RuleCopies /\ ruleCopy[q].known \in SUBSET W!Docs
      BY <1>1 DEF RuleCopies
    <2>2. c = [rules |-> new, orders |-> Unread, transfers |-> Unread, position |-> Unread,
               drafts |-> drafts, known |-> ruleCopy[q].known]
      BY <1>11, <2>1 DEF RuleCopies
    <2>3. c.rules = new /\ c.drafts = drafts /\ c.known = ruleCopy[q].known
      BY <2>2
    <2>4. /\ new \in RuleTables \cup {Unread} /\ drafts \in SUBSET Documents
          /\ Unread \in (SUBSET Documents) \cup {Unread} /\ Unread \in [Spots -> Int] \cup {Unread}
      BY <1>6, <1>10
    <2>5. c \in RuleCopies
      BY <2>1, <2>2, <2>4, Zenon DEF RuleCopies
    <2> QED
      BY <2>3, <2>5
  <1>17. /\ ruleCopy'[q] = c /\ ruleCopy' \in [RuleRequests -> RuleCopies]
         /\ \A p \in RuleRequests : p # q => ruleCopy'[p] = ruleCopy[p]
    BY <1>1, <1>12, <1>16
  <1>18. rulePc'[q] = at
    BY <1>13, RuleGoto DEF RuleInv, RuleSteps
  <1>19. W!Existing' = W!Existing
    BY <1>1, SameDocuments
  <1>20. HasRead(q)'
    BY <1>2, <1>6, <1>16, <1>17, <1>18, <1>19 DEF HasRead
  <1>21. Drafting(q)'
    <2>1. \A r, t \in drafts : r.spot = t.spot => r = t
      BY <1>7, <1>15
    <2>2. \A r \in drafts : r.status = "draft" /\ r.quantity <= W!MaxQuantity
      BY <1>7, <1>15
    <2>3. ASSUME NEW r \in drafts, ~ W!Unknown(q, r.spot)' PROVE Short(q, r.spot)'
      <3>1. r.spot \in fired
        BY <1>7, <1>15
      <3>2. ~ W!Unknown(q, r.spot)
        BY <1>1, <1>16, <1>17, <1>19, <2>3 DEF W!Unknown
      <3>3. Short(q, r.spot)
        BY <1>9, <3>1, <3>2
      <3> QED
        BY <1>1, <1>16, <1>17, <3>3 DEF Short, Quiet, W!stock, W!MaxPoint
    <2> QED
      BY <1>8, <1>16, <1>17, <2>1, <2>2, <2>3 DEF Drafting, Unsaved, W!MaxQuantity
  <1>22. Abreast(q)'
    BY <1>18, <1>20, <1>21 DEF Abreast, OrdersSeen, TransfersSeen, StockSeen
  <1> QED
    BY <1>1, <1>13, <1>17, <1>22, RuleCallMoves DEF RuleSteps

\* The rules are written back as the evaluation has them.
LEMMA EvaluationSavesRules ==
    ASSUME RuleAssumption, RuleInv, ruleCall' = ruleCall, NEW q \in RuleRequests, W!SaveRules(q)
    PROVE  RuleInv'
  <1>1. /\ rulePc[q] = "saveRules" /\ W!Goto(q, "saveTransfers")
        /\ UNCHANGED <<doc, W!stock, ruleCopy, doubled>>
        /\ ruleRows' = [s \in Spots |->
             IF s \in W!Active(q) /\ ruleCopy[q].rules[s].dynamic THEN ruleCopy[q].rules[s]
             ELSE ruleRows[s]]
    BY DEF W!SaveRules
  <1>2. ruleCopy[q].rules \in RuleTables /\ ruleCopy[q].known \subseteq W!Existing
    BY <1>1 DEF RuleInv, Abreast, HasRead, Evaluating, RuleSteps
  <1>3. ruleRows' \in RuleTables
    BY <1>1, <1>2 DEF RuleInv, RuleTypes, RuleTables
  <1>4. rulePc'[q] = "saveTransfers"
    BY <1>1, RuleGoto DEF RuleInv, RuleSteps
  <1>5. W!Existing' = W!Existing
    BY <1>1, SameDocuments
  <1>6. HasRead(q)'
    BY <1>1, <1>2, <1>4, <1>5 DEF HasRead
  <1>7. Drafting(q)'
    <2>1. /\ Drafting(q) /\ Unsaved(q)' = Unsaved(q)
          /\ \A s : W!Unknown(q, s)' = W!Unknown(q, s) /\ Short(q, s)' = Short(q, s)
      BY <1>1, <1>4, <1>5 DEF RuleInv, Abreast, Unsaved, W!Unknown, Short, Quiet, W!stock, W!MaxPoint
    <2> QED
      BY <1>1, <1>4, <2>1 DEF Drafting, W!MaxQuantity
  <1>8. Abreast(q)'
    BY <1>4, <1>6, <1>7 DEF Abreast, OrdersSeen, TransfersSeen, StockSeen
  <1> QED
    BY <1>1, <1>3, <1>8, RuleCallMoves DEF RuleInv, RuleTypes, RuleSteps

-----------------------------------------------------------------------------
DocStatuses == UnderWay \cup {"pending", "received", "cancelled"}

\* A document that changes its status takes its pieces from one sum to another.
LEMMA PiecesMove ==
    ASSUME RuleAssumption, RuleTypes, NEW d \in W!Existing, NEW to \in DocStatuses,
           doc' = [doc EXCEPT ![d].status = to], to # doc[d].status
    PROVE  /\ doc' \in [W!Docs -> Documents \cup {NoDoc}]
           /\ W!Existing' = W!Existing
           /\ \A e \in W!Docs : e # d => doc'[e] = doc[e]
           /\ doc'[d] = [doc[d] EXCEPT !.status = to]
           /\ \A standing, s :
                Pieces(standing, s)'
                  = IF doc[d].spot = s /\ to = standing THEN Pieces(standing, s) + doc[d].quantity
                    ELSE IF doc[d].spot = s /\ doc[d].status = standing
                         THEN Pieces(standing, s) - doc[d].quantity
                         ELSE Pieces(standing, s)
  <1>1. d \in W!Docs /\ doc[d] \in Documents /\ doc \in [W!Docs -> Documents \cup {NoDoc}]
    BY DEF W!Existing, RuleTypes
  <1>2. doc'[d] = [doc[d] EXCEPT !.status = to] /\ \A e \in W!Docs : e # d => doc'[e] = doc[e]
    BY <1>1
  <1>3. /\ doc'[d].status = to /\ doc'[d].spot = doc[d].spot /\ doc'[d].quantity = doc[d].quantity
        /\ doc'[d] \in Documents
    <2> PICK r : r = doc[d]
      OBVIOUS
    <2>1. r \in Documents
      BY <1>1
    <2>2. [r EXCEPT !.status = to] \in Documents
      BY <2>1 DEF Documents, DocStatuses
    <2> QED
      BY <1>2, <2>1, <2>2 DEF Documents
  <1>4. doc' \in [W!Docs -> Documents \cup {NoDoc}]
    BY <1>1, <1>2, <1>3
  <1>5. doc'[d] # NoDoc
    BY <1>3 DEF RuleAssumption
  <1>6. W!Existing' = W!Existing
    BY <1>1, <1>2, <1>5 DEF W!Existing, W!Docs
  <1>7. ASSUME NEW standing, NEW s
        PROVE  Pieces(standing, s)'
                  = IF doc[d].spot = s /\ to = standing THEN Pieces(standing, s) + doc[d].quantity
                    ELSE IF doc[d].spot = s /\ doc[d].status = standing
                         THEN Pieces(standing, s) - doc[d].quantity
                         ELSE Pieces(standing, s)
    <2> DEFINE n == doc[d].quantity
    <2>1. PICK k : k = Held(standing, s)'
      OBVIOUS
    <2>2. \A e \in W!Docs : k[e] = IF e \in W!Existing /\ doc'[e].spot = s /\ doc'[e].status = standing
                                   THEN doc'[e].quantity ELSE 0
      BY <1>6, <2>1 DEF Held, W!Docs
    <2>3. \A e \in W!Docs : e # d => k[e] = Held(standing, s)[e]
      BY <1>2, <2>2 DEF Held
    <2>4. /\ k[d] = IF doc[d].spot = s /\ to = standing THEN n ELSE 0
          /\ Held(standing, s)[d] = IF doc[d].spot = s /\ doc[d].status = standing THEN n ELSE 0
          /\ n \in Nat
      BY <1>1, <1>3, <2>2 DEF Held, Documents
    <2>5. /\ Summable(Held(standing, s), W!Docs) /\ Pieces(standing, s) \in Nat
          /\ \A e \in W!Docs : Held(standing, s)[e] \in Nat
      BY HeldIs DEF RuleAssumption
    <2>6. Summable(k, W!Docs)
      BY <2>3, <2>4, <2>5 DEF Summable
    <2>7. SumFunctionOnSet(k, W!Docs)
            = SumFunctionOnSet(Held(standing, s), W!Docs) + (k[d] - Held(standing, s)[d])
      BY <1>1, <2>3, <2>5, <2>6, SumUpdate
    <2>8. Pieces(standing, s)' = SumFunctionOnSet(k, W!Docs)
      BY <2>1 DEF Pieces, W!Docs
    <2>9. SumFunctionOnSet(Held(standing, s), W!Docs) = Pieces(standing, s)
      BY DEF Pieces
    <2> QED
      BY <2>4, <2>5, <2>7, <2>8, <2>9
  <1> QED
    BY <1>2, <1>4, <1>6, <1>7

\* A document goes on its way: goods that come in were on their way before.
LEMMA DocumentAdvances ==
    ASSUME RuleAssumption, RuleInv, ruleCall' = ruleCall, NEW d \in W!Docs, W!Advance(d)
    PROVE  RuleInv'
  <1> DEFINE s == doc[d].spot
             n == doc[d].quantity
  <1>1. /\ d \in W!Existing /\ doc[d] \in Documents /\ s \in Spots /\ n \in Nat
        /\ UNCHANGED <<ruleRows, reserved, rulePc, ruleCopy, doubled>>
        /\ doc[d].kind \in DocKinds
    BY DEF W!Advance, W!Existing, RuleInv, RuleTypes, Documents
  <1>2. PICK m \in W!Moves[doc[d].kind] :
          /\ m[1] = doc[d].status
          /\ doc' = [doc EXCEPT ![d].status = m[2]]
          /\ inTransit' = [inTransit EXCEPT ![s] = CASE m[2] = "ordered" -> @ + n
                                                     [] m[1] = "ordered" -> @ - n
                                                     [] OTHER            -> @]
          /\ onHand' = [onHand EXCEPT ![s] = IF m[2] = "received" THEN @ + n ELSE @]
    BY DEF W!Advance
  <1>3. <<m[1], m[2]>> \in {<<"draft", "ordered">>, <<"draft", "pending">>,
                   <<"draft", "cancelled">>, <<"pending", "cancelled">>,
                   <<"ordered", "received">>, <<"ordered", "cancelled">>}
    BY <1>1 DEF W!Moves, DocKinds
  <1> HIDE DEF s, n
  <1>4. /\ onHand \in [Spots -> Nat] /\ inTransit \in [Spots -> Int]
        /\ m[2] \in DocStatuses /\ m[2] # doc[d].status
    BY <1>2, <1>3 DEF RuleInv, RuleTypes, DocStatuses, UnderWay
  <1>5. /\ doc' \in [W!Docs -> Documents \cup {NoDoc}]
        /\ W!Existing' = W!Existing
        /\ \A e \in W!Docs : e # d => doc'[e] = doc[e]
        /\ doc'[d] = [doc[d] EXCEPT !.status = m[2]]
        /\ \A standing, t :
             Pieces(standing, t)'
               = IF s = t /\ m[2] = standing THEN Pieces(standing, t) + n
                 ELSE IF s = t /\ m[1] = standing THEN Pieces(standing, t) - n ELSE Pieces(standing, t)
    <2>1. d \in W!Existing /\ m[2] \in DocStatuses /\ m[2] # doc[d].status /\ RuleTypes
          /\ doc' = [doc EXCEPT ![d].status = m[2]]
      BY <1>1, <1>2, <1>4 DEF RuleInv
    <2>2. /\ doc' \in [W!Docs -> Documents \cup {NoDoc}]
          /\ W!Existing' = W!Existing
          /\ \A e \in W!Docs : e # d => doc'[e] = doc[e]
          /\ doc'[d] = [doc[d] EXCEPT !.status = m[2]]
      BY <2>1, PiecesMove
    <2>3. \A standing, t :
             Pieces(standing, t)'
               = IF doc[d].spot = t /\ m[2] = standing THEN Pieces(standing, t) + doc[d].quantity
                 ELSE IF doc[d].spot = t /\ doc[d].status = standing
                      THEN Pieces(standing, t) - doc[d].quantity
                      ELSE Pieces(standing, t)
      BY <2>1, PiecesMove
    <2>4. doc[d].spot = s /\ doc[d].quantity = n /\ doc[d].status = m[1]
      BY <1>2 DEF s, n
    <2> QED
      BY <2>2, <2>3, <2>4
  <1>6. /\ inTransit'[s] = IF m[2] = "ordered" THEN inTransit[s] + n
                           ELSE IF m[1] = "ordered" THEN inTransit[s] - n ELSE inTransit[s]
        /\ onHand'[s] = IF m[2] = "received" THEN onHand[s] + n ELSE onHand[s]
        /\ \A t \in Spots : t # s => inTransit'[t] = inTransit[t] /\ onHand'[t] = onHand[t]
        /\ DOMAIN onHand' = Spots /\ DOMAIN inTransit' = Spots
    BY <1>1, <1>2, <1>4
  <1>7. onHand' \in [Spots -> Nat] /\ inTransit' \in [Spots -> Int]
    BY <1>1, <1>2, <1>4
  <1>8. RuleTypes'
    BY <1>1, <1>5, <1>7 DEF RuleInv, RuleTypes, RuleCopies, W!Docs
  <1>9. GoesOn
    <2>1. ASSUME NEW e \in W!Existing
          PROVE  /\ doc'[e].kind = doc[e].kind /\ doc'[e].spot = doc[e].spot
                 /\ doc[e].status \notin UnderWay => doc'[e].status \notin UnderWay
      <3>1. CASE e # d
        <4>1. e \in W!Docs
          BY DEF W!Existing
        <4> QED
          BY <1>5, <3>1, <4>1
      <3>2. CASE e = d
        <4>1. doc'[d].kind = doc[d].kind /\ doc'[d].spot = doc[d].spot /\ doc'[d].status = m[2]
          BY <1>1, <1>5 DEF Documents
        <4>2. doc[d].status \notin UnderWay => m[2] \notin UnderWay
          BY <1>2, <1>3 DEF UnderWay
        <4> QED
          BY <3>2, <4>1, <4>2
      <3> QED
        BY <3>1, <3>2
    <2>2. ASSUME NEW t \in Spots
          PROVE  \/ onHand'[t] <= onHand[t]
                 \/ \E e \in W!Existing : doc[e].spot = t /\ doc[e].status = "ordered"
      <3>1. CASE t = s /\ m[2] = "received"
        <4>1. doc[d].status = "ordered" /\ doc[d].spot = t
          BY <1>2, <1>3, <3>1 DEF s
        <4> QED
          BY <1>1, <4>1
      <3>2. CASE ~(t = s /\ m[2] = "received")
        <4>1. onHand'[t] = onHand[t] /\ onHand[t] \in Nat
          BY <1>4, <1>6, <3>2
        <4> QED
          BY <4>1
      <3> QED
        BY <3>1, <3>2
    <2> QED
      BY <1>5, <2>1, <2>2 DEF GoesOn
  <1>10. \A q \in RuleRequests : Abreast(q)'
    BY <1>1, <1>8, <1>9, InformedStays DEF RuleInv
  <1>11. \A standing, t : Pieces(standing, t) \in Nat
    BY HeldIs DEF RuleInv, RuleAssumption
  <1>12. TransitIs'
    <2> SUFFICES ASSUME NEW t \in Spots PROVE inTransit'[t] = Pieces("ordered", t)'
      BY DEF TransitIs
    <2>1. inTransit[t] = Pieces("ordered", t)
      BY DEF RuleInv, TransitIs
    <2>2. CASE t = s
      <3>1. Pieces("ordered", t)'
               = IF m[2] = "ordered" THEN Pieces("ordered", t) + n
                 ELSE IF m[1] = "ordered" THEN Pieces("ordered", t) - n ELSE Pieces("ordered", t)
        BY <1>5, <2>2
      <3> QED
        BY <1>6, <2>1, <2>2, <3>1
    <2>3. CASE t # s
      BY <1>5, <1>6, <2>1, <2>3
    <2> QED
      BY <2>2, <2>3
  <1>13. Bounded'
    <2> SUFFICES ASSUME NEW t \in Spots \ doubled
                 PROVE  onHand'[t] + inTransit'[t] + Pieces("draft", t)' <= Most
      BY <1>1 DEF Bounded, Most, W!MaxPoint, W!MaxQuantity
    <2>1. onHand[t] + inTransit[t] + Pieces("draft", t) <= Most /\ t \in Spots
      BY DEF RuleInv, Bounded
    <2>2. onHand[t] \in Int /\ inTransit[t] \in Int /\ Pieces("draft", t) \in Int /\ Most \in Int
      BY <1>4, <1>11, RuleBounds
    <2>3. CASE t = s
      <3>1. Pieces("draft", t)'
               = IF m[2] = "draft" THEN Pieces("draft", t) + n
                 ELSE IF m[1] = "draft" THEN Pieces("draft", t) - n ELSE Pieces("draft", t)
        BY <1>5, <2>3
      <3>2. /\ inTransit'[t] = IF m[2] = "ordered" THEN inTransit[t] + n
                               ELSE IF m[1] = "ordered" THEN inTransit[t] - n ELSE inTransit[t]
            /\ onHand'[t] = IF m[2] = "received" THEN onHand[t] + n ELSE onHand[t]
        BY <1>6, <2>3
      <3>3. onHand'[t] + inTransit'[t] + Pieces("draft", t)'
              <= onHand[t] + inTransit[t] + Pieces("draft", t)
        BY <1>1, <1>3, <2>2, <3>1, <3>2
      <3>4. onHand'[t] \in Int /\ inTransit'[t] \in Int /\ Pieces("draft", t)' \in Int
        BY <1>1, <2>2, <3>1, <3>2
      <3> QED
        BY <2>1, <2>2, <3>3, <3>4
    <2>4. CASE t # s
      BY <1>5, <1>6, <2>1, <2>4
    <2> QED
      BY <2>3, <2>4
  <1>14. Numbered'
    BY <1>5 DEF RuleInv, Numbered
  <1> QED
    BY <1>8, <1>10, <1>12, <1>13, <1>14 DEF RuleInv

\* A finite set as a sequence has its elements once each.
LEMMA SeqOfDocuments ==
    ASSUME NEW S, IsFiniteSet(S)
    PROVE  /\ W!SetToSeq(S) \in Seq(S)
           /\ \A i, j \in 1..Len(W!SetToSeq(S)) : W!SetToSeq(S)[i] = W!SetToSeq(S)[j] => i = j
  <1> DEFINE n == Cardinality(S)
  <1>1. n \in Nat /\ ExistsBijection(1..n, S)
    BY FS_CardinalityType
  <1>2. PICK f \in [1..n -> S] : IsInjective(f)
    BY <1>1 DEF ExistsBijection, Bijection, Injection
  <1>3. \A g : W!IsInjective(g) <=> IsInjective(g)
    BY DEF W!IsInjective, IsInjective
  <1>4. W!SetToSeq(S) = CHOOSE g \in [1..n -> S] : W!IsInjective(g)
    BY SizeOfRules DEF W!SetToSeq
  <1> HIDE DEF n
  <1>5. W!SetToSeq(S) \in [1..n -> S] /\ IsInjective(W!SetToSeq(S))
    BY <1>2, <1>3, <1>4
  <1> QED
    BY <1>1, <1>5 DEF IsInjective

\* An evaluation saves documents where, unless there is one it does not know, there is room.
LEMMA EvaluationSavesDocs ==
    ASSUME RuleAssumption, RuleInv, ruleCall' = ruleCall, NEW q \in RuleRequests,
           W!SaveTransfers(q) \/ W!SaveOrders(q)
    PROVE  RuleInv'
  <1>1. PICK kind \in DocKinds, from \in {"saveTransfers", "saveOrders"}, to \in {"saveOrders", "done"} :
          /\ W!SaveDocs(q, kind, from, to)
          /\ from = "saveTransfers" => to = "saveOrders"
          /\ from = "saveOrders" => kind = "supplier" /\ to = "done"
    BY DEF W!SaveTransfers, W!SaveOrders, DocKinds
  <1> DEFINE chosen == {d \in ruleCopy[q].drafts : d.kind = kind}
  <1>2. PICK new, first :
          /\ new = W!SetToSeq(chosen) /\ first = W!Cardinality(W!Existing)
          /\ first + Len(new) <= MaxDocs
          /\ doc' = [d \in W!Docs |-> IF d - first \in DOMAIN new THEN new[d - first] ELSE doc[d]]
          /\ doubled' = doubled \cup {s \in {d.spot : d \in W!Range(new)} : W!Unknown(q, s)}
    BY <1>1 DEF W!SaveDocs
  <1>3. /\ rulePc[q] = from /\ W!Goto(q, to) /\ UNCHANGED <<ruleRows, W!stock>>
        /\ ruleCopy' = IF to = "done" THEN [ruleCopy EXCEPT ![q] = W!Blank] ELSE ruleCopy
    BY <1>1 DEF W!SaveDocs
  <1>4. /\ Drafting(q) /\ HasRead(q) /\ ruleCopy \in [RuleRequests -> RuleCopies]
        /\ doc \in [W!Docs -> Documents \cup {NoDoc}]
        /\ onHand \in [Spots -> Nat] /\ inTransit \in [Spots -> Int]
    BY DEF RuleInv, RuleTypes, Abreast
  <1>5. /\ ruleCopy[q].drafts \in SUBSET Documents
        /\ IsFiniteSet(ruleCopy[q].drafts)
        /\ \A r, t \in ruleCopy[q].drafts : r.spot = t.spot => r = t
        /\ \A r \in ruleCopy[q].drafts : r.status = "draft" /\ r.quantity <= W!MaxQuantity
        /\ \A r \in chosen : ~ W!Unknown(q, r.spot) => Short(q, r.spot)
    BY <1>1, <1>3, <1>4 DEF Drafting, Unsaved, RuleCopies
  <1>6. IsFiniteSet(chosen)
    BY <1>5, FS_Subset
  <1>7. /\ new \in Seq(chosen)
        /\ \A i, j \in 1..Len(new) : new[i] = new[j] => i = j
    <2> HIDE DEF chosen
    <2> QED
      BY <1>2, <1>6, SeqOfDocuments
  <1>8. /\ \A i \in 1..Len(new) :
              /\ new[i] \in Documents /\ new[i].status = "draft" /\ new[i].quantity <= W!MaxQuantity
              /\ new[i].spot \in Spots
              /\ ~ W!Unknown(q, new[i].spot) => Short(q, new[i].spot)
        /\ \A i, j \in 1..Len(new) : new[i].spot = new[j].spot => i = j
        /\ DOMAIN new = 1..Len(new) /\ Len(new) \in Nat
    <2>1. \A i \in 1..Len(new) : new[i] \in chosen
      BY <1>7
    <2> QED
      BY <1>5, <1>7, <2>1 DEF Documents
  <1>9. PICK n \in 0..MaxDocs : W!Existing = 1..n
    BY DEF RuleInv, Numbered
  <1>10. first = n /\ MaxDocs \in Nat
    <2>1. n \in Nat /\ MaxDocs \in Nat
      BY <1>9 DEF RuleAssumption
    <2>2. Cardinality(1..n) = IF 1 > n THEN 0 ELSE n - 1 + 1
      BY <2>1, FS_Interval
    <2> QED
      BY <1>2, <1>9, <2>1, <2>2, SizeOfRules
  <1> DEFINE m == n + Len(new)
  <1>11. /\ \A d \in 1..n : d \in W!Docs /\ doc'[d] = doc[d]
         /\ \A d \in (n + 1)..m : d \in W!Docs /\ doc'[d] = new[d - n] /\ d - n \in 1..Len(new)
         /\ \A d \in W!Docs : d \notin 1..m => doc'[d] = doc[d] /\ d \notin W!Existing
         /\ m \in 0..MaxDocs /\ 1..m \subseteq W!Docs
    <2>1. /\ n \in Nat /\ Len(new) \in Nat /\ m = n + Len(new) /\ m <= MaxDocs /\ MaxDocs \in Nat
          /\ W!Docs = 1..MaxDocs /\ DOMAIN new = 1..Len(new)
      BY <1>2, <1>8, <1>9, <1>10 DEF W!Docs
    <2>2. \A d \in W!Docs : doc'[d] = IF d - n \in 1..Len(new) THEN new[d - n] ELSE doc[d]
      BY <1>2, <1>10, <2>1
    <2> HIDE DEF m
    <2>3. \A d \in 1..n : d \in W!Docs /\ d - n \notin 1..Len(new)
      BY <2>1
    <2>4. \A d \in (n + 1)..m : d \in W!Docs /\ d - n \in 1..Len(new)
      BY <2>1
    <2>5. \A d \in W!Docs : d \notin 1..m => d - n \notin 1..Len(new) /\ d \notin 1..n
      BY <2>1
    <2>6. m \in 0..MaxDocs /\ 1..m \subseteq W!Docs
      BY <2>1
    <2> QED
      BY <1>9, <2>2, <2>3, <2>4, <2>5, <2>6
  <1>12. W!Existing' = 1..m
    <2>1. \A d \in 1..n : doc'[d] # NoDoc
      BY <1>9, <1>11 DEF W!Existing
    <2>2. \A d \in (n + 1)..m : doc'[d] # NoDoc
      BY <1>8, <1>11 DEF RuleAssumption
    <2>3. \A d \in 1..m : d \in 1..n \/ d \in (n + 1)..m
      BY <1>8, <1>9
    <2>4. \A d \in W!Docs : d \notin 1..m => doc'[d] = NoDoc
      BY <1>11 DEF W!Existing
    <2> QED
      BY <1>11, <2>1, <2>2, <2>3, <2>4 DEF W!Existing, W!Docs
  <1>13. doc' \in [W!Docs -> Documents \cup {NoDoc}]
    BY <1>2, <1>4, <1>8
  <1>14. GoesOn
    <2>1. \A s \in Spots : onHand'[s] <= onHand[s]
      BY <1>3, <1>4 DEF W!stock
    <2>2. 1..n \subseteq 1..m
      BY <1>8, <1>9
    <2> QED
      BY <1>9, <1>11, <1>12, <2>1, <2>2 DEF GoesOn
  <1>15. /\ ruleCopy' \in [RuleRequests -> RuleCopies]
         /\ \A p \in RuleRequests : p # q => ruleCopy'[p] = ruleCopy[p]
    <2>1. W!Blank \in RuleCopies
      BY DEF W!Blank, RuleCopies
    <2> QED
      BY <1>3, <1>4, <2>1
  <1>16. /\ rulePc' \in [RuleRequests -> RuleSteps] /\ rulePc'[q] = to
         /\ \A p \in RuleRequests : p # q => rulePc'[p] = rulePc[p]
    BY <1>3, RuleGoto DEF RuleInv, RuleSteps
  <1>17. RuleTypes'
    BY <1>3, <1>13, <1>15, <1>16 DEF RuleInv, RuleTypes, RuleCopies, W!Docs, W!stock
  <1>18. ASSUME NEW p \in RuleRequests PROVE Abreast(p)'
    <2>1. CASE p # q
      BY <1>14, <1>15, <1>16, <1>17, <2>1, InformedStays DEF RuleInv
    <2>2. CASE p = q /\ to = "done"
      BY <1>16, <2>2 DEF Abreast, HasRead, OrdersSeen, TransfersSeen, StockSeen, Drafting, Evaluating
    <2>3. CASE p = q /\ to = "saveOrders"
      <3>1. /\ ruleCopy' = ruleCopy /\ ruleCopy[q].known \subseteq W!Existing
            /\ ruleCopy[q].rules \in RuleTables /\ rulePc[q] = "saveTransfers"
        BY <1>1, <1>3, <1>4, <2>3 DEF HasRead, Evaluating, RuleSteps
      <3>2. HasRead(q)'
        BY <1>14, <1>16, <2>3, <3>1 DEF HasRead, GoesOn
      <3>3. ASSUME NEW r \in ruleCopy[q].drafts, ~ W!Unknown(q, r.spot)' PROVE Short(q, r.spot)'
        <4>1. r.spot \in Spots
          BY <1>5 DEF Documents
        <4>2. ~ W!Unknown(q, r.spot) => Short(q, r.spot)
          BY <1>4, <3>1 DEF Drafting, Unsaved
        <4> QED
          BY <1>14, <1>17, <3>1, <3>3, <4>1, <4>2, ShortStays DEF RuleInv
      <3>4. Drafting(q)'
        BY <1>5, <3>1, <3>3 DEF Drafting, Unsaved, W!MaxQuantity
      <3> QED
        BY <1>16, <2>3, <3>2, <3>4 DEF Abreast, OrdersSeen, TransfersSeen, StockSeen
    <2> QED
      BY <2>1, <2>2, <2>3
  <1>19. ASSUME NEW standing, NEW s, \/ standing = "ordered"
                                   \/ \A i \in 1..Len(new) : new[i].spot # s
         PROVE  Pieces(standing, s)' = Pieces(standing, s)
    <2>1. PICK k : k = Held(standing, s)'
      OBVIOUS
    <2>2. \A d \in W!Docs : k[d] = IF d \in 1..m /\ doc'[d].spot = s /\ doc'[d].status = standing
                                   THEN doc'[d].quantity ELSE 0
      BY <1>12, <2>1 DEF Held, W!Docs
    <2>3. ASSUME NEW d \in W!Docs PROVE k[d] = Held(standing, s)[d]
      <3>1. CASE d \in 1..n
        BY <1>8, <1>9, <1>11, <2>2, <3>1 DEF Held
      <3>2. CASE d \in (n + 1)..m
        <4>1. k[d] = 0
          BY <1>8, <1>11, <1>19, <2>2, <3>2
        <4>2. d \notin W!Existing
          BY <1>9, <3>2
        <4> QED
          BY <4>1, <4>2 DEF Held
      <3>3. CASE d \notin 1..m
        BY <1>11, <2>2, <3>3 DEF Held
      <3> QED
        BY <1>8, <1>9, <3>1, <3>2, <3>3
    <2>4. Summable(Held(standing, s), W!Docs)
      BY HeldIs DEF RuleInv, RuleAssumption
    <2>5. SumFunctionOnSet(k, W!Docs) = SumFunctionOnSet(Held(standing, s), W!Docs)
      BY <2>3, <2>4, SumSame
    <2>6. Pieces(standing, s)' = SumFunctionOnSet(k, W!Docs)
      BY <2>1 DEF Pieces, W!Docs
    <2> QED
      BY <2>5, <2>6 DEF Pieces
  <1>20. TransitIs'
    BY <1>3, <1>19 DEF RuleInv, TransitIs, W!stock
  <1>21. ASSUME NEW i \in 1..Len(new), ~ W!Unknown(q, new[i].spot)
         PROVE  /\ inTransit[new[i].spot] = 0
                /\ Pieces("draft", new[i].spot)' <= W!MaxQuantity
                /\ Pieces("draft", new[i].spot)' \in Nat
                /\ onHand[new[i].spot] <= W!MaxPoint - 1 + MaxReserved
    <2> DEFINE s == new[i].spot
    <2>1. Short(q, s) /\ s \in Spots
      BY <1>8, <1>21
    <2>2. \A d \in W!Existing : doc[d].spot = s => doc[d].status \notin UnderWay
      BY <1>21, <2>1, KnowsThemAll DEF RuleInv, Short
    <2>3. /\ \A d \in W!Docs : Held("ordered", s)[d] = 0 /\ Held("draft", s)[d] = 0
          /\ IsFiniteSet(W!Docs)
      BY <2>2, HeldIs DEF Held, UnderWay, RuleInv, RuleAssumption
    <2>4. Pieces("ordered", s) = 0 /\ Pieces("draft", s) = 0
      BY <2>3, SumZero DEF Pieces
    <2>5. PICK k : k = Held("draft", s)'
      OBVIOUS
    <2>6. \A d \in W!Docs : k[d] = IF d \in 1..m /\ doc'[d].spot = s /\ doc'[d].status = "draft"
                                   THEN doc'[d].quantity ELSE 0
      BY <1>12, <2>5 DEF Held, W!Docs
    <2>7. ASSUME NEW d \in W!Docs, d # n + i PROVE k[d] = Held("draft", s)[d]
      <3>1. CASE d \in 1..n
        <4>1. k[d] = 0
          BY <1>9, <1>11, <2>2, <2>6, <3>1 DEF UnderWay
        <4> QED
          BY <2>3, <4>1
      <3>2. CASE d \in (n + 1)..m
        <4>1. doc'[d].spot # s
          <5>1. d - n \in 1..Len(new) /\ d - n # i /\ doc'[d] = new[d - n]
            BY <1>9, <1>11, <2>7, <3>2
          <5> QED
            BY <1>8, <5>1
        <4> QED
          BY <2>3, <2>6, <4>1
      <3>3. CASE d \notin 1..m
        BY <2>3, <2>6, <3>3
      <3> QED
        BY <1>8, <1>9, <3>1, <3>2, <3>3
    <2>8. n + i \in W!Docs /\ k[n + i] \in Nat /\ k[n + i] <= W!MaxQuantity
      <3>1. n + i \in (n + 1)..m /\ (n + i) - n = i /\ n + i \in 1..m
        BY <1>8, <1>9
      <3>2. n + i \in W!Docs /\ doc'[n + i] = new[i]
        BY <1>11, <3>1
      <3>3. new[i] \in Documents /\ new[i].quantity <= W!MaxQuantity /\ new[i].status = "draft"
        BY <1>8
      <3> QED
        BY <2>6, <3>1, <3>2, <3>3 DEF Documents
    <2>9. Summable(Held("draft", s), W!Docs)
      BY HeldIs DEF RuleInv, RuleAssumption
    <2>10. Summable(k, W!Docs)
      <3>1. \A d \in W!Docs : k[d] \in Int
        BY <2>3, <2>7, <2>8
      <3> QED
        BY <2>3, <3>1 DEF Summable
    <2>11. SumFunctionOnSet(k, W!Docs)
             = SumFunctionOnSet(Held("draft", s), W!Docs) + (k[n + i] - Held("draft", s)[n + i])
      BY <2>7, <2>8, <2>9, <2>10, SumUpdate
    <2>12. SumFunctionOnSet(k, W!Docs) = k[n + i]
      BY <2>3, <2>4, <2>8, <2>11 DEF Pieces
    <2>13. Pieces("draft", s)' = SumFunctionOnSet(k, W!Docs)
      BY <2>5 DEF Pieces, W!Docs
    <2>14. inTransit[s] = 0
      BY <2>1, <2>4 DEF RuleInv, TransitIs
    <2> QED
      BY <2>1, <2>8, <2>12, <2>13, <2>14 DEF Short
  <1>22. Bounded'
    <2> SUFFICES ASSUME NEW s \in Spots \ doubled'
                 PROVE  onHand'[s] + inTransit'[s] + Pieces("draft", s)' <= Most
      BY DEF Bounded, Most, W!MaxPoint, W!MaxQuantity
    <2>1. onHand' = onHand /\ inTransit' = inTransit /\ s \in Spots /\ s \notin doubled
      BY <1>2, <1>3 DEF W!stock
    <2>2. CASE \A i \in 1..Len(new) : new[i].spot # s
      BY <1>19, <2>1, <2>2 DEF RuleInv, Bounded
    <2>3. CASE \E i \in 1..Len(new) : new[i].spot = s
      <3>1. PICK i \in 1..Len(new) : new[i].spot = s
        BY <2>3
      <3>2. s \in {d.spot : d \in W!Range(new)}
        BY <1>8, <3>1 DEF W!Range
      <3>3. ~ W!Unknown(q, s)
        BY <1>2, <3>2
      <3>4. /\ inTransit[s] = 0 /\ Pieces("draft", s)' <= W!MaxQuantity /\ Pieces("draft", s)' \in Nat
            /\ onHand[s] <= W!MaxPoint - 1 + MaxReserved
        BY <1>21, <3>1, <3>3
      <3>5. /\ W!MaxPoint \in Nat /\ W!MaxQuantity \in Nat /\ MaxReserved \in Nat /\ Most \in Nat
            /\ W!MaxPoint - 1 + MaxReserved + W!MaxQuantity <= Most /\ onHand[s] \in Nat
        BY <1>4, <2>1, RuleBounds DEF RuleAssumption
      <3> QED
        BY <2>1, <3>4, <3>5
    <2> QED
      BY <2>2, <2>3
  <1>23. Numbered'
    BY <1>11, <1>12 DEF Numbered
  <1> QED
    BY <1>17, <1>18, <1>20, <1>22, <1>23 DEF RuleInv

-----------------------------------------------------------------------------
LEMMA RulesStart == ASSUME RuleAssumption, W!Init PROVE RuleInv
  <1>1. /\ ruleRows \in RuleTables /\ \A d \in W!Docs : doc[d] = NoDoc
        /\ doc \in [W!Docs -> Documents \cup {NoDoc}]
    BY RuleBounds DEF W!Init, RuleTables
  <1>2. /\ onHand \in [Spots -> 0..MaxStock] /\ inTransit = [s \in Spots |-> 0]
        /\ reserved \in [Spots -> 0..MaxReserved]
    BY DEF W!Init, RuleAssumption
  <1>3. \A q \in RuleRequests : rulePc[q] = "start"
    BY DEF W!Init
  <1>4. W!Blank \in RuleCopies
    BY DEF W!Blank, RuleCopies
  <1>5. RuleTypes
    <2>1. onHand \in [Spots -> Nat] /\ inTransit \in [Spots -> Int]
      BY <1>2 DEF RuleAssumption
    <2>2. rulePc \in [RuleRequests -> RuleSteps]
      BY DEF W!Init, RuleSteps
    <2>3. ruleCopy \in [RuleRequests -> RuleCopies] /\ ruleCall \in [RuleRequests -> RuleCommands]
      BY <1>4 DEF W!Init
    <2> QED
      BY <1>1, <1>2, <2>1, <2>2, <2>3 DEF RuleTypes
  <1>6. W!Existing = {}
    BY <1>1 DEF W!Existing
  <1>7. Numbered
    <2>1. 0 \in 0..MaxDocs /\ 1..0 = {}
      BY DEF RuleAssumption
    <2> QED
      BY <1>6, <2>1 DEF Numbered
  <1>8. ASSUME NEW standing, NEW s PROVE Pieces(standing, s) = 0
    <2>1. \A d \in W!Docs : Held(standing, s)[d] = 0
      BY <1>6 DEF Held
    <2>2. IsFiniteSet(W!Docs)
      BY <1>5, HeldIs DEF RuleAssumption
    <2> QED
      BY <2>1, <2>2, SumZero DEF Pieces
  <1>9. TransitIs
    BY <1>2, <1>8 DEF TransitIs
  <1>10. Bounded
    <2> SUFFICES ASSUME NEW s \in Spots PROVE onHand[s] + inTransit[s] + Pieces("draft", s) <= Most
      BY DEF Bounded
    <2>1. inTransit[s] = 0 /\ Pieces("draft", s) = 0 /\ onHand[s] \in 0..MaxStock
      BY <1>2, <1>8
    <2>2. Most \in Nat /\ MaxStock \in Nat /\ MaxStock <= Most
      BY RuleBounds DEF RuleAssumption
    <2> QED
      BY <2>1, <2>2
  <1>11. \A q \in RuleRequests : Abreast(q)
    BY <1>3 DEF Abreast, HasRead, OrdersSeen, TransfersSeen, StockSeen, Drafting, Evaluating
  <1> QED
    BY <1>5, <1>7, <1>9, <1>10, <1>11 DEF RuleInv

LEMMA RuleStep == ASSUME RuleAssumption, RuleInv, [W!Next]_W!vars PROVE RuleInv'
  <1>1. CASE \E d \in W!Docs : W!Advance(d)
    BY <1>1, DocumentAdvances DEF W!Advance
  <1>2. CASE \E s \in Spots : W!Sell(s) \/ W!Reserve(s) \/ W!Release(s)
    BY <1>2, RuleStockMoves DEF W!Sell, W!Reserve, W!Release
  <1>3. CASE \E q \in RuleRequests : W!Step(q)
    BY <1>3, EvaluationStarts, EvaluationReads, EvaluationDecides, EvaluationSavesRules,
       EvaluationSavesDocs, RuleCreated, RuleFound, RuleToggled DEF W!Step, W!Evaluate
  <1>4. CASE UNCHANGED W!vars
    <2>1. /\ UNCHANGED <<ruleRows, doc, onHand, reserved, inTransit>>
          /\ UNCHANGED <<ruleCall, rulePc, ruleCopy, doubled>>
      BY <1>4 DEF W!vars, W!stock
    <2>2. RuleTypes' /\ \A s \in Spots : onHand'[s] <= onHand[s]
      BY <2>1 DEF RuleInv, RuleTypes, RuleCopies, W!Docs
    <2> QED
      BY <2>1, <2>2, WithoutDocuments
  <1> QED
    BY <1>1, <1>2, <1>3, <1>4 DEF W!Next

\* The drafts of a spot have the pieces that the bound counts.
LEMMA PipelineIs ==
    ASSUME RuleAssumption, RuleTypes, NEW s \in Spots
    PROVE  W!Pipeline(s) = onHand[s] + inTransit[s] + Pieces("draft", s)
  <1> DEFINE mine == W!Drafted(s)
             others == W!Docs \ mine
             h == Held("draft", s)
             k == [d \in mine |-> doc[d].quantity]
  <1>1. mine \cup others = W!Docs /\ mine \cap others = {} /\ mine \subseteq W!Docs /\ others \subseteq W!Docs
    BY DEF W!Drafted, W!Existing
  <1>2. \A d \in mine : h[d] = k[d]
    BY <1>1 DEF W!Drafted, Held
  <1>3. \A d \in others : h[d] = 0
    BY DEF W!Drafted, Held
  <1> HIDE DEF mine, others, h, k
  <1>4. Summable(h, W!Docs) /\ IsFiniteSet(W!Docs)
    BY HeldIs DEF RuleAssumption, h
  <1>5. Summable(h, mine) /\ Summable(h, others)
    BY <1>1, <1>4, FS_Subset DEF Summable
  <1>6. SumFunctionOnSet(h, W!Docs) = SumFunctionOnSet(h, mine) + SumFunctionOnSet(h, others)
    BY <1>1, <1>5, SumUnion
  <1>7. SumFunctionOnSet(h, others) = 0
    BY <1>3, <1>5, SumZero DEF Summable
  <1>8. SumFunctionOnSet(h, mine) = SumFunctionOnSet(k, mine) /\ SumFunctionOnSet(h, mine) \in Int
    BY <1>2, <1>5, SumSame, SumType
  <1>9. Pieces("draft", s) = SumFunctionOnSet(k, mine)
    BY <1>6, <1>7, <1>8 DEF Pieces, h
  <1> QED
    BY <1>9, SumOfRules DEF W!Pipeline, k, mine

\* What is on hand, in transit and drafted for a spot is at most one order above its reorder
\* point and the reservations that hid stock from the evaluation (ReplenishmentEvaluator.ts),
\* except where an evaluation saved a document beside one that was drafted after it began: for
\* any spots, rules and forecasts, and any number of evaluations, although the orders, the
\* transfers and the stock are read one after the other while documents move on.
THEOREM PipelinesBounded == ASSUME RuleAssumption PROVE W!Spec => []W!PipelineBounded
  <1>1. W!Init => RuleInv
    BY RulesStart
  <1>2. RuleInv /\ [W!Next]_W!vars => RuleInv'
    BY RuleStep
  <1>3. RuleInv => W!PipelineBounded
    <2> SUFFICES ASSUME RuleInv, NEW s \in Spots \ doubled
                 PROVE  W!Pipeline(s)
                          <= W!Max({MaxStock, W!MaxPoint + MaxReserved - 1 + W!MaxQuantity})
      BY DEF W!PipelineBounded
    <2>1. W!Pipeline(s) = onHand[s] + inTransit[s] + Pieces("draft", s)
      BY PipelineIs DEF RuleInv
    <2> QED
      BY <2>1, MaxOfRules DEF RuleInv, Bounded, Most
  <1> QED
    BY <1>1, <1>2, <1>3, PTL DEF W!Spec
=============================================================================
