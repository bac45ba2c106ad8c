---------------------- MODULE InventoryCommandsProofs ----------------------
(***************************************************************************)
(* The stock mutations implement AtomicInventory for every set of rows, of *)
(* commands, of requests and every number of retries, provided that no     *)
(* count names a row twice.  The argument: the drafts of a request were    *)
(* computed from the rows of some earlier moment (Earlier); a row that    *)
(* still has the version it had then is still the same row, because every  *)
(* commit raises the version of what it writes; so a commit that passes    *)
(* the version check computes what it would compute from the present rows. *)
(***************************************************************************)
EXTENDS InventoryCommands, CommonTheorems

\* What a command may be.
LEMMA CommandType ==
    ASSUME NEW c \in Commands
    PROVE  /\ c.method \in Methods \ {"cancelInTransit"}
           /\ c.keys \subseteq Keys
           /\ c.amount \in [Keys -> Nat]
           /\ c.repeated => c.method = "reconcileStock"
  BY CommandsAssumption DEF Command

\* The item a use case starts from is an item.
LEMMA BaseItem ==
    ASSUME NEW table \in Tables, NEW k \in Keys
    PROVE  Base(table, k) \in Item
  BY DEF Tables, Base, CreateNew, Item

\* A command that is accepted computes an item for each of its rows; where
\* the row is named once, its version is one above the row's.
LEMMA MutateItem ==
    ASSUME NEW table \in Tables, NEW c \in Commands, NEW k \in c.keys,
           Accepts(table, c)
    PROVE  /\ Mutate(c, k, Base(table, k)) \in Item
           /\ ~c.repeated =>
                Mutate(c, k, Base(table, k)).version = Base(table, k).version + 1
  <1> DEFINE i == Base(table, k)
             n == c.amount[k]
  <1>1. /\ c.method \in Methods
        /\ k \in Keys
        /\ n \in Nat
    BY CommandType
  <1>2. i \in Item
    BY <1>1, BaseItem
  <1>3. Permits(c.method, i, n)
    BY DEF Accepts
  <1>4. /\ Once(c, k, i) \in Item
        /\ Once(c, k, i).version = i.version + 1
    BY <1>1, <1>2, <1>3, ApplyItem DEF Once
  <1>5. CASE ~c.repeated
    BY <1>4, <1>5 DEF Mutate
  <1>6. CASE c.repeated
    <2>1. c.method = "reconcileStock"
      BY <1>6, CommandType
    <2>2. Permits(c.method, Once(c, k, i), n)
      BY <2>1 DEF Permits
    <2>3. Once(c, k, Once(c, k, i)) \in Item
      BY <1>1, <1>4, <2>2, ApplyItem DEF Once
    <2> QED
      BY <1>6, <2>3 DEF Mutate
  <1> QED
    BY <1>5, <1>6

\* The drafts of an accepted command are a table.
LEMMA DraftsType ==
    ASSUME NEW table \in Tables, NEW c \in Commands, Accepts(table, c)
    PROVE  Drafts(table, c) \in Tables
  <1>1. ASSUME NEW k \in Keys
        PROVE  (IF k \in c.keys THEN Mutate(c, k, Base(table, k)) ELSE NoRow)
                 \in Item \cup {NoRow}
    BY MutateItem
  <1> QED
    BY <1>1 DEF Drafts, Tables

-----------------------------------------------------------------------------
\* The inductive invariant: types alone are not inductive, since the items a
\* request writes are computed from what it read, and are items only because
\* the command was accepted on it.
IInv == TypeOK /\ ReadsAreSnapshots

\* Before the first call the tables and the calls have their types.
LEMMA InitType == Init => TypeOK
  <1> SUFFICES ASSUME Init PROVE TypeOK
    OBVIOUS
  <1>1. \A k \in Keys : OnHand(k) \in Int
    BY InitialAssumption DEF Init, OnHand, Tables, Item
  <1>2. /\ items \in Tables
        /\ NothingLoaded \in Tables
    BY InitialAssumption DEF Init, NothingLoaded, Tables
  <1>3. \A c \in Commands : EntryPoint(c) \in Labels
    BY DEF EntryPoint, Labels
  <1> QED
    BY <1>1, <1>2, <1>3, RetriesAssumption DEF Init, TypeOK

\* Every step preserves the types.
LEMMA NextType == IInv /\ [Next]_vars => TypeOK'
  <1> SUFFICES ASSUME IInv, [Next]_vars PROVE TypeOK'
    OBVIOUS
  <1> USE DEF IInv, TypeOK
  <1>0. \A c \in Commands : EntryPoint(c) \in Labels
    BY DEF EntryPoint, Labels
  <1>1. ASSUME NEW r \in Requests, ValidateCapacity(r) PROVE TypeOK'
    BY <1>1 DEF ValidateCapacity, Labels, Final, db, memory
  <1>2. ASSUME NEW r \in Requests, Load(r) PROVE TypeOK'
    <2>1. [k \in Keys |-> IF k \in cmd[r].keys THEN items[k] ELSE NoRow] \in Tables
      BY DEF Tables
    <2> QED
      BY <1>2, <2>1 DEF Load, Labels, db
  <1>3. ASSUME NEW r \in Requests, Reject(r) PROVE TypeOK'
    BY <1>3 DEF Reject, Labels, Final, db, memory
  <1>4. ASSUME NEW r \in Requests, Commit(r) PROVE TypeOK'
    <2>1. items' \in Tables
      BY <1>4, DraftsType DEF Commit, ReadsAreSnapshots, Tables
    <2> QED
      BY <1>4, <2>1 DEF Commit, Labels, Final, memory
  <1>5. ASSUME NEW r \in Requests, DuplicateKey(r) PROVE TypeOK'
    BY <1>5 DEF DuplicateKey, Labels, Final, db, memory
  <1>6. ASSUME NEW r \in Requests, Retry(r) PROVE TypeOK'
    BY <1>0, <1>6, RetriesAssumption DEF Retry, db
  <1>7. ASSUME NEW r \in Requests, GiveUp(r) PROVE TypeOK'
    BY <1>7 DEF GiveUp, Labels, Final, db, memory
  <1>8. ASSUME NEW r \in Requests, AppendLedger(r) PROVE TypeOK'
    <2>1. \A k \in Keys : LedgerDelta(cmd[r], k) \in Int
      BY CommandType DEF LedgerDelta
    <2>2. ledger' \in [Keys -> Int]
      BY <1>8, <2>1 DEF AppendLedger
    <2> QED
      BY <1>8, <2>2 DEF AppendLedger, Labels, Final, memory
  <1>9. ASSUME NEW r \in Requests, Crash(r) PROVE TypeOK'
    BY <1>9 DEF Crash, Labels, Final, db, memory
  <1>10. CASE UNCHANGED vars
    BY <1>10 DEF vars
  <1> QED
    BY <1>1, <1>2, <1>3, <1>4, <1>5, <1>6, <1>7, <1>8, <1>9, <1>10 DEF Next, Step

\* A row that a commit writes exists afterwards, with a version one above the
\* version it had if it existed before.
LEMMA CommitRaises ==
    ASSUME IInv, NEW r \in Requests, Commit(r), NEW k \in cmd[r].keys
    PROVE  /\ items'[k] \in Item
           /\ items[k] # NoRow => items'[k].version = items[k].version + 1
  <1> DEFINE draft == Drafts(loaded[r], cmd[r])[k]
  <1>1. /\ loaded[r] \in Tables
        /\ cmd[r] \in Commands
        /\ k \in Keys
        /\ items[k] \in Item \cup {NoRow}
    BY CommandType DEF IInv, TypeOK, Tables
  <1>2. Accepts(loaded[r], cmd[r])
    BY DEF IInv, ReadsAreSnapshots, Commit
  <1>3. /\ draft \in Item
        /\ items'[k] = draft
    BY <1>1, <1>2, MutateItem DEF Drafts, Commit
  <1>4. ASSUME items[k] # NoRow
        PROVE  draft.version = items[k].version + 1
    <2>1. k \notin New(r)
      BY <1>4 DEF Commit, Insertable
    <2>2. items[k].version = draft.version - 1
      BY <2>1 DEF Commit, UpToDate
    <2> QED
      BY <1>1, <1>3, <1>4, <2>2 DEF Item
  <1> QED
    BY <1>3, <1>4

\* What was an earlier state of the rows stays one.
LEMMA EarlierStable ==
    ASSUME IInv, NEW rows \in Tables, Earlier(rows), NEW r \in Requests, Commit(r)
    PROVE  Earlier(rows)'
  <1> SUFFICES ASSUME NEW k \in Keys, rows[k] # NoRow
               PROVE  /\ items'[k] # NoRow
                      /\ rows[k].version <= items'[k].version
                      /\ rows[k].version = items'[k].version => rows[k] = items'[k]
    BY DEF Earlier
  <1>1. /\ items[k] # NoRow
        /\ rows[k].version <= items[k].version
        /\ rows[k].version = items[k].version => rows[k] = items[k]
    BY DEF Earlier
  <1>2. /\ rows[k].version \in Nat
        /\ items[k].version \in Nat
    BY <1>1 DEF IInv, TypeOK, Tables, Item
  <1>3. CASE k \in cmd[r].keys
    <2>1. /\ items'[k] # NoRow
          /\ items'[k].version = items[k].version + 1
      BY <1>1, <1>3, CommitRaises, NoRowAssumption
    <2> QED
      BY <1>1, <1>2, <2>1
  <1>4. CASE k \notin cmd[r].keys
    BY <1>1, <1>4 DEF Commit
  <1> QED
    BY <1>3, <1>4

\* No call is about to save before it has read anything.
LEMMA InitSnapshots == Init => ReadsAreSnapshots
  BY DEF Init, ReadsAreSnapshots, EntryPoint

\* The rows a request loads are rows of this moment.
LEMMA LoadSnapshot ==
    ASSUME IInv, NEW r \in Requests, Load(r)
    PROVE  Accepts(loaded[r], cmd[r])' /\ Earlier(loaded[r])'
  <1>1. /\ cmd[r] \in Commands
        /\ cmd' = cmd
        /\ items' = items
        /\ loaded'[r] = [k \in Keys |-> IF k \in cmd[r].keys THEN items[k] ELSE NoRow]
    BY DEF IInv, TypeOK, Load, db
  <1>2. \A k \in cmd[r].keys : loaded'[r][k] = items[k]
    BY <1>1, CommandType
  <1>3. Accepts(loaded'[r], cmd[r])
    BY <1>2 DEF Load, Accepts, Base
  <1>4. ASSUME NEW k \in Keys, loaded'[r][k] # NoRow
        PROVE  /\ loaded'[r][k] = items[k]
               /\ items[k] \in Item
    BY <1>1, <1>4 DEF IInv, TypeOK, Tables
  <1>5. Earlier(loaded[r])'
    BY <1>1, <1>4 DEF Earlier, Item
  <1> QED
    BY <1>1, <1>3, <1>5

\* Every step preserves that what a call is about to save was accepted on rows
\* no newer than those of the table.
LEMMA NextSnapshots == IInv /\ [Next]_vars => ReadsAreSnapshots'
  <1> SUFFICES ASSUME IInv, [Next]_vars, NEW s \in Requests, pc'[s] = "save"
               PROVE  Accepts(loaded[s], cmd[s])' /\ Earlier(loaded[s])'
    BY DEF ReadsAreSnapshots
  <1>0. ASSUME pc[s] = "save"
        PROVE  Accepts(loaded[s], cmd[s]) /\ Earlier(loaded[s])
    BY <1>0 DEF IInv, ReadsAreSnapshots
  <1>1. ASSUME NEW r \in Requests, ValidateCapacity(r)
        PROVE  Accepts(loaded[s], cmd[s])' /\ Earlier(loaded[s])'
    BY <1>0, <1>1 DEF ValidateCapacity, IInv, TypeOK, db, memory, Earlier
  <1>2. ASSUME NEW r \in Requests, Load(r)
        PROVE  Accepts(loaded[s], cmd[s])' /\ Earlier(loaded[s])'
    <2>1. CASE s = r
      BY <1>2, <2>1, LoadSnapshot
    <2>2. CASE s # r
      BY <1>0, <1>2, <2>2 DEF Load, IInv, TypeOK, db, Earlier
    <2> QED
      BY <2>1, <2>2
  <1>3. ASSUME NEW r \in Requests, Reject(r)
        PROVE  Accepts(loaded[s], cmd[s])' /\ Earlier(loaded[s])'
    BY <1>0, <1>3 DEF Reject, IInv, TypeOK, db, memory, Earlier
  <1>4. ASSUME NEW r \in Requests, Commit(r)
        PROVE  Accepts(loaded[s], cmd[s])' /\ Earlier(loaded[s])'
    <2>1. /\ pc[s] = "save"
          /\ loaded' = loaded
          /\ cmd' = cmd
      BY <1>4 DEF Commit, IInv, TypeOK, memory
    <2>2. loaded[s] \in Tables
      BY DEF IInv, TypeOK
    <2>3. Earlier(loaded[s])'
      <3>1. \A rows \in Tables : Earlier(rows) => Earlier(rows)'
        BY <1>4, EarlierStable
      <3> QED
        BY <1>0, <2>1, <2>2, <3>1 DEF Earlier
    <2> QED
      BY <1>0, <2>1, <2>3
  <1>5. ASSUME NEW r \in Requests, DuplicateKey(r)
        PROVE  Accepts(loaded[s], cmd[s])' /\ Earlier(loaded[s])'
    BY <1>0, <1>5 DEF DuplicateKey, IInv, TypeOK, db, memory, Earlier
  <1>6. ASSUME NEW r \in Requests, Retry(r)
        PROVE  Accepts(loaded[s], cmd[s])' /\ Earlier(loaded[s])'
    BY <1>0, <1>6 DEF Retry, EntryPoint, IInv, TypeOK, db, Earlier
  <1>7. ASSUME NEW r \in Requests, GiveUp(r)
        PROVE  Accepts(loaded[s], cmd[s])' /\ Earlier(loaded[s])'
    BY <1>0, <1>7 DEF GiveUp, IInv, TypeOK, db, memory, Earlier
  <1>8. ASSUME NEW r \in Requests, AppendLedger(r)
        PROVE  Accepts(loaded[s], cmd[s])' /\ Earlier(loaded[s])'
    BY <1>0, <1>8 DEF AppendLedger, IInv, TypeOK, memory, Earlier
  <1>9. ASSUME NEW r \in Requests, Crash(r)
        PROVE  Accepts(loaded[s], cmd[s])' /\ Earlier(loaded[s])'
    BY <1>0, <1>9 DEF Crash, IInv, TypeOK, db, memory, Earlier
  <1>10. CASE UNCHANGED vars
    BY <1>0, <1>10 DEF vars, Earlier
  <1> QED
    BY <1>1, <1>2, <1>3, <1>4, <1>5, <1>6, <1>7, <1>8, <1>9, <1>10 DEF Next, Step

\* The invariant holds in every state of every behaviour.
LEMMA Invariance == Spec => []IInv
  <1>1. Init => IInv
    BY InitType, InitSnapshots DEF IInv
  <1>2. IInv /\ [Next]_vars => IInv'
    BY NextType, NextSnapshots DEF IInv
  <1> QED
    BY <1>1, <1>2, PTL DEF Spec

\* Every variable keeps its type: quantities, reservations and goods in
\* transit never become negative, whatever the requests do and in any order.
THEOREM TypeCorrect == Spec => []TypeOK
  BY Invariance, PTL DEF IInv

\* What a request is about to save was computed from rows that existed, and
\* that are unchanged wherever their version is.
THEOREM SnapshotReads == Spec => []ReadsAreSnapshots
  BY Invariance, PTL DEF IInv
-----------------------------------------------------------------------------
\* A commit finds every row of its command as the request has read it.
LEMMA CommitReadsPresent ==
    ASSUME IInv, NEW r \in Requests, Commit(r), ~cmd[r].repeated, NEW k \in cmd[r].keys
    PROVE  loaded[r][k] = items[k]
  <1>1. /\ loaded[r] \in Tables
        /\ cmd[r] \in Commands
        /\ k \in Keys
    BY CommandType DEF IInv, TypeOK
  <1>2. /\ Accepts(loaded[r], cmd[r])
        /\ Earlier(loaded[r])
    BY DEF IInv, ReadsAreSnapshots, Commit
  <1>3. CASE k \in New(r)
    BY <1>3 DEF Commit, Insertable, New
  <1>4. CASE k \notin New(r)
    <2>1. /\ loaded[r][k] # NoRow
          /\ loaded[r][k] \in Item
      BY <1>1, <1>4 DEF New, Tables
    <2>2. Drafts(loaded[r], cmd[r])[k] = Mutate(cmd[r], k, loaded[r][k])
      BY <1>1, <2>1 DEF Drafts, Base
    <2>3. Mutate(cmd[r], k, loaded[r][k]).version = loaded[r][k].version + 1
      BY <1>1, <1>2, <2>1, MutateItem DEF Base
    <2>4. items[k].version = loaded[r][k].version
      BY <1>4, <2>1, <2>2, <2>3 DEF Commit, UpToDate, Item
    <2> QED
      BY <1>1, <1>2, <2>1, <2>4 DEF Earlier
  <1> QED
    BY <1>3, <1>4

\* What it writes is what the method makes of the present row.
LEMMA CommitApplies ==
    ASSUME IInv, NEW r \in Requests, Commit(r), ~cmd[r].repeated, NEW k \in cmd[r].keys
    PROVE  /\ k \in Keys
           /\ Base(items, k) \in Item
           /\ cmd[r].amount[k] \in Nat
           /\ Permits(cmd[r].method, Base(items, k), cmd[r].amount[k])
           /\ items'[k] = Apply(cmd[r].method, Base(items, k), cmd[r].amount[k])
  <1>1. /\ loaded[r] \in Tables
        /\ cmd[r] \in Commands
        /\ k \in Keys
        /\ cmd[r].amount[k] \in Nat
        /\ Base(items, k) \in Item
    BY CommandType, BaseItem DEF IInv, TypeOK
  <1>2. Base(loaded[r], k) = Base(items, k)
    BY CommitReadsPresent DEF Base
  <1>3. Permits(cmd[r].method, Base(items, k), cmd[r].amount[k])
    BY <1>2 DEF IInv, ReadsAreSnapshots, Commit, Accepts
  <1>4. items'[k] = Drafts(loaded[r], cmd[r])[k]
    BY <1>1 DEF Commit
  <1>5. Drafts(loaded[r], cmd[r])[k]
          = Apply(cmd[r].method, Base(items, k), cmd[r].amount[k])
    BY <1>1, <1>2 DEF Drafts, Mutate, Once
  <1> QED
    BY <1>1, <1>3, <1>4, <1>5

\* The requests that have taken effect: one more with each commit, and no step
\* takes one away.
LEMMA CommitCommits ==
    ASSUME TypeOK, NEW r \in Requests, Commit(r)
    PROVE  r \notin Committed /\ Committed' = Committed \cup {r}
BY DEF TypeOK, Commit, Committed

LEMMA OthersCommitNothing ==
    ASSUME TypeOK, [Next]_vars, ~ \E r \in Requests : Commit(r)
    PROVE  /\ Committed' = Committed
           /\ items' = items
           /\ cmd' = cmd
  <1> USE DEF TypeOK, Committed
  <1>1. ASSUME NEW r \in Requests,
               ValidateCapacity(r) \/ Load(r) \/ Reject(r) \/ DuplicateKey(r)
        PROVE  Committed' = Committed /\ items' = items /\ cmd' = cmd
    BY <1>1 DEF ValidateCapacity, Load, Reject, DuplicateKey, db
  <1>2. ASSUME NEW r \in Requests, Retry(r) \/ GiveUp(r) \/ AppendLedger(r)
        PROVE  Committed' = Committed /\ items' = items /\ cmd' = cmd
    BY <1>2 DEF Retry, GiveUp, AppendLedger, EntryPoint, db
  <1>3. ASSUME NEW r \in Requests, Crash(r)
        PROVE  Committed' = Committed /\ items' = items /\ cmd' = cmd
    BY <1>3 DEF Crash, db
  <1>4. CASE UNCHANGED vars
    BY <1>4 DEF vars
  <1> QED
    BY <1>1, <1>2, <1>3, <1>4 DEF Next, Step

-----------------------------------------------------------------------------
\* The rows that exist at the start have stock for what they have reserved.
StartsCovered ==
    \A k \in Keys : InitialItems[k] # NoRow =>
        InitialItems[k].allocated <= InitialItems[k].quantity + InitialItems[k].inTransit

Covered(i) == i.allocated <= i.quantity + i.inTransit

LEMMA RevisedCovered ==
    \A i, q, a, t : Covered(Revised(i, q, a, t)) <=> a <= q + t
BY DEF Covered, Revised

\* Every method but the two that look at the physical stock alone keeps the
\* reservations covered.
LEMMA ApplyCovered ==
    ASSUME NEW m \in Methods \ {"cancelInTransit", "dispatchStock", "reconcileStock"},
           NEW i \in Item, NEW n \in Nat, Permits(m, i, n), Covered(i)
    PROVE  Covered(Apply(m, i, n))
  <1>1. /\ i.quantity \in Nat /\ i.allocated \in Nat /\ i.inTransit \in Nat
        /\ i.allocated <= i.quantity + i.inTransit
    BY DEF Item, Covered
  <1>2. CASE m = "receiveStock"
    <2>1. i.allocated <= (i.quantity + n) + i.inTransit
      BY <1>1
    <2> QED
      BY <1>2, <2>1, ApplyIs, RevisedCovered
  <1>3. CASE m = "allocateStock"
    <2>1. i.allocated + n <= i.quantity + i.inTransit
      BY <1>1, <1>3 DEF Permits, Available
    <2> QED
      BY <1>3, <2>1, ApplyIs, RevisedCovered
  <1>4. CASE m = "releaseAllocation"
    <2>1. i.allocated - n <= i.quantity + i.inTransit
      BY <1>1
    <2> QED
      BY <1>4, <2>1, ApplyIs, RevisedCovered
  <1>5. CASE m = "fulfillAllocation"
    <2>1. i.allocated - n <= (i.quantity - n) + i.inTransit
      BY <1>1
    <2> QED
      BY <1>5, <2>1, ApplyIs, RevisedCovered
  <1>6. CASE m = "createInTransit"
    <2>1. i.allocated <= i.quantity + (i.inTransit + n)
      BY <1>1
    <2> QED
      BY <1>6, <2>1, ApplyIs, RevisedCovered
  <1>7. CASE m = "receiveInTransit"
    <2>1. i.allocated <= (i.quantity + n) + (i.inTransit - n)
      BY <1>1
    <2> QED
      BY <1>7, <2>1, ApplyIs, RevisedCovered
  <1> QED
    BY <1>2, <1>3, <1>4, <1>5, <1>6, <1>7 DEF Methods

LEMMA CreateNewCovered == Covered(CreateNew)
BY DEF Covered, CreateNew

\* Reservations stay covered by the stock that is there or on its way: a
\* request allocates what it has seen, and a commit that passes the version
\* check has seen what there is.
LEMMA NextCovered ==
    ASSUME IInv, [Next]_vars, AllocationCovered
    PROVE  AllocationCovered'
  <1> DEFINE Blind(r) == cmd[r].method \in {"dispatchStock", "reconcileStock"}
  <1> SUFFICES ASSUME NEW k \in Keys, items'[k] # NoRow,
                      (\A r \in Committed : k \in cmd[r].keys => ~Blind(r))'
               PROVE  Covered(items'[k])
    BY DEF AllocationCovered, Covered
  <1>1. CASE \E r \in Requests : Commit(r)
    <2> PICK r \in Requests : Commit(r)
      BY <1>1
    <2>1. Committed' = Committed \cup {r} /\ cmd' = cmd
      BY CommitCommits DEF IInv, Commit
    <2>2. \A s \in Committed : k \in cmd[s].keys => ~Blind(s)
      BY <2>1
    <2>3. CASE k \in cmd[r].keys
      <3>1. ~Blind(r)
        BY <2>1, <2>3
      <3>2. cmd[r].method \in Methods \ {"cancelInTransit"} /\ ~cmd[r].repeated
        BY <3>1, CommandType DEF IInv, TypeOK
      <3>3. Covered(Base(items, k))
        BY <2>2, CreateNewCovered DEF AllocationCovered, Covered, Base
      <3> QED
        BY <2>3, <3>1, <3>2, <3>3, CommitApplies, ApplyCovered
    <2>4. CASE k \notin cmd[r].keys
      <3>1. items'[k] = items[k]
        BY <2>4 DEF Commit
      <3> QED
        BY <2>2, <3>1 DEF AllocationCovered, Covered
    <2> QED
      BY <2>3, <2>4
  <1>2. CASE ~ \E r \in Requests : Commit(r)
    <2>1. Committed' = Committed /\ items' = items /\ cmd' = cmd
      BY <1>2, OthersCommitNothing DEF IInv
    <2> QED
      BY <2>1 DEF AllocationCovered, Covered
  <1> QED
    BY <1>1, <1>2

\* Reservations never exceed the stock that is there or on its way, for any
\* number of requests and retries, unless a dispatch or a count of the row has
\* taken effect.
THEOREM ReservationsCovered ==
    ASSUME StartsCovered
    PROVE  Spec => []AllocationCovered
  <1>1. Init => AllocationCovered
    BY DEF Init, StartsCovered, AllocationCovered
  <1>2. IInv /\ [Next]_vars /\ AllocationCovered => AllocationCovered'
    BY NextCovered
  <1>3. Spec => []IInv
    BY Invariance
  <1> QED
    BY <1>1, <1>2, <1>3, PTL DEF Spec

-----------------------------------------------------------------------------
\* No command of the clients names a row twice.
NoRepeats == \A c \in Commands : ~c.repeated

\* The operators that the instance brings with it are those of StockCommand.
LEMMA SameOperators ==
    ASSUME NEW table, NEW c
    PROVE  /\ Atomic!Accepts(table, c) <=> Accepts(table, c)
           /\ Atomic!Drafts(table, c) = Drafts(table, c)
           /\ Atomic!Raised(table, c) = Raised(table, c)
  <1>1. \A k : Atomic!Base(table, k) = Base(table, k)
    BY DEF Atomic!Base, Base, Atomic!CreateNew, CreateNew
  <1>2. \A m, i, n : Atomic!Permits(m, i, n) <=> Permits(m, i, n)
    BY DEF Atomic!Permits, Permits, Atomic!Available, Available
  <1>3. \A m, i, n : Atomic!Apply(m, i, n) = Apply(m, i, n)
    BY DEF Atomic!Apply, Apply, Atomic!Revised, Revised,
           Atomic!ReceiveStock, ReceiveStock, Atomic!DispatchStock, DispatchStock,
           Atomic!AllocateStock, AllocateStock,
           Atomic!ReleaseAllocation, ReleaseAllocation,
           Atomic!FulfillAllocation, FulfillAllocation,
           Atomic!CreateInTransit, CreateInTransit,
           Atomic!ReceiveInTransit, ReceiveInTransit,
           Atomic!CancelInTransit, CancelInTransit,
           Atomic!ReconcileStock, ReconcileStock
  <1>4. \A m, k, i, n : Atomic!EventsOf(m, k, i, n) = EventsOf(m, k, i, n)
    BY <1>3 DEF Atomic!EventsOf, EventsOf
  <1>5. \A k, i : Atomic!Mutate(c, k, i) = Mutate(c, k, i)
    BY <1>3 DEF Atomic!Mutate, Mutate, Atomic!Once, Once
  <1>6. \A k, i : Atomic!LineEvents(c, k, i) = LineEvents(c, k, i)
    BY <1>3, <1>4 DEF Atomic!LineEvents, LineEvents, Atomic!Once, Once
  <1>7. Atomic!Accepts(table, c) <=> Accepts(table, c)
    BY <1>1, <1>2 DEF Atomic!Accepts, Accepts, Atomic!Creating, Creating
  <1>8. Atomic!Drafts(table, c) = Drafts(table, c)
    BY <1>1, <1>5 DEF Atomic!Drafts, Drafts
  <1>9. Atomic!Raised(table, c) = Raised(table, c)
    BY <1>1, <1>6 DEF Atomic!Raised, Raised
  <1> QED
    BY <1>7, <1>8, <1>9

\* What a command does depends on the rows it names only.
LEMMA DependsOnKeys ==
    ASSUME NEW c, NEW t, NEW u, \A k \in c.keys : t[k] = u[k]
    PROVE  /\ Accepts(t, c) <=> Accepts(u, c)
           /\ Drafts(t, c) = Drafts(u, c)
           /\ Raised(t, c) = Raised(u, c)
  <1>1. \A k \in c.keys : Base(t, k) = Base(u, k)
    BY DEF Base
  <1>2. Accepts(t, c) <=> Accepts(u, c)
    BY <1>1 DEF Accepts
  <1>3. Drafts(t, c) = Drafts(u, c)
    BY <1>1 DEF Drafts
  <1>4. Raised(t, c) = Raised(u, c)
    BY <1>1 DEF Raised
  <1> QED
    BY <1>2, <1>3, <1>4

\* A commit is the abstract execution of the command.
LEMMA CommitExecutes ==
    ASSUME NoRepeats, IInv, NEW r \in Requests, Commit(r)
    PROVE  Atomic!Execute(r)
  <1>1. \A k \in cmd[r].keys : loaded[r][k] = items[k]
    BY CommitReadsPresent DEF NoRepeats, IInv, TypeOK
  <1>2. /\ Accepts(items, cmd[r])
        /\ Drafts(items, cmd[r]) = Drafts(loaded[r], cmd[r])
        /\ Raised(items, cmd[r]) = Raised(loaded[r], cmd[r])
    BY <1>1, DependsOnKeys DEF Commit, IInv, ReadsAreSnapshots
  <1>3. /\ pc[r] = "save"
        /\ pc' = [pc EXCEPT ![r] = IF InLedger(cmd[r]) THEN "append" ELSE "done"]
        /\ pc \in [Requests -> Labels]
    BY DEF Commit, IInv, TypeOK
  <1>4. outcomeBar[r] = "open"
    BY <1>3 DEF outcomeBar, Committed
  <1>5. outcomeBar' = [outcomeBar EXCEPT ![r] = "applied"]
    BY <1>3 DEF outcomeBar, Committed
  <1>6. /\ items' = [k \in Keys |-> IF k \in cmd[r].keys
                                    THEN Drafts(items, cmd[r])[k]
                                    ELSE items[k]]
        /\ outbox' = outbox \cup Raised(items, cmd[r])
        /\ cmd' = cmd
    BY <1>2 DEF Commit
  <1> QED
    BY <1>2, <1>4, <1>5, <1>6, SameOperators DEF Atomic!Execute

\* A step that leaves the rows and the outbox alone and ends the request
\* without a commit is an abstract refusal.
LEMMA EndRefuses ==
    ASSUME IInv, NEW r \in Requests, NEW l \in {"rejected", "conflict", "crashed"},
           pc[r] \in {"check", "load", "save"}, pc' = [pc EXCEPT ![r] = l],
           UNCHANGED <<items, outbox, cmd>>
    PROVE  Atomic!Refuse(r)
  <1>1. pc \in [Requests -> Labels]
    BY DEF IInv, TypeOK
  <1>2. outcomeBar[r] = "open"
    BY DEF outcomeBar, Committed
  <1>3. outcomeBar' = [outcomeBar EXCEPT ![r] = "refused"]
    BY <1>1 DEF outcomeBar, Committed
  <1> QED
    BY <1>2, <1>3 DEF Atomic!Refuse

\* A step of a request that stays open, or stays committed, is invisible.
LEMMA Stutters ==
    ASSUME IInv, NEW r \in Requests, NEW l,
           \/ pc[r] \in {"check", "load", "save"} /\ l \in {"check", "load", "save"}
           \/ pc[r] = "append" /\ l \in {"done", "halted"},
           pc' = [pc EXCEPT ![r] = l], UNCHANGED <<items, outbox, cmd>>
    PROVE  UNCHANGED Atomic!vars
  <1>1. pc \in [Requests -> Labels]
    BY DEF IInv, TypeOK
  <1>2. outcomeBar' = outcomeBar
    BY <1>1 DEF outcomeBar, Committed
  <1> QED
    BY <1>2 DEF Atomic!vars

\* Every step of the calls is a step of the atomic specification or a stutter.
LEMMA StepSimulation ==
    ASSUME NoRepeats, IInv, [Next]_vars
    PROVE  [Atomic!Next]_(Atomic!vars)
  <1> USE DEF IInv, TypeOK
  <1>0. \A c : EntryPoint(c) \in {"check", "load"}
    BY DEF EntryPoint
  <1>1. ASSUME NEW r \in Requests, ValidateCapacity(r)
        PROVE  Atomic!Refuse(r) \/ UNCHANGED Atomic!vars
    <2>1. CASE Fits(cmd[r])
      BY <1>1, <2>1, Stutters DEF ValidateCapacity, db
    <2>2. CASE ~Fits(cmd[r])
      BY <1>1, <2>2, EndRefuses DEF ValidateCapacity, db
    <2> QED
      BY <2>1, <2>2
  <1>2. ASSUME NEW r \in Requests, Load(r)
        PROVE  UNCHANGED Atomic!vars
    BY <1>2, Stutters DEF Load, db
  <1>3. ASSUME NEW r \in Requests, Reject(r)
        PROVE  Atomic!Refuse(r)
    BY <1>3, EndRefuses DEF Reject, db
  <1>4. ASSUME NEW r \in Requests, Commit(r)
        PROVE  Atomic!Execute(r)
    BY <1>4, CommitExecutes
  <1>5. ASSUME NEW r \in Requests, DuplicateKey(r)
        PROVE  Atomic!Refuse(r)
    BY <1>5, EndRefuses DEF DuplicateKey, db
  <1>6. ASSUME NEW r \in Requests, Retry(r)
        PROVE  UNCHANGED Atomic!vars
    BY <1>0, <1>6, Stutters DEF Retry, db
  <1>7. ASSUME NEW r \in Requests, GiveUp(r)
        PROVE  Atomic!Refuse(r)
    BY <1>7, EndRefuses DEF GiveUp, db
  <1>8. ASSUME NEW r \in Requests, AppendLedger(r)
        PROVE  UNCHANGED Atomic!vars
    BY <1>8, Stutters DEF AppendLedger
  <1>9. ASSUME NEW r \in Requests, Crash(r)
        PROVE  Atomic!Refuse(r) \/ UNCHANGED Atomic!vars
    <2>1. CASE pc[r] = "append"
      BY <1>9, <2>1, Stutters DEF Crash, db
    <2>2. CASE pc[r] # "append"
      BY <1>9, <2>2, EndRefuses DEF Crash, db
    <2> QED
      BY <2>1, <2>2
  <1>10. CASE UNCHANGED vars
    <2>1. UNCHANGED outcomeBar
      BY <1>10 DEF vars, outcomeBar, Committed
    <2> QED
      BY <1>10, <2>1 DEF vars, Atomic!vars
  <1> QED
    BY <1>1, <1>2, <1>3, <1>4, <1>5, <1>6, <1>7, <1>8, <1>9, <1>10
       DEF Next, Step, Atomic!Next

\* The initial states are initial states of the atomic specification.
LEMMA InitSimulation == Init => Atomic!Init
  <1> SUFFICES ASSUME Init PROVE Atomic!Init
    OBVIOUS
  <1>1. \A r \in Requests : pc[r] \in {"check", "load"}
    BY DEF Init, EntryPoint
  <1>2. outcomeBar = [r \in Requests |-> "open"]
    BY <1>1 DEF outcomeBar, Committed
  <1> QED
    BY <1>2 DEF Init, Atomic!Init

\* The mutations implement the atomic specification, for every number of
\* requests, rows and retries: no lost update, no effect of a failed attempt,
\* no event without its change and no change without its event.
THEOREM Implementation ==
    ASSUME NoRepeats
    PROVE  Spec => Implements
  <1>1. Init => Atomic!Init
    BY InitSimulation
  <1>2. IInv /\ [Next]_vars => [Atomic!Next]_(Atomic!vars)
    BY StepSimulation
  <1>3. Spec => []IInv
    BY Invariance
  <1> QED
    BY <1>1, <1>2, <1>3, PTL DEF Spec, Implements, Atomic!Spec

-----------------------------------------------------------------------------
\* Only finitely many requests have taken effect: none at first, one more with
\* each commit.  There may be any number of requests.
FinitelyMany == IsFiniteSet(Committed)

LEMMA NextFinite ==
    ASSUME IInv, [Next]_vars, FinitelyMany
    PROVE  FinitelyMany'
  <1>1. CASE \E r \in Requests : Commit(r)
    BY <1>1, CommitCommits, FS_AddElement DEF IInv, FinitelyMany
  <1>2. CASE ~ \E r \in Requests : Commit(r)
    BY <1>2, OthersCommitNothing DEF IInv, FinitelyMany
  <1> QED
    BY <1>1, <1>2

LEMMA InitNobody == Init => Committed = {}
BY DEF Init, Committed, EntryPoint

\* Some row of the command has changed since the request has read it.
OutOfDate(r) ==
    \E k \in cmd[r].keys :
        loaded[r][k] # NoRow /\ items[k].version # loaded[r][k].version

\* A conflict a request has met, and the one it is about to meet, is charged to
\* a request of its own that has committed a change of a common row.
Charged(r) ==
    /\ Conflicts(r) <= Cardinality(Foreign(r))
    /\ pc[r] = "save" /\ OutOfDate(r) => attempts[r] < Cardinality(Foreign(r))

ConflictInv == FinitelyMany /\ \A r \in Requests : Charged(r)

LEMMA ForeignFinite ==
    ASSUME FinitelyMany, NEW r
    PROVE  IsFiniteSet(Foreign(r)) /\ Cardinality(Foreign(r)) \in Nat
BY FS_Subset, FS_CardinalityType DEF FinitelyMany, Foreign

\* The version check fails only for a row that has changed.
LEMMA ConflictOutOfDate ==
    ASSUME NoRepeats, IInv, NEW r \in Requests, pc[r] = "save", ~UpToDate(r)
    PROVE  OutOfDate(r)
  <1>1. PICK k \in cmd[r].keys \ New(r) :
            items[k].version # Drafts(loaded[r], cmd[r])[k].version - 1
    BY DEF UpToDate
  <1>2. /\ loaded[r] \in Tables
        /\ cmd[r] \in Commands
        /\ ~cmd[r].repeated
        /\ k \in Keys
        /\ Accepts(loaded[r], cmd[r])
        /\ loaded[r][k] # NoRow
    BY CommandType DEF IInv, TypeOK, NoRepeats, ReadsAreSnapshots, New
  <1>3. loaded[r][k] \in Item /\ Base(loaded[r], k) = loaded[r][k]
    BY <1>2 DEF Tables, Base
  <1>4. Drafts(loaded[r], cmd[r])[k].version = loaded[r][k].version + 1
    BY <1>2, <1>3, MutateItem DEF Drafts
  <1>5. loaded[r][k].version \in Nat
    BY <1>3 DEF Item
  <1> QED
    BY <1>1, <1>2, <1>4, <1>5 DEF OutOfDate

\* A commit charges its own request nothing, and leaves room for one more
\* conflict of every request it has overtaken.
LEMMA CommitCharges ==
    ASSUME IInv, ConflictInv, NEW s \in Requests, Commit(s), NEW r \in Requests
    PROVE  Charged(r)'
  <1>1. /\ Committed' = Committed \cup {s} /\ s \notin Committed
        /\ cmd' = cmd /\ attempts' = attempts /\ loaded' = loaded
        /\ pc[s] = "save" /\ pc'[s] \in {"append", "done"}
        /\ attempts[r] \in Nat
    <2>1. Committed' = Committed \cup {s} /\ s \notin Committed
      BY CommitCommits DEF IInv
    <2>2. attempts[r] \in Nat
      BY RetriesAssumption DEF IInv, TypeOK
    <2> QED
      BY <2>1, <2>2 DEF IInv, TypeOK, Commit, memory
  <1>2. Charged(r) /\ IsFiniteSet(Foreign(r)) /\ Cardinality(Foreign(r)) \in Nat
    BY ForeignFinite DEF ConflictInv
  <1>3. CASE r = s
    <2>1. Foreign(r)' = Foreign(r)
      BY <1>1, <1>3 DEF Foreign
    <2> QED
      BY <1>1, <1>2, <1>3, <2>1 DEF Charged, Conflicts
  <1>4. CASE r # s
    <2>1. pc'[r] = pc[r] /\ Conflicts(r)' = Conflicts(r)
      BY <1>1, <1>4 DEF IInv, TypeOK, Commit, Conflicts
    <2>2. CASE cmd[s].keys \cap cmd[r].keys # {}
      <3>1. Foreign(r)' = Foreign(r) \cup {s} /\ s \notin Foreign(r)
        BY <1>1, <1>4, <2>2 DEF Foreign
      <3>2. Cardinality(Foreign(r)') = Cardinality(Foreign(r)) + 1
        BY <1>2, <3>1, FS_AddElement
      <3>3. pc[r] = "save" => Conflicts(r) = attempts[r]
        BY <1>1 DEF Conflicts
      <3>4. Conflicts(r) \in Nat
        BY <1>1 DEF Conflicts
      <3> QED
        BY <1>1, <1>2, <2>1, <3>2, <3>3, <3>4 DEF Charged
    <2>3. CASE cmd[s].keys \cap cmd[r].keys = {}
      <3>1. Foreign(r)' = Foreign(r)
        BY <1>1, <2>3 DEF Foreign
      <3>2. \A k \in cmd[r].keys : items'[k] = items[k]
        BY <2>3, CommandType DEF IInv, TypeOK, Commit
      <3>3. OutOfDate(r)' <=> OutOfDate(r)
        BY <1>1, <3>2 DEF OutOfDate
      <3> QED
        BY <1>1, <1>2, <2>1, <3>1, <3>3 DEF Charged
    <2> QED
      BY <2>2, <2>3
  <1> QED
    BY <1>3, <1>4

\* A step without a commit meets at most the conflict that is charged already.
LEMMA OthersCharge ==
    ASSUME NoRepeats, IInv, [Next]_vars, ConflictInv,
           ~ \E s \in Requests : Commit(s), NEW r \in Requests
    PROVE  Charged(r)'
  <1>1. Committed' = Committed /\ items' = items /\ cmd' = cmd
    BY OthersCommitNothing DEF IInv
  <1>2. Foreign(r)' = Foreign(r)
    BY <1>1 DEF Foreign
  <1>3. /\ Charged(r)
        /\ Cardinality(Foreign(r)) \in Nat
        /\ attempts[r] \in Nat
    BY ForeignFinite, RetriesAssumption DEF ConflictInv, IInv, TypeOK
  <1>4. ASSUME pc'[r] = pc[r], attempts'[r] = attempts[r], loaded'[r] = loaded[r]
        PROVE  Charged(r)'
    BY <1>1, <1>2, <1>3, <1>4 DEF Charged, Conflicts, OutOfDate
  <1>5. ASSUME pc'[r] \notin {"save", "conflict"}, attempts'[r] = attempts[r]
        PROVE  Charged(r)'
    <2>1. Conflicts(r)' = attempts[r] /\ attempts[r] <= Conflicts(r)
      BY <1>3, <1>5 DEF Conflicts
    <2> QED
      BY <1>2, <1>3, <1>5, <2>1 DEF Charged, Conflicts
  <1> USE DEF IInv, TypeOK
  <1>6. ASSUME NEW s \in Requests, ValidateCapacity(s) \/ Reject(s) \/ DuplicateKey(s)
        PROVE  Charged(r)'
    BY <1>4, <1>5, <1>6 DEF ValidateCapacity, Reject, DuplicateKey, memory
  <1>7. ASSUME NEW s \in Requests, AppendLedger(s) \/ Crash(s)
        PROVE  Charged(r)'
    BY <1>4, <1>5, <1>7 DEF AppendLedger, Crash, memory
  <1>8. ASSUME NEW s \in Requests, Load(s)
        PROVE  Charged(r)'
    <2>1. CASE r = s
      <3>1. \A k \in cmd[r].keys : loaded'[r][k] = items[k]
        BY <1>8, <2>1, CommandType DEF Load
      <3>2. ~OutOfDate(r)'
        BY <1>1, <3>1 DEF OutOfDate
      <3>3. Conflicts(r)' = Conflicts(r)
        BY <1>8, <2>1 DEF Load, Conflicts
      <3> QED
        BY <1>2, <1>3, <3>2, <3>3 DEF Charged
    <2>2. CASE r # s
      BY <1>4, <1>8, <2>2 DEF Load
    <2> QED
      BY <2>1, <2>2
  <1>9. ASSUME NEW s \in Requests, Retry(s) \/ GiveUp(s)
        PROVE  Charged(r)'
    <2>1. CASE r = s
      <3>1. attempts[r] < Cardinality(Foreign(r))
        BY <1>3, <1>9, <2>1, ConflictOutOfDate DEF Retry, GiveUp, Charged
      <3>2. Conflicts(r)' = attempts[r] + 1 /\ pc'[r] # "save"
        BY <1>3, <1>9, <2>1 DEF Retry, GiveUp, memory, EntryPoint, Conflicts
      <3> QED
        BY <1>2, <1>3, <3>1, <3>2 DEF Charged
    <2>2. CASE r # s
      BY <1>4, <1>9, <2>2 DEF Retry, GiveUp, memory
    <2> QED
      BY <2>1, <2>2
  <1>10. CASE UNCHANGED vars
    BY <1>4, <1>10 DEF vars
  <1> QED
    BY <1>6, <1>7, <1>8, <1>9, <1>10 DEF Next, Step

LEMMA InitCharged == Init => ConflictInv
  <1> SUFFICES ASSUME Init PROVE ConflictInv
    OBVIOUS
  <1>1. Committed = {}
    BY InitNobody
  <1>2. ASSUME NEW r \in Requests PROVE Charged(r)
    <2>1. Foreign(r) = {} /\ Cardinality(Foreign(r)) = 0
      BY <1>1, FS_EmptySet DEF Foreign
    <2>2. attempts[r] = 0 /\ pc[r] \notin {"save", "conflict"}
      BY DEF Init, EntryPoint
    <2> QED
      BY <2>1, <2>2 DEF Charged, Conflicts
  <1> QED
    BY <1>1, <1>2, FS_EmptySet DEF ConflictInv, FinitelyMany

\* Every conflict is the work of another request that has committed a change of
\* a common row, a different one each time: a request that is retried, or gives
\* up, does so because others have made progress.
THEOREM ConflictsForeign ==
    ASSUME NoRepeats
    PROVE  Spec => []ConflictsAreForeign
  <1>1. Init => ConflictInv
    BY InitCharged
  <1>2. IInv /\ [Next]_vars /\ ConflictInv => ConflictInv'
    BY NextFinite, CommitCharges, OthersCharge DEF ConflictInv
  <1>3. ConflictInv => ConflictsAreForeign
    BY DEF ConflictInv, Charged, ConflictsAreForeign
  <1>4. Spec => []IInv
    BY Invariance
  <1> QED
    BY <1>1, <1>2, <1>3, <1>4, PTL DEF Spec

-----------------------------------------------------------------------------
Movement(k) == [r \in Requests |-> Moved(cmd[r], k)]

\* Only calls that record their movement are about to.
Appending == \A r \in Requests : pc[r] = "append" => InLedger(cmd[r])

LedgerInv == FinitelyMany /\ Appending /\ LedgerAgrees

LEMMA MovedType ==
    ASSUME NEW c \in Commands, NEW k \in Keys
    PROVE  Moved(c, k) \in Int
BY CommandType DEF Moved

LEMMA MovementSummable ==
    ASSUME TypeOK, FinitelyMany, NEW k \in Keys
    PROVE  Summable(Movement(k), Unrecorded(k))
  <1>1. IsFiniteSet(Unrecorded(k))
    BY FS_Subset DEF FinitelyMany, Unrecorded, Calls
  <1>2. \A r \in Unrecorded(k) : Movement(k)[r] \in Int
    BY MovedType DEF TypeOK, Movement, Unrecorded, Calls, Committed
  <1> QED
    BY <1>1, <1>2 DEF Summable

LEMMA RevisedQuantity == \A i, q, a, t : Revised(i, q, a, t).quantity = q
BY DEF Revised

\* A method moves as many pieces as the ledger should tell.
LEMMA QuantityMoved ==
    ASSUME NEW c \in Commands, NEW k \in Keys, NEW i \in Item,
           c.method # "reconcileStock"
    PROVE  Apply(c.method, i, c.amount[k]).quantity = i.quantity + Moved(c, k)
  <1>1. /\ c.method \in Methods \ {"cancelInTransit", "reconcileStock"}
        /\ c.amount[k] \in Nat
        /\ i.quantity \in Nat
    BY CommandType DEF Item
  <1>2. CASE c.method \in {"receiveStock", "receiveInTransit"}
    <2>1. Moved(c, k) = c.amount[k]
      BY <1>2 DEF Moved
    <2>2. Apply(c.method, i, c.amount[k]).quantity = i.quantity + c.amount[k]
      BY <1>2, ApplyIs, RevisedQuantity
    <2> QED
      BY <2>1, <2>2
  <1>3. CASE c.method \in {"dispatchStock", "fulfillAllocation"}
    <2>1. Moved(c, k) = -c.amount[k]
      BY <1>3 DEF Moved
    <2>2. Apply(c.method, i, c.amount[k]).quantity = i.quantity - c.amount[k]
      BY <1>3, ApplyIs, RevisedQuantity
    <2> QED
      BY <1>1, <2>1, <2>2
  <1>4. CASE c.method \in {"allocateStock", "releaseAllocation", "createInTransit"}
    <2>1. Moved(c, k) = 0
      BY <1>4 DEF Moved
    <2>2. Apply(c.method, i, c.amount[k]).quantity = i.quantity
      BY <1>4, ApplyIs, RevisedQuantity
    <2> QED
      BY <1>1, <2>1, <2>2
  <1> QED
    BY <1>1, <1>2, <1>3, <1>4 DEF Methods

LEMMA OnHandIs ==
    ASSUME TypeOK, NEW k \in Keys
    PROVE  OnHand(k) = Base(items, k).quantity /\ OnHand(k) \in Int
BY DEF TypeOK, OnHand, Base, CreateNew, Tables, Item

\* A commit that is no count moves what its command says, and is not recorded
\* yet, if ever.
LEMMA CommitMoves ==
    ASSUME IInv, LedgerInv, NEW r \in Requests, Commit(r), NEW k \in Catalogued,
           (\A s \in Calls(k) : cmd[s].method # "reconcileStock")'
    PROVE  (OnHand(k) - ledger[k] = SumFunctionOnSet(Movement(k), Unrecorded(k)))'
  <1> k \in Keys
    BY CataloguedAssumption
  <1>0. TypeOK /\ FinitelyMany /\ TypeOK' /\ FinitelyMany'
    <2>1. [Next]_vars
      BY DEF Next, Step
    <2> QED
      BY <2>1, NextType, NextFinite DEF IInv, LedgerInv
  <1>1. /\ Committed' = Committed \cup {r} /\ r \notin Committed
        /\ cmd' = cmd /\ ledger' = ledger /\ ledger[k] \in Int
        /\ Movement(k)' = Movement(k)
    <2>1. Committed' = Committed \cup {r} /\ r \notin Committed
      BY <1>0, CommitCommits
    <2>2. cmd' = cmd /\ ledger' = ledger
      BY DEF Commit
    <2> QED
      BY <1>0, <2>1, <2>2 DEF TypeOK, Movement
  <1>2. OnHand(k) - ledger[k] = SumFunctionOnSet(Movement(k), Unrecorded(k))
    BY <1>1 DEF LedgerInv, LedgerAgrees, Calls, Movement
  <1>3. CASE k \in cmd[r].keys
    <2>1. cmd[r] \in Commands /\ cmd[r].method # "reconcileStock" /\ ~cmd[r].repeated
      BY <1>0, <1>1, <1>3, CommandType DEF TypeOK, Calls
    <2>2. OnHand(k)' = OnHand(k) + Moved(cmd[r], k)
      <3>1. /\ Base(items, k) \in Item
            /\ items'[k] = Apply(cmd[r].method, Base(items, k), cmd[r].amount[k])
        BY <1>3, <2>1, CommitApplies
      <3>2. items'[k].quantity = Base(items, k).quantity + Moved(cmd[r], k)
        BY <2>1, <3>1, QuantityMoved
      <3>3. items'[k] # NoRow
        BY <1>3, CommitRaises, NoRowAssumption
      <3> QED
        BY <1>0, <3>2, <3>3, OnHandIs DEF OnHand
    <2>3. Unrecorded(k)' = Unrecorded(k) \cup {r} /\ r \notin Unrecorded(k)
      BY <1>0, <1>1, <1>3 DEF Unrecorded, Calls, Commit, Committed, TypeOK
    <2>4. Summable(Movement(k), Unrecorded(k) \cup {r})
      <3>1. IsFiniteSet(Unrecorded(k) \cup {r})
        BY <1>0, MovementSummable, FS_AddElement DEF Summable
      <3>2. Movement(k)[r] \in Int
        BY <2>1, MovedType DEF Movement
      <3> QED
        BY <1>0, <3>1, <3>2, MovementSummable DEF Summable
    <2>5. SumFunctionOnSet(Movement(k), Unrecorded(k) \cup {r})
            = SumFunctionOnSet(Movement(k), Unrecorded(k)) + Moved(cmd[r], k)
      BY <2>3, <2>4, SumAddElement DEF Movement
    <2>6. OnHand(k) \in Int /\ Moved(cmd[r], k) \in Int
      BY <1>0, <2>1, OnHandIs, MovedType
    <2> QED
      BY <1>1, <1>2, <2>2, <2>3, <2>5, <2>6
  <1>4. CASE k \notin cmd[r].keys
    <2>1. OnHand(k)' = OnHand(k)
      BY <1>4 DEF Commit, OnHand
    <2>2. Unrecorded(k)' = Unrecorded(k)
      BY <1>0, <1>1, <1>4 DEF Unrecorded, Calls, Commit, Committed, TypeOK
    <2> QED
      BY <1>1, <1>2, <2>1, <2>2
  <1> QED
    BY <1>3, <1>4

\* Appending to the ledger records one call.
LEMMA AppendRecords ==
    ASSUME IInv, LedgerInv, NEW r \in Requests, AppendLedger(r), NEW k \in Catalogued,
           (\A s \in Calls(k) : cmd[s].method # "reconcileStock")'
    PROVE  (OnHand(k) - ledger[k] = SumFunctionOnSet(Movement(k), Unrecorded(k)))'
  <1> k \in Keys
    BY CataloguedAssumption
  <1> USE DEF IInv, LedgerInv
  <1>1. /\ Committed' = Committed /\ r \in Committed
        /\ cmd' = cmd /\ items' = items
        /\ Movement(k)' = Movement(k)
    BY DEF AppendLedger, Committed, TypeOK, Movement
  <1>2. OnHand(k) - ledger[k] = SumFunctionOnSet(Movement(k), Unrecorded(k))
    BY <1>1 DEF LedgerAgrees, Calls, Movement
  <1>3. OnHand(k)' = OnHand(k) /\ OnHand(k) \in Int /\ ledger[k] \in Int
    BY <1>1, OnHandIs DEF OnHand, TypeOK
  <1>4. ledger'[k] = ledger[k] + LedgerDelta(cmd[r], k)
    BY DEF AppendLedger
  <1>5. CASE k \in cmd[r].keys
    <2>1. InLedger(cmd[r]) /\ cmd[r] \in Commands
      BY DEF Appending, AppendLedger, TypeOK
    <2>2. LedgerDelta(cmd[r], k) = Moved(cmd[r], k)
      BY <1>5, <2>1 DEF LedgerDelta, Moved, InLedger
    <2>3. Unrecorded(k)' = Unrecorded(k) \ {r} /\ r \in Unrecorded(k)
      BY <1>1, <1>5, <2>1 DEF Unrecorded, Calls, AppendLedger, TypeOK, Committed
    <2>4. Summable(Movement(k), Unrecorded(k)) /\ Summable(Movement(k), Unrecorded(k) \ {r})
      BY MovementSummable, FS_RemoveElement DEF Summable
    <2>5. SumFunctionOnSet(Movement(k), Unrecorded(k))
            = Moved(cmd[r], k) + SumFunctionOnSet(Movement(k), Unrecorded(k) \ {r})
      BY <2>3, <2>4, SumTakeOut DEF Movement
    <2>6. /\ SumFunctionOnSet(Movement(k), Unrecorded(k) \ {r}) \in Int
          /\ Moved(cmd[r], k) \in Int
      BY <2>1, <2>4, SumType, MovedType
    <2> QED
      BY <1>1, <1>2, <1>3, <1>4, <2>2, <2>3, <2>5, <2>6
  <1>6. CASE k \notin cmd[r].keys
    <2>1. Unrecorded(k)' = Unrecorded(k)
      BY <1>1, <1>6 DEF Unrecorded, Calls, AppendLedger, TypeOK
    <2>2. ledger'[k] = ledger[k]
      BY <1>3, <1>4, <1>6 DEF LedgerDelta
    <2> QED
      BY <1>1, <1>2, <1>3, <2>1, <2>2
  <1> QED
    BY <1>5, <1>6

\* No other step touches stock, ledger, or what is recorded.
LEMMA OthersRecordNothing ==
    ASSUME IInv, [Next]_vars,
           ~ \E r \in Requests : Commit(r) \/ AppendLedger(r), NEW k \in Catalogued
    PROVE  UNCHANGED <<items, ledger, Calls(k), Unrecorded(k), Movement(k)>>
  <1>1. Committed' = Committed /\ items' = items /\ cmd' = cmd
    BY OthersCommitNothing DEF IInv
  <1>2. UNCHANGED <<Calls(k), Movement(k)>>
    BY <1>1 DEF Calls, Movement
  <1>3. ledger' = ledger /\ \A r \in Committed : pc'[r] # "done" <=> pc[r] # "done"
    <2> USE DEF IInv, TypeOK, Committed
    <2>1. ASSUME NEW r \in Requests,
                 ValidateCapacity(r) \/ Load(r) \/ Reject(r) \/ DuplicateKey(r)
          PROVE  ledger' = ledger /\ \A s \in Committed : pc'[s] # "done" <=> pc[s] # "done"
      BY <2>1 DEF ValidateCapacity, Load, Reject, DuplicateKey, db
    <2>2. ASSUME NEW r \in Requests, Retry(r) \/ GiveUp(r) \/ Crash(r)
          PROVE  ledger' = ledger /\ \A s \in Committed : pc'[s] # "done" <=> pc[s] # "done"
      BY <2>2 DEF Retry, GiveUp, Crash, db
    <2>3. CASE UNCHANGED vars
      BY <2>3 DEF vars
    <2> QED
      BY <2>1, <2>2, <2>3 DEF Next, Step
  <1>4. Unrecorded(k)' = Unrecorded(k)
    BY <1>1, <1>2, <1>3 DEF Unrecorded, Calls
  <1> QED
    BY <1>1, <1>2, <1>3, <1>4

LEMMA NextAppending ==
    ASSUME IInv, [Next]_vars, Appending
    PROVE  Appending'
  <1> USE DEF IInv, TypeOK, Appending
  <1>1. ASSUME NEW r \in Requests,
               ValidateCapacity(r) \/ Load(r) \/ Reject(r) \/ DuplicateKey(r)
        PROVE  Appending'
    BY <1>1 DEF ValidateCapacity, Load, Reject, DuplicateKey
  <1>2. ASSUME NEW r \in Requests, Retry(r) \/ GiveUp(r) \/ AppendLedger(r) \/ Crash(r)
        PROVE  Appending'
    BY <1>2 DEF Retry, GiveUp, AppendLedger, Crash, EntryPoint
  <1>3. ASSUME NEW r \in Requests, Commit(r)
        PROVE  Appending'
    BY <1>3 DEF Commit
  <1>4. CASE UNCHANGED vars
    BY <1>4 DEF vars
  <1> QED
    BY <1>1, <1>2, <1>3, <1>4 DEF Next, Step

LEMMA NextLedger ==
    ASSUME IInv, [Next]_vars, LedgerInv
    PROVE  LedgerInv'
  <1>1. FinitelyMany' /\ Appending'
    BY NextFinite, NextAppending DEF LedgerInv
  <1>2. ASSUME NEW k \in Catalogued,
               (\A s \in Calls(k) : cmd[s].method # "reconcileStock")'
        PROVE  (OnHand(k) - ledger[k] = SumFunctionOnSet(Movement(k), Unrecorded(k)))'
    <2>1. CASE \E r \in Requests : Commit(r)
      BY <1>2, <2>1, CommitMoves
    <2>2. CASE \E r \in Requests : AppendLedger(r)
      BY <1>2, <2>2, AppendRecords
    <2>3. CASE ~ \E r \in Requests : Commit(r) \/ AppendLedger(r)
      <3>1. UNCHANGED <<items, ledger, Calls(k), Unrecorded(k), Movement(k), cmd>>
        BY <2>3, OthersRecordNothing, OthersCommitNothing DEF IInv
      <3> QED
        BY <1>2, <3>1 DEF LedgerInv, LedgerAgrees, OnHand, Movement
    <2> QED
      BY <2>1, <2>2, <2>3
  <1> QED
    BY <1>1, <1>2 DEF LedgerInv, LedgerAgrees, Movement

LEMMA InitLedger == Init => LedgerInv
  <1> SUFFICES ASSUME Init PROVE LedgerInv
    OBVIOUS
  <1>1. Committed = {} /\ FinitelyMany
    BY InitNobody, FS_EmptySet DEF FinitelyMany
  <1>2. Appending
    BY DEF Init, EntryPoint, Appending
  <1>3. ASSUME NEW k \in Catalogued
        PROVE  OnHand(k) - ledger[k] = SumFunctionOnSet(Movement(k), Unrecorded(k))
    <2> k \in Keys
      BY CataloguedAssumption
    <2>1. Unrecorded(k) = {}
      BY <1>1 DEF Unrecorded, Calls
    <2>2. ledger[k] = OnHand(k) /\ OnHand(k) \in Int
      BY InitType, OnHandIs DEF Init
    <2> QED
      BY <2>1, <2>2, SumEmpty
  <1> QED
    BY <1>1, <1>2, <1>3 DEF LedgerInv, LedgerAgrees, Movement

\* What the ledger of a row of the catalogue lacks is, to the piece, what the
\* calls have moved that record nothing or have not recorded yet, for any number
\* of requests, retries and crashes, unless a count of the row has taken effect.
THEOREM LedgerComplete == Spec => []LedgerAgrees
  <1>1. Init => LedgerInv
    BY InitLedger
  <1>2. IInv /\ [Next]_vars /\ LedgerInv => LedgerInv'
    BY NextLedger
  <1>3. LedgerInv => LedgerAgrees
    BY DEF LedgerInv
  <1>4. Spec => []IInv
    BY Invariance
  <1> QED
    BY <1>1, <1>2, <1>3, <1>4, PTL DEF Spec

=============================================================================
