------------------------- MODULE InventoryCommands -------------------------
(***************************************************************************)
(* The stock mutations as they run: each request is an asynchronous call   *)
(* of a use case wrapped by AutoRetryDecorator, with a database round trip *)
(* at every await.  Between the round trips other requests, of this or of  *)
(* another server process, read and write the same rows; the version       *)
(* column is what keeps them apart.  After receiveStock and dispatchStock  *)
(* the resolver appends the movement to the stock ledger, in a separate    *)
(* write, if a variant of the catalogue has the SKU, and returns without a *)
(* word if none has; the same use cases run by a barcode scan              *)
(* (ManageBarcodes.ts) append nothing.  A process may stop between any two *)
(* steps.                                                                  *)
(*                                                                         *)
(* No approval workflow is active for inventory counts here: a count that  *)
(* one intercepts ends before it saves anything (see Approvals).           *)
(***************************************************************************)
EXTENDS StockCommand, FiniteSets, FiniteSetsExt

CONSTANTS Requests,      \* calls of the mutations, each made once
          MaxRetries,    \* maxRetries of AutoRetryDecorator, 3 in the code
          Locations,
          LocationOf,    \* the location of each key
          Capacity,      \* what fits in each location (unit weight per item)
          Catalogued,    \* the keys whose SKU a variant of the catalogue has
          InitialItems   \* the rows that exist at the start

ASSUME RetriesAssumption == MaxRetries \in Nat
ASSUME InitialAssumption == InitialItems \in Tables
ASSUME CataloguedAssumption == Catalogued \subseteq Keys
ASSUME LocationAssumption ==
    /\ LocationOf \in [Keys -> Locations]
    /\ Capacity \in [Locations -> Nat]

VARIABLES
    items,      \* the table inventory_items
    outbox,     \* the rows of outbox_events, written with the items
    ledger,     \* the sum of the ledger entries of each key
    cmd,        \* the command of each request
    pc,         \* where each request is
    attempts,   \* the decorator's counter
    loaded      \* the rows each request has read; the items it then holds in
                \* memory and their events are computed from these

db == <<items, outbox, ledger>>
memory == <<attempts, loaded>>
vars == <<items, outbox, ledger, cmd, pc, attempts, loaded>>

\* The use cases constructed with the capacity service check it first.
CapacityChecked == {"receiveStock", "reconcileStock"}

EntryPoint(c) == IF c.method \in CapacityChecked THEN "check" ELSE "load"

\* Mutant of LedgerDelta: a dispatch is recorded like a receipt.
LedgerDeltaUnsigned(c, k) == IF k \in c.keys \cap Catalogued THEN c.amount[k] ELSE 0

\* The movements that the resolvers record in the ledger, with their sign: an
\* entry names a variant, and a SKU that has none gets no entry.
LedgerDelta(c, k) ==
    IF k \notin c.keys \cap Catalogued THEN 0
    ELSE CASE c.method = "receiveStock"  -> c.amount[k]
           [] c.method = "dispatchStock" -> -c.amount[k]
           [] OTHER -> 0

InLedger(c) == c.method \in {"receiveStock", "dispatchStock"} /\ ~c.scanned

OnHand(k) == IF items[k] = NoRow THEN 0 ELSE items[k].quantity

NothingLoaded == [k \in Keys |-> NoRow]

Init ==
    /\ items = InitialItems
    /\ outbox = {}
    /\ ledger = [k \in Keys |-> IF k \in Catalogued THEN OnHand(k) ELSE 0]
    /\ cmd \in [Requests -> Commands]
    /\ pc = [r \in Requests |-> EntryPoint(cmd[r])]
    /\ attempts = [r \in Requests |-> 0]
    /\ loaded = [r \in Requests |-> NothingLoaded]

-----------------------------------------------------------------------------
\* WMSCapacityService.validateCapacity: the quantities of a location as the
\* request would leave them, read before and apart from the item itself.
Prospective(c, k) ==
    IF k \notin c.keys THEN OnHand(k)
    ELSE IF c.method = "reconcileStock" THEN c.amount[k]
    ELSE OnHand(k) + c.amount[k]

Fits(c) ==
    \A loc \in {LocationOf[k] : k \in c.keys} :
        LET Here == {k \in Keys : LocationOf[k] = loc}
        IN  MapThenSumSet(LAMBDA k : Prospective(c, k), Here) <= Capacity[loc]

ValidateCapacity(r) ==
    /\ pc[r] = "check"
    /\ pc' = [pc EXCEPT ![r] = IF Fits(cmd[r]) THEN "load" ELSE "rejected"]
    /\ UNCHANGED <<db, cmd, memory>>

\* Read the rows, create items (with ids of their own) for missing ones, call
\* the method on each.
Load(r) ==
    /\ pc[r] = "load"
    /\ Accepts(items, cmd[r])
    /\ loaded' = [loaded EXCEPT ![r] =
                      [k \in Keys |-> IF k \in cmd[r].keys THEN items[k] ELSE NoRow]]
    /\ pc' = [pc EXCEPT ![r] = "save"]
    /\ UNCHANGED <<db, cmd, attempts>>

\* The row is missing or the method throws: no error the decorator retries.
Reject(r) ==
    /\ pc[r] = "load"
    /\ ~Accepts(items, cmd[r])
    /\ pc' = [pc EXCEPT ![r] = "rejected"]
    /\ UNCHANGED <<db, cmd, memory>>

\* save and saveBatch are one transaction: insert what is new, update what is
\* not where the version is still the one before the draft's, write the events.
New(r) == {k \in cmd[r].keys : loaded[r][k] = NoRow}

Insertable(r) == \A k \in New(r) : items[k] = NoRow

\* Mutant of UpToDate: update by id alone, the last writer wins.
UpToDateUnchecked(r) == TRUE

\* Mutant of UpToDate: a row one version ahead passes too.
UpToDateLenient(r) ==
    \A k \in cmd[r].keys \ New(r) :
        items[k].version <= Drafts(loaded[r], cmd[r])[k].version

UpToDate(r) ==
    \A k \in cmd[r].keys \ New(r) :
        items[k].version = Drafts(loaded[r], cmd[r])[k].version - 1

Commit(r) ==
    /\ pc[r] = "save"
    /\ Insertable(r)
    /\ UpToDate(r)
    /\ items' = [k \in Keys |-> IF k \in cmd[r].keys
                                THEN Drafts(loaded[r], cmd[r])[k]
                                ELSE items[k]]
    /\ outbox' = outbox \cup Raised(loaded[r], cmd[r])
    /\ pc' = [pc EXCEPT ![r] = IF InLedger(cmd[r]) THEN "append" ELSE "done"]
    /\ UNCHANGED <<ledger, cmd, memory>>

\* The unique key (sku, location) refuses the insert: an error of Prisma, which
\* the decorator does not retry.
DuplicateKey(r) ==
    /\ pc[r] = "save"
    /\ ~Insertable(r)
    /\ pc' = [pc EXCEPT ![r] = "rejected"]
    /\ UNCHANGED <<db, cmd, memory>>

\* Mutant of Retry: save the same drafts again instead of running the use case.
RetrySaveOnly(r) ==
    /\ pc[r] = "save"
    /\ Insertable(r)
    /\ ~UpToDate(r)
    /\ attempts[r] < MaxRetries
    /\ attempts' = [attempts EXCEPT ![r] = @ + 1]
    /\ UNCHANGED <<db, cmd, pc, loaded>>

\* ConcurrencyError: the decorator runs the whole use case again, up to
\* MaxRetries times, and then lets the error through.
Retry(r) ==
    /\ pc[r] = "save"
    /\ Insertable(r)
    /\ ~UpToDate(r)
    /\ attempts[r] < MaxRetries
    /\ attempts' = [attempts EXCEPT ![r] = @ + 1]
    /\ pc' = [pc EXCEPT ![r] = EntryPoint(cmd[r])]
    /\ UNCHANGED <<db, cmd, loaded>>

\* Mutant of GiveUp: the last attempt neither retries nor lets the error out.
GiveUpLate(r) ==
    /\ pc[r] = "save"
    /\ Insertable(r)
    /\ ~UpToDate(r)
    /\ attempts[r] > MaxRetries
    /\ pc' = [pc EXCEPT ![r] = "conflict"]
    /\ UNCHANGED <<db, cmd, memory>>

GiveUp(r) ==
    /\ pc[r] = "save"
    /\ Insertable(r)
    /\ ~UpToDate(r)
    /\ attempts[r] = MaxRetries
    /\ pc' = [pc EXCEPT ![r] = "conflict"]
    /\ UNCHANGED <<db, cmd, memory>>

\* appendStockLedgerEntry, after the use case has returned: the call is done
\* also where there was no variant to append an entry for.
AppendLedger(r) ==
    /\ pc[r] = "append"
    /\ ledger' = [k \in Keys |-> ledger[k] + LedgerDelta(cmd[r], k)]
    /\ pc' = [pc EXCEPT ![r] = "done"]
    /\ UNCHANGED <<items, outbox, cmd, memory>>

\* The process stops, or the connection fails, between two steps.
Crash(r) ==
    /\ pc[r] \in {"check", "load", "save", "append"}
    /\ pc' = [pc EXCEPT ![r] = IF pc[r] = "append" THEN "halted" ELSE "crashed"]
    /\ UNCHANGED <<db, cmd, memory>>

-----------------------------------------------------------------------------
Step(r) ==
    \/ ValidateCapacity(r) \/ Load(r) \/ Reject(r)
    \/ Commit(r) \/ DuplicateKey(r) \/ Retry(r) \/ GiveUp(r) \/ AppendLedger(r)

Next == \E r \in Requests : Step(r) \/ Crash(r)

Spec == Init /\ [][Next]_vars

\* A call that is running goes on: the event loop resumes it when its query
\* returns and when its backoff timer fires.
FairSpec == Spec /\ \A r \in Requests : WF_vars(Step(r))

-----------------------------------------------------------------------------
Final == {"done", "halted", "rejected", "conflict", "crashed"}

Labels == {"check", "load", "save", "append"} \cup Final

\* The requests whose command has taken effect.
Committed == {r \in Requests : pc[r] \in {"append", "done", "halted"}}

TypeOK ==
    /\ items \in Tables
    /\ ledger \in [Keys -> Int]
    /\ cmd \in [Requests -> Commands]
    /\ pc \in [Requests -> Labels]
    /\ attempts \in [Requests -> 0..MaxRetries]
    /\ loaded \in [Requests -> Tables]

-----------------------------------------------------------------------------
\* What a request that is about to save has read are rows of an earlier
\* moment: a row keeps existing, its version only grows, and while its
\* version is the same the row is.
Earlier(rows) ==
    \A k \in Keys : rows[k] # NoRow =>
        /\ items[k] # NoRow
        /\ rows[k].version <= items[k].version
        /\ rows[k].version = items[k].version => rows[k] = items[k]

ReadsAreSnapshots ==
    \A r \in Requests : pc[r] = "save" =>
        Accepts(loaded[r], cmd[r]) /\ Earlier(loaded[r])

-----------------------------------------------------------------------------
\* The mutations keep the promise of AtomicInventory: a command takes effect
\* at most once, as one step on the rows of that moment (no lost update, no
\* effect of an attempt that lost the race), together with its events.
outcomeBar ==
    [r \in Requests |->
        IF r \in Committed THEN "applied"
        ELSE IF pc[r] \in {"rejected", "conflict", "crashed"} THEN "refused"
        ELSE "open"]

Atomic == INSTANCE AtomicInventory WITH outcome <- outcomeBar

Implements == Atomic!Spec

\* Reservations never exceed the stock that is there or on its way, however
\* the allocating requests interleave, as long as nothing takes or recounts
\* the physical stock without looking at the reservations (dispatchStock and
\* reconcileStock do).
AllocationCovered ==
    \A k \in Keys :
        (/\ items[k] # NoRow
         /\ \A r \in Committed : k \in cmd[r].keys =>
                cmd[r].method \notin {"dispatchStock", "reconcileStock"})
        => items[k].allocated <= items[k].quantity + items[k].inTransit

\* ConcurrencyError says the item "was modified by another process": every
\* conflict a request has met is the work of another request that committed a
\* change of a common row, so a conflict means progress of someone else.
Conflicts(r) == attempts[r] + (IF pc[r] = "conflict" THEN 1 ELSE 0)

Foreign(r) == {s \in Committed \ {r} : cmd[s].keys \cap cmd[r].keys # {}}

ConflictsAreForeign ==
    \A r \in Requests : Conflicts(r) <= Cardinality(Foreign(r))

\* What the ledger of a row of the catalogue lacks is what calls have moved that
\* record nothing (fulfilments, receipts of goods in transit, scans) or have not
\* recorded yet: no retry posts twice, no refused attempt posts at all.  Counts
\* aside, for they write down what they find; and aside from the rows whose SKU
\* no variant has: nothing they move is ever recorded.
Moved(c, k) ==
    CASE c.method \in {"receiveStock", "receiveInTransit"}   -> c.amount[k]
      [] c.method \in {"dispatchStock", "fulfillAllocation"} -> -c.amount[k]
      [] OTHER -> 0

Calls(k) == {r \in Committed : k \in cmd[r].keys}
Unrecorded(k) == {r \in Calls(k) : pc[r] # "done" \/ ~InLedger(cmd[r])}

LedgerAgrees ==
    \A k \in Catalogued :
        (\A r \in Calls(k) : cmd[r].method # "reconcileStock") =>
            OnHand(k) - ledger[k] =
                SumFunctionOnSet([r \in Requests |-> Moved(cmd[r], k)], Unrecorded(k))

\* Every call returns, with a result or an error: retries are bounded and
\* nothing waits for another request.
EveryCallEnds == \A r \in Requests : <>(pc[r] \in Final)
=============================================================================
