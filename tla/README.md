# A verification project for gql-ddd-inventory

The repository is a multi-tenant inventory server: a GraphQL API over a domain
model (aggregates, use cases, repositories) and PostgreSQL, with background
workers that deliver events and process webhooks. This directory models the
parts of it that keep state: which steps a call takes, what other calls,
workers and crashes may do between them, and what survives.

Paths are relative to `src/`, the root of the repository.

## How the system runs

There is no lock and, with few exceptions, no outer transaction. Every mutation
is an asynchronous call that awaits one database round trip after the other;
other calls, of this process or of another (`src/index.ts` and `src/worker.ts`
both start every worker), run between any two of them. Four mechanisms keep the
data together, and the project is mostly about how far each of them reaches:

- the `version` column of `inventory_items`: `save` and `saveBatch` update a row
  only if its version is one below the new one, all rows or none, together with
  the events for the outbox;
- unique keys (a rule per spot, an RMA number, a serial number, a tenant id);
- statuses (transfers, orders, returns, requests, events, onboardings) that are
  read, checked in memory and written back *without* a condition;
- ledger entries, cost layers and journals written in round trips of their own
  after the stock was saved.

### Inventory of components

| Component | State | Operations | What is hard | Correct means |
|---|---|---|---|---|
| Stock item (`domain/entities/InventoryItem.ts`) | quantity, allocated, in transit, version | nine methods, each with guards, each raising the version | called twice before one save | numbers never negative, version counts changes |
| Stock mutations and counts (`application/useCases`, `AutoRetryDecorator`, `PostgresInventoryRepository`) | `inventory_items`, `outbox_events`, stock ledger | receive, dispatch, allocate, release, fulfil, in-transit, count, scans | lost updates, retries, separate ledger write, crash | atomic commands, at most once |
| Stock transfers (`ManageStockTransfers.ts`) | transfer status, two rows, ledger | create, dispatch, receive, cancel | five round trips, status written last and unconditionally | no stock made or lost |
| Outbox (`OutboxWorker.ts`) | event status, attempts | poll, claim, publish, enqueue, fail, finish, manual retry | two workers, crash after claim, lost answers, stale counters | nothing lost silently, everything settles |
| Webhook deliveries (`WebhookDeliveryWorker.ts`) | delivery status, attempts | poll, claim, post, save results | as the outbox, plus posts that may have arrived | every subscriber gets each event or it is given up for a reason |
| Shopify orders, kit sales (`WebhookWorker.ts`, `ProcessShopifyOrder.ts`, `InventoryService.ts`) | `webhook_events`, stock ledger | stage, poll, check, append, commit, fail, finish; sell kit | append outside the transaction, check-then-append, two topics of one order | booked once for each message, oversold only so far |
| Approvals (`ApprovalWorkflowService.ts`, `ApprovalRequest.ts`) | request status and step, decisions | open, decide, sweep, toggle | decisions on copies, unconditional overwrite | approved only by every step |
| Purchase orders (`ManageReplenishment.ts`) | order status, rows, ledger | create, place, receive, cancel | as transfers, and interception by approvals | goods in transit are goods ordered |
| Replenishment (`ReplenishmentEvaluator.ts`) | rules, draft orders and transfers | create, toggle, evaluate | four queries taken apart, two evaluations at once | one shortage is ordered once |
| Returns, RMA, quarantine (`ManageReturns.ts`) | returns, quarantine, rows, layers, journal | create, authorize, receive, resolve | seven writes without a transaction | counted, valued and shelved alike |
| Cost layers (`CostLayerService.ts`, `domain/strategies`) | consumption of each layer | consume, put back, add | unversioned read-modify-write | layers cover the stock |
| Kits (`ManageKits.ts`) | recipe, layers, ledger, journal | edit recipe, assemble, disassemble | as returns; rounded averages | cost is moved, not made |
| Serialized items (`ManageSerializedItems.ts`) | status and history of each serial number | receive, sell, return, restock, write off | history rewritten from a copy | a path of the lifecycle, in the ledger too |
| Lots and recall (`ManageFefoAndRecall.ts`, `ProductRecallService.ts`) | row, ledger, layer, lot status | receive with lot, dispatch, quarantine, recall, release | three writes; sales name no lot | what is offered and traced is explained |
| Opening balances, onboarding (`ManageOnboardings.ts`, `OpeningBalanceService.ts`) | onboarding status and items, ledger | create, fill, submit, post | check-then-append; saved before posted | opening entries come first and as a whole |
| Tenant registry and provisioning (`TenantRegistry.ts`, `TenantProvisioner.ts`) | registry rows, databases | provision (six steps), deprovision | a failure in any step, in the cleanup, and in the write that ends it | active means usable, or it is known why not |
| Tenant connection pool (`TenantConnectionPool.ts`) | Map of clients | get, evict, warm, shut down | awaits inside cache updates | bounded, nothing leaks |
| External books (`AuditProcessorService.ts`, `SyncJournalListeners.ts`, `ShopifyStockSyncHandler.ts`) | mappings, pushed levels, discrepancies | post, push, audit, resolve | two audits, events handled twice, swallowed errors | reported until resolved, posted once |
| Roles (`ManageRoles.ts`) | roles, permissions, holders | create, update, delete, invite, reassign | several statements per call | a role permits what was last said |
| Barcodes, units (`ManageBarcodes.ts`, `ManageUoms.ts`) | sets per variant, configuration per product | assign, revoke, generate; rules, units | saved as a whole from a copy | one primary barcode; units convert |
| Planning queries (picking, putaway, routing, slotting, cross-docking, walk, valuation report) | none | seven algorithms | boundaries, greedy choices, rounding | as a check without the algorithm says |
| CRDT stock counter (`CRDTStockResolver.ts`) | increments and decrements per node | add, take, merge | late, repeated, reordered states | converges to the stock |
| Event bus, resolvers, gateway, authentication, RLS, analytics, integrations, catalogue | none of their own, or no protocol | | | see *What is not modelled* |

## The modules

| Module | Models | Role |
|---|---|---|
| `InventoryItem` | the class `InventoryItem` | operators: one per method, `Permits` for the exceptions, `EventsOf` for domain events |
| `StockCommand` | what one use case computes from the rows it read | operators shared by the two specifications below |
| `AtomicInventory` | the promise of the mutations | abstract specification: a command takes effect in one step, or not at all |
| `InventoryCommands` | use case + decorator + repository + resolver | the mutations as they run |
| `InventoryCommandsProofs` | | types, snapshot reads, refinement, reservations, conflicts and the ledger, proved |
| `StockTransfers`, `StockTransfersProofs` | transfers over `InventoryItem` | dispatch, receive and cancel as separate round trips; all three invariants, proved |
| `Outbox` | `OutboxWorker`, `retryOutboxEvent` | any number of workers on one table |
| `Deliveries` | `WebhookDeliveryWorker` | any number of senders on one table of deliveries |
| `Webhooks`, `WebhooksProofs` | both workers together | the outbox's insertions are the rows the senders deliver; safety of both, proved |
| `ShopifyOrders`, `ShopifyOrdersProofs` | order webhooks, `WebhookWorker`, `InventoryService`, `sellKit` | sales booked in the ledger; all three invariants, proved |
| `Approvals` | `ApprovalWorkflowService` and its repository | requests, decisions, sweep |
| `PurchaseOrders` | order use cases, composed with `Approvals` | placing may open an approval request |
| `Replenishment` | rules and `ReplenishmentEvaluator` | documents move while an evaluation reads |
| `ProcurementProofs` | | of `PurchaseOrders` and `Replenishment` |
| `CostLayers` | `InventoryCostLayer`, strategies, `CostLayerService` | operators: the consumption of each costing method |
| `Returns`, `Kits` | `ManageReturns.ts`, `ManageKits.ts` | calls over cost layers; each is one half of `Valuation` |
| `Valuation`, `ValuationProofs` | both over the layers they share | what stock, layers and journals say of each other; all four invariants, proved |
| `SerializedItems` | serial numbers and their ledger entries | transitions on copies |
| `Lots` | receipts with lots, sales, status of lots | row, ledger and layer as three writes |
| `Onboarding` | onboardings and opening balances | submission as three round trips |
| `TenantRegistry`, `TenantPool` | control plane; cache of clients | the pool looks tenants up in the registry it is composed with |
| `ExternalBooks` | journals, pushes, audits | handlers and audits over the same tables |
| `Barcodes`, `Units`, `Roles` | catalogue and permissions | sets read, changed and written back |
| `Planning` | the planning queries | a question, its answer, and what the answer must be |
| `StockCounter` | the replicated counter | states that are merged late, again and out of order |
| `BackOfficeProofs` | | of `Approvals`, `SerializedItems`, `Lots`, `Onboarding`, `TenantRegistry`, `TenantPool`, `ExternalBooks`, `Barcodes`, `Units`, `Roles`, `StockCounter` |
| `CommonTheorems` | | what the proofs share: methods of an item, batches, sums and largest elements of finite sets |
| `MC*` | | small instances for TLC |

Compositions: `InventoryCommands`, `StockTransfers`, `PurchaseOrders`, `Returns`
and `Lots` share `InventoryItem`. `PurchaseOrders` instantiates `Approvals` over
its own variables, so that intercepting an order and opening its request is one
step of both. `Webhooks` extends `Outbox` and `Deliveries`: the step that
enqueues an event inserts the delivery rows. `Valuation` instantiates `Returns`
and `Kits` over the same layers and the same requests: a receipt and an assembly
may overwrite each other's consumption. `TenantPool` extends `TenantRegistry`:
provisioning and dropping of a tenant go on while requests look it up.

`MCBackOffice` is one run for the parts that share no state with the others: its
initial states choose a part, whose instance of its module then runs, while the
variables of all other parts hold nothing. Each of its properties is one of a
part's module, guarded by the name of the part; the theorems about the parts
speak of the part's own property. `StockCounter` and `TenantRegistry` are
extended instead: their variables keep their initial values in the other parts,
and `CountsAgree` and `RegistryTruthful` are checked as the theorems state them.

### How state and actions correspond to the code

*InventoryCommands.* A request has a `pc` for the await it is at: `check`
(`validateCapacity`), `load` (find the rows, run the methods), `save` (the
transaction), `append` (the resolver's ledger entry). The items a use case holds
in memory are not state: they are computed from the rows it read (`loaded`) by
`Drafts`. `Commit`, `DuplicateKey`, `Retry` and `GiveUp` are the outcomes of
`saveBatch`: version check and insert succeed; the unique key refuses;
`ConcurrencyError` with and without attempts left. `Crash` may strike anywhere.
`ledger` holds the sum of a row's entries, not the entries. A command that is
`scanned` comes from `ManageBarcodes.ts`, which runs the use case and appends
nothing. `Catalogued` are the keys whose SKU is that of a variant: for the others
`appendLedgerEntry` returns without writing (`ledgerEntryUtils.ts:31`), and
`LedgerDelta` is empty; in the instance one of the two rows is such a one. The
catalogue does not change while the calls run. Transfers and purchase orders
take their SKUs from variants and throw when a variant is missing, so there
every entry is written.

*StockTransfers, PurchaseOrders.* As above, with the status read at `Find` and
written at `SaveStatus` or `SaveOrder`. Nothing retries these calls: a conflict
refuses them. `Read` answers the two queries of a transfer in either order.

*Outbox, Deliveries, ShopifyOrders.* A worker's batch holds the events of the
pass still to do; what it read of their attempts is kept, because failures are
computed from it. Backoff is modelled as any moment: any subset of the pending
rows may be due. A worker that stops forgets its batch; rows stay. A post of a
delivery has three outcomes: answered well, failed without arriving, failed
although it arrived. The insertion of an event's deliveries has three as well:
`Enqueue`, `Fail`, and `EnqueueUnanswered`, which has inserted them although the
call throws; the catch clause puts the event back, and it is enqueued again. So
an event may have several rows of deliveries at one subscription: `copy` tells
them apart. The entries of `ShopifyOrders` are messages, not orders: `OrderOf`
says which order a message tells of. The shop sends `orders/create` and
`orders/paid` of one order, the worker books both alike, and nothing compares
the number of the order; a message without a webhook id gets a random one
(`shopifyWebhookHandler.ts:128`), so its repetition is one message more. Lines
are mapped to variants outside the model; `FailOrder` stands for every reason for
which an order fails before it is booked.

*Approvals.* A call of `submitApprovalDecision` reads the request with its
decisions into `view`, and `Save` writes what `ApprovalRequest` decides from
it. The decision rows are `ballots`, at most one per call. The sweep holds the
stale requests it found and does them in any order (the query has none).

*Replenishment.* `ReadAll` reads orders, transfers and positions in the order of
the code, each in a step; `Decide` computes all drafts; rules, transfers and
orders are saved in three steps. What happens to a document elsewhere is
`Advance`, one step of its status.

*Returns, Kits, Valuation.* `copy`, `loaded` and `read` are what a call holds of
the return, of the rows and of the layers. Layers are written back as they were
computed from `read` (`Written`), which is how consumptions are lost; `stale`
remembers the variants to which that has happened. Amounts are whole cents and
rounding is that of `Math.round`.

*SerializedItems.* A call reads the item with its history (`copy`), appends the
ledger entry if it has one, and writes status and history from the copy.
`Allowed` is the transition table of the enum; a transition to the present
status is passed over, as in the code.

*Lots.* The three writes of a receipt are `Save`, `Append` and `SaveLayer`;
`Bookable` and `Costed` are the exceptions of the constructors between them,
after which (`Throw`) the earlier writes stand.

*Onboarding.* `Loads` is the exception that reloading a submitted onboarding
with items meets. `Submit` saves, `Check` asks the ledger, `Post` appends;
`OtherEntry` is any other mutation that writes to the ledger.

*TenantRegistry.* A database is `none`, `empty`, `begun`, `migrated` or
`seeded`; `Fail` is an exception in any step of `provisionTenant` inside its try,
after which its cleanup runs, itself allowed to fail (`DropFails`). Writes of the
registry fail too: the insertion, which is outside of the try (`InsertFails`, with
or without effect), and the update that ends a cleanup or a deprovisioning
(`MarkFails`); and a database may be dropped although the statement throws
(`DropUnanswered`). `astray` remembers the tenants to which that has happened,
until some call writes their row. *TenantPool.* A step runs to the next
await; `collided` remembers the tenants whose lookups or evictions overlapped.

*ExternalBooks.* A handler is one event in the hands of the bus; it stops
silently when it throws. An audit holds what it read between its queries.

*Roles, Barcodes, Units.* Each statement of a use case is a step. Sets that are
saved as a whole are computed from the copy that was read.

*Planning.* `Init` asks nothing; a step asks one question out of all small ones
and the next answers it with the algorithm. The properties state what an answer
must be without the algorithm (for instance, minimal splits by quantifying over
all sets of locations). Weights and volumes are whole numbers; `Units` divides
them as putaway does: the ratio is rounded to five decimals before it is rounded
down, so that what is missing to a unit is passed over if it is a 200,000th of
the unit or less (`Slack`). Goods of 250,000 a unit, and places that lack up to 3
of it, reach that case.

*StockCounter.* `sent` keeps every state ever sent, so that merges may be late,
repeated and out of order.

History variables (`sold`, `failures`, `undone`, `shared`, `orphans`, `resets`,
`lost`, `astray`, `booked`, `published`, `enqueued`, `arrived`, `stale`,
`silent`, `doubled`, `late`, `overlapped`, `raced`, `collided`, `clashed`,
`excused`, `crossed`, `meant`, `due`, `removed`) record what happened, for the
properties; only bounds on faults and resets are read by guards.

## The runs

Passing runs:

| Run | Instance | Shows |
|---|---|---|
| `inventory_commands` | 3 requests, 2 rows (one missing), 10 commands, 1 retry | the mutations implement `AtomicInventory`; reservations stay covered; every conflict is another's doing; the ledger agrees with rows of catalogued SKUs that only ledger-keeping mutations touch; every call ends |
| `stock_transfers` | 3 calls, 2 transfers, 2 locations, 1 sale | stock is conserved; in transit is what is owed; status and ledger tell the truth about the stock (`TransfersTraced`) |
| `outbox` | 2 workers, 2 events (one malformed), 2 attempts, 1 fault, 1 reset | processed means delivered, dead letters were tried (`OutcomesEarned`); doubles only where workers overlap or the answer of an insertion was lost, late changes only where workers overlap; events settle unless orphaned |
| `webhooks` | 1 outbox worker, 2 senders, 1 event that may be enqueued twice, 1 subscription that may be toggled, 2 troubles in all | a delivery ends for a reason and stays ended; every subscriber is served unless the event or the delivery was stranded by a crash |
| `shopify_orders` | 2 workers, 2 messages of one order, 1 kit sale, 1 fault | messages end for a reason (`OrderEndsEarned`); an order is booked once for each of its messages, and more often only for known reasons; the stock of a variant falls short by at most one sale of each seller but one |
| `approvals` | 4 deciders, 2 requests, steps of 1 and 2 approvals, 2 sweeps | approved by every step, whatever overlaps |
| `purchase_orders` | 3 calls, 2 orders, 1 decider, 1 sale, 1 sweep | in transit is what was ordered; every piece taken in was ordered and is in the ledger, or in the hands of a call (`OrdersTraced`) |
| `valuation` | 3 calls out of returns, resolutions and kits; 3 variants, 4 layers, 1 crash | layers never hold less than the stock; what moves in value is booked; returns count what came in; quarantine is accounted for |
| `back_office` | one instance per part, see below | the properties of the parts |

The parts of `back_office`:

| Part | Instance | Property | Shows |
|---|---|---|---|
| serials | 4 calls on 2 serial numbers, 1 crash | `SerialsTraced`, `WrittenOffStays` | the history is a path of the lifecycle whatever overlaps; the ledger is what the history says plus what calls owe; written off stays written off unless an old copy comes back |
| rules | 3 calls on one spot, 3 documents | `PipelineBounded` | stock, transit and drafts never exceed reorder point plus one order, unless an evaluation saved beside a document that was drafted since it began |
| registry | 3 calls on one tenant | `RegistryTruthful` | active means seeded; in between means in work or stopped there, whatever overlaps, unless a call threw at a write of the tenant's row |
| pool, crowded pool | 2 requests over a tenant that comes and goes, or over 3 that stay; 1 place | `PoolAccounted` | the pool exceeds its size only by overlapping requests; open clients are in the pool unless lookups collided |
| stock, journal, journal twice | 2 audits, or 2 handlers and an audit | `BooksSound` | findings stay on record until resolved, once; each journal is posted once |
| openings, wide opening | 2 calls on 2 onboardings of one variant, or on one of two | `OnboardingSound` | opening entries come first, as a whole, and lock the onboarding |
| barcodes, units | 2 calls | `CatalogSound` | one primary barcode; purchase and sale unit convert |
| plans | 2 spots, quantities up to 2; for putaway also units of 250,000 | `PlansAreSound` | each of the seven algorithms |
| roles | 2 calls, a built-in and a custom role | `RolesSound` | permissions are those last given; no deletion takes a role away |
| lots | 3 calls on 2 lots | `LotsTraced` | row, ledger and layers differ only by what calls have in hand; what picking offers and recalls trace |
| counter | 2 nodes | `CountsAgree` | nothing invented; an informed node tells the stock |

Runs that exhibit a disagreement between the code and what the repository says:

| Run | Property violated | What happens |
|---|---|---|
| `transfer_once` | `MovesOnce` | one transfer is dispatched twice by overlapping calls |
| `rejection_stands` | `RejectionStands` | a slower approval overwrites a rejection |
| `submitted_is_posted` | `SubmittedIsPosted` | an onboarding stays submitted with nothing posted |

### Bounds

Two calls suffice for a race on one row; three let a third party come between
the read and the write of both, which is what a retry needs to fail a second
time with `MaxRetries = 1` (the code has 3; the counter is only compared with
the bound). Two rows, one of them missing, exercise batches, insertions and the
unique key. Two transfers (orders) of one row let one take what was sent for the
other. Two workers are what the deployment starts; two attempts distinguish a
first from a last failure. Batch sizes are at least two where an instance has
two events, so that a batch may be finished in part; senders of `webhooks` take
one row at a time, of at most two. `MaxTroubles` bounds what goes wrong there in
all (faults of the outbox, mishaps of senders, toggles): two, so that any of
them may meet any other. The two messages of `shopify_orders` tell of one order,
so that each may be the second booking of it. In `valuation` the first layer of
the part holds one unit, so that consumptions split over layers, and the third
request only competes with the first two. One place in the pool makes every
second lookup evict. Sales, faults, crashes, resets, sweeps, toggles, drafts,
assignments and ledger entries are bounded by the constants named `Max...`; each
bound allows the event to happen in every position. Calls, workers and deciders
are permuted by symmetry where they are model values and the run checks no
liveness; `inventory_commands`, which does, starts its interchangeable requests
with commands in the order of a list instead (`InitInOrder`).

### Fairness

`WF` of the steps of a call or of a pass (`inventory_commands`, `outbox`,
`webhooks`): the event loop resumes an awaiting function when its query returns,
and the workers' timers re-arm themselves. No fairness is assumed for crashes,
clients, deciders' first step, sweeps, toggles or resets. Faults are bounded,
that is, processes stop finitely often; liveness says nothing about a worker
that crashes for ever.
`CHECK_DEADLOCK FALSE` everywhere: requests are finitely many, and a state in
which all of them have ended is the end of the instance.

## What is proved

Each theorem holds for arbitrary constants that satisfy the named assumptions of
its module. Those of the specifications (`CommandsAssumption`,
`InitialAssumption`, `TransferAssumption`, `OrderAssumption`,
`OutboxAssumption`, `SalesAssumption`, `CataloguedAssumption`, `CopyAssumption`,
...) give constants their types and are evaluated by every run. The others stand
in the statement of the theorem: no count names a row twice (`NoRepeats`), the
first rows cover their reservations (`StartsCovered`), no order names a variant
twice (`DistinctLines`), sets over which a sum is taken are finite, the values
that stand for "none" are none of the others, and what `SerialAssumption`,
`LotAssumption`, `PoolAssumption` and `RuleAssumption` say of the kinds of
calls.

*InventoryCommandsProofs.*
- `TypeCorrect`, `SnapshotReads`. The types are not inductive alone: that a
  commit writes natural numbers depends on the guards having been true of the
  rows the call *read*. The invariant is `IInv == TypeOK /\ ReadsAreSnapshots`:
  whatever a saving call has read satisfies the guards, and is an earlier state
  of the rows (`Earlier`: rows persist, versions grow, and equal versions mean
  equal rows). `Earlier` survives a commit because every commit raises the
  version of each row it writes.
- `Implementation`. A commit that passes the version check therefore computes
  exactly what `AtomicInventory` computes from the present rows, which is the
  refinement. A count with repeated lines is excluded (`NoRepeats`): its version
  rises by two and it never commits except by a coincidence that a second writer
  must produce; TLC checks the refinement without that restriction where such
  counts are not among the commands.
- `ReservationsCovered`. Every method but a dispatch and a count keeps
  reservations covered when applied to a row that it permits (`IInv` makes the
  present row such a row).
- `ConflictsForeign`. A version that differs was raised by another request since
  the read (`Charged`): a request that is about to meet a conflict has met fewer
  than there are requests to charge. Each of these commits once, so they can be
  counted although requests are any number (`FinitelyMany`).
- `LedgerComplete`. The ledger is short of the row by what the calls at `append`
  have yet to write (`Appending`), a sum over calls. It speaks of the rows whose
  SKU has a variant; of the others the ledger has no entries to speak of.

*StockTransfersProofs.* `Conservation`, `TransitOwed` and `TracesTrue`, with
`IInv` = types, `Snapshots` (as `Earlier` above), `StatusFollowsStock` and
`Traces`: a call that has seen the transfer dispatched comes after a call that
dispatched it, whose rows are therefore there; and nothing takes a row away. So
what a save changes at the source and at the destination sums to zero, also for
a cancellation, which passes over missing rows.

*WebhooksProofs.* Of the outbox `Outcomes`, `DeliveredOncePerRequest` and
`Settlement`, of the deliveries `DeliveriesEarned` and `DeliveriesEnd`. Each
argument is about one event or one row: unless two workers had it at once
(`overlaps`, `clashes`), one at most has it. While an event is in a batch it is
not settled, what its worker has read of the attempts never exceeds its failures
(`Earnings`), and it has been enqueued no more often than was asked for or an
answer was lost (`Singles`). While a row is held it has not ended and its
attempts are those that its sender read (`DeliveryInv`); `Fanning` ties rows to
the events that were enqueued. A poll hands out events and rows that are
pending, so it is the only step that can break these, and then it records the
overlap.

*ShopifyOrdersProofs.* `OrderEnds` and `BookedOncePerCommit` by the same
argument (`Earnings`, `Singles`). `Overselling` is about what will be left of a
variant when all who have checked have appended (`Left`). An append and a crash
do not lower it. A check does, but it has seen the stock itself, so afterwards
only the others can be owed anything (`Covered`). The theorem refuted an earlier
bound of this project, "all sellers but the greediest": the last to check need
not be the greediest, and the instance now has sellers of different appetites.

*ProcurementProofs.*
- `TransitOrdered` and `OrdersAreTraced`, along the lines of the transfers.
  `Opened` says in addition that votes and sweeps only hold requests that were
  opened; the request of a call is opened by its interception alone, so a call
  that was intercepted moves no stock (`OnlyPlacedOrdersMove`).
- `PipelinesBounded`. `RuleInv` says of each evaluation (`Abreast`) what its
  queries still tell it of the present: of the documents it knows, those not
  found under way are under way no more; documents only move forward, and what
  arrived before the stock was read is in what it read. So unless somebody
  drafted a document for the spot since (`Unknown`, the reason for `doubled`), a
  spot it finds short has nothing under way when the draft is saved, and on its
  shelf no more than the reorder point and what was reserved allow (`Short`).
  `TransitIs` and `Numbered` keep documents and stock together. The proof showed
  that the property needs no exception for orders that wait for approval, which
  it had.

*ValuationProofs*, for any layers, returns, recipes, calls and crashes:
- `BaseInvariant`. `TypeInv` ties what a call has in memory to its stage;
  `Snapshots` says that a stock row it read had then the content it has at that
  version, and `Covered` that the layers it read hold what it is about to take.
  So what a call computes from old readings is still of the right type, and no
  layer is consumed beyond what came in with it.
- Every table is then an account: what was in it at the start and the sum, over
  all calls, of what each has done to it by its stage (`InShelf`, `InQuarantine`,
  `InRecords`, `InLedger`, `AddedBy`, `TakenBy`, `ValueAdded`, `ValueTaken`,
  `BookedBy`). A step changes the part of its own call and the table alike;
  theorems about sums over calls and over sequences do the rest.
- `ReturnsCountWhatCameIn`. A copy of a return counts no more than came in
  already and what its own call is about to bring in (`Counting`), so writing it
  back over any other copy does no harm.
- `QuarantineIsAccounted`. A save that passes the version check adds to the
  present row what it was to add to the row it read, unless the row is changed
  twice (`Quarantines`, `Records`).
- `LayersFollowStock`. Where nothing was overwritten (`v \notin stale`) units and
  stock are accounts (`LayersAdded`, `LayersTaken`, `Shelves`, `Ledgers`). Where
  consumptions overwrote each other only an inequality is left, and it needs a
  witness, `LayersPeak`: there are numbers, one for each layer, which neither the
  consumption of the layer nor any reading of it exceeds, and which add up to all
  that was ever taken of the variant. A consumption raises them by what it takes
  (`GivenIsWanted`: all of it, no more and no less, if the layers it read hold
  it), also when what it writes erases what others took.
- `ValueFollowsBooks`. The value of the layers is an account too, as long as
  nothing is stale (`LayersValued`); what a consumption takes in value is what it
  charges. What remains between layers and journal when all have ended is what
  rounding leaves of each kit call: half a cent for each unit it made (`Halves`,
  `Shares`). Proving this is how the exception for kits that are split into
  nothing of value was found.

*BackOfficeProofs*, one invariant per part:
- `ApprovalTypes`, `ApprovalsComplete` and `PendingComplete` of the approvals.
  `ApprovedByEveryStep` needs that pending requests have carried the steps behind
  them, and that what each call has read is still on record when it saves
  (`ViewsHold`): decisions are only added, one per call, so counts can be stale
  only by being too low. Escalation skips votes, but its statuses are ones from
  which no decision starts. So the overwrite without a version may lose a
  rejection (`rejection_stands`) or delay an approval, but cannot forge one.
- `CountersAgree`. `NothingInvented` speaks of the nodes' states only; it is
  inductive together with `SentIsKnown`, which says the same of every state on
  its way, since any of them may be merged at any time. A node alone changes its
  own numbers, and they grow (`OwnNumbersGrow`); a merge takes the larger of two
  numbers that are both known. A node that has heard everything has, number for
  number, what the nodes say of themselves.
- `RegistryIsTruthful` excepts the tenants of which a call threw at a write of
  the registry (`astray`), from then until a call writes the row: after such a
  write the row says what that call did. Its first half speaks of the tenants
  that no two calls ever worked on at the same time; for them `AloneInWork` says
  that one call at most is under way and `SeededBefore` that a call past its
  seeding left the data. A call that starts while another works takes the tenant
  out of both for good. The second half holds of raced tenants too:
  `Provisioned` adds that the call which explains a tenant in between is a
  provisioning, and such a call leaves its tenant only by listing it as
  something else.
- `PoolIsAccounted`, whatever becomes of the registry: entries have distinct
  keys and name clients (`KeyOnce`, `Named`), each request past the size check
  accounts for one entry too many (`RoomLeft`, `Unstarted`), and of a tenant
  whose lookups and evictions never met at most one request is on its way
  (`Lone`), so each of its open clients is in the pool, and what is in the pool
  is open but for the one that is being evicted (`OpenOnes`, `CachedOpen`).
- `OpeningBalances`. A call that may post found no entries of its variants, and
  there are none yet unless one came since (`Untouched`, `late`); what a call
  holds of an onboarding that nobody else holds is what is on record
  (`Exclusive`).
- `JournalsArePostedOnce`: of a journal whose event was handled once, the one
  handler has posted to exactly the systems before the one it is at.
  `AuditsFindOnce`: what an audit saw on record is there still or it knows that
  it is gone (`Remembered`), and an audit that has no other beside it misses
  nothing (`SeesAll`). `BooksAreSound` joins the two.
- `OnePrimaryBarcode`: ids belong to one variant (`IdsAreOwned`), what a call is
  to save has a primary barcode (`PrimariesHeld`) and replaces all that is there
  (`SavesAreWhole`). `UnitsOfTrade`: what calls hold converts as what is stored
  does. `RolesHold`: one call at most is between the statements of a change of a
  role, and a role about to be deleted has no holders.
- `SerialsAreTraced` and `WriteOffsStay`: histories are paths because a copy is
  one and a transition extends it; the ledger is what the history says and what
  calls have yet to write or were silent about, a sum over calls.
- `LotsAreTraced`: entries and layers are those of the calls past their writes
  (`EntriesAre`, `LayersAre`), the row is the sum of those past their save
  (`RowIs`), which a save keeps up because equal versions mean equal rows
  (`Current`).

*CommonTheorems.* What the methods of `InventoryItem` do to a row; what is left
of a batch; sums over finite sets (types, one summand changed, an element added
or taken, a move between two, growth, images and unions) and largest elements.
The library's induction theorems cannot be used here, so these are proved from
the well-ordering of the naturals in the form of `Least`: a number for which
something fails has a least one.

Only model-checked:
- liveness (`EventsSettle`, `SubscribersServed`, `EveryCallEnds`): fairness and
  `ENABLED` are beyond the prover;
- `PlansAreSound`: the greedy algorithms are folds, and induction over them with
  the operators they are given is beyond the prover;
- the properties of `MCBackOffice` other than `CountsAgree` and
  `RegistryTruthful`, by these names: each is the property of one part, guarded
  by the name of the part, and the theorems state the unguarded property of the
  part's own module;
- the costing methods LIFO and FEFO: the calls that are modelled consume by FIFO,
  and the theorem about what a consumption gives is about FIFO.

## Known disagreements and limits that the models show

The properties above are as strong as the code allows; their exceptions are
where it does not. The most important, apart from the three runs:

- A count with two lines for one row changes the row twice in memory and is
  refused by the version check on every retry (`SubmitInventoryCount.ts:73`).
- A barcode scan moves stock without a ledger entry (`ManageBarcodes.ts:113,128`).
- Nor is there an entry for a SKU that no variant has: the mutation ends well and
  records nothing (`ledgerEntryUtils.ts:31,83`), although nothing keeps such rows
  out of `inventory_items`.
- An insertion of deliveries that took effect although its call threw is repeated:
  every subscriber gets the event twice (`OutboxWorker.ts:139,153`).
- Both messages of a Shopify order, `orders/create` and `orders/paid`, are
  booked, so that an order about which both arrive is taken from the stock twice
  (`WebhookWorker.ts:76`); `shopifyOrderId` is passed on and compared with
  nothing.
- A batch claimed by a worker that stops stays in Processing: outbox events
  (`OutboxWorker.ts:81`), deliveries (`WebhookDeliveryWorker.ts:51`) and Shopify
  orders (`WebhookWorker.ts:56`), which according to
  `docs/api/rest-endpoints.md:139` are "processed reliably".
- An order that was approved is never placed: the resolver publishes a
  notification (`resolvers.ts:1680`) where it should "trigger the deferred
  action" (`ManageApprovalWorkflows.ts:100-101`), and an order that waits for
  approval is no draft that could be placed again (`PurchaseOrder.ts:33`).
- Returns: a scrap line on an existing row raises its version by two, and so do
  two lines of one receipt that put the same variant into quarantine: they are
  refused, unless another call has changed the row in between, whose change is
  then overwritten (`QuarantinedTwice` in the properties); scrap is
  booked at the cost of the return and consumed at that of the oldest layer; a
  late authorization resets the received counts; two resolutions take the goods
  of one quarantine record twice; consumptions of layers overwrite each other.
- Kits: the journal of a kit without any cost throws after all other writes; when
  the components cost nothing on average, the layers of a disassembled kit get no
  cost (`ManageKits.ts:366`), while the journal still moves the cost of the kit
  between its two accounts: the value is gone from the layers and not booked.
- Serial numbers: a repeated transition is silent but its ledger entry is not;
  receipts make no cost layer for a serial number, so `writeOff` throws; the
  ledger does not follow returns and write-offs
  (`plan/serial-number-tracking-ddd.md:11` expects it to).
- Lots: sales name no lot, so picking by expiry goes on offering what was sold
  and a recall traces no sale (`ProductRecallService.ts:23`); the status of a
  lot is read by queries only.
- Onboarding: a submitted onboarding with items cannot be loaded again
  (`PostgresStockOnboardingRepository.ts:33`); a save that overlaps a submission
  puts it back to draft; an item of quantity zero, which
  `plan/opening-balance-ddd.md:396` allows, makes the posting throw.
- Replenishment: orders that wait for approval are not counted as open (which
  orders nothing twice only because such orders are never placed); overlapping
  evaluations order twice.
- Tenancy: when the insertion of the row throws although it took effect
  (`TenantProvisioner.ts:31`), or the update after a cleanup throws (`:60`), the
  tenant stays PROVISIONING and cannot be registered again; when the update
  after a deprovisioning throws (`:88`), it stays ACTIVE without a database. A
  second provisioning that fails drops the database of the first (`:56`); two
  misses of one tenant leak a client; an eviction closes a client before it
  forgets it and may forget a newer one; hits do not ask the registry.
- External books: a journal that is saved without an event is never posted; the
  mapping of any one system satisfies the audit; overlapping audits record a
  discrepancy twice.
- Planning: putaway rounds ratios to five decimals before it rounds down, so it
  may overfill a place by up to a 200,000th of a unit
  (`PutawaySuggester.ts:168-169`); reading a distance of 0 as missing (`|| 99`)
  keeps slotting from moving an item at the origin; the router that "Evaluates
  all potential fulfillment plans" (`OrderRoutingEngine.ts:5-7`) tries greedy
  drains only; cross-docking promises one backorder twice when its product
  arrives on two lines (`CrossDockingEngine.ts:33`); the valuation report rounds
  unit costs before multiplying.
- Overlapping saves of barcodes may leave two primary ones; removing a
  conversion rule does not look at the purchase and sale unit; changes of roles
  are not atomic (`ManageRoles.ts:70,89`).

## What is not modelled, and why

- *Row level security* (`rls.ts`): which statement runs on which connection is
  decided by Prisma's pool, not by this code. *Authentication*: a read and a
  signature.
- *Event bus*: one step of `Outbox`; the handlers that write are in
  `ExternalBooks`; those that notify or log are left out.
- *Report workers*: they write columns (`status`, `lastRunAt`, `completedAt`,
  `error`) that the models of `prisma/schema.prisma:783-810` do not have, so that
  what they do cannot be told from the source.
- *Forecasts, analytics, rebalancing, anomaly detection*: statistics over
  floating point and calls of a sidecar; slotting is modelled without it.
- *Marketplace connections, shipping, products and variants*: credentials,
  requests to others, single rows. *Gateway, subgraphs, schema and queries*: no
  state of their own. *In-memory mocks* and the *small domain models* no mutation
  uses.
- Within modelled parts: volume limits, product webhooks, the synchronous
  webhook branch of tests, tenant ids whose database names are the same after
  sanitising (`TenantRegistry.ts:47`), returns with two items of one variant
  (`Returns` counts a return by variant; lines of a receipt may repeat one),
  edits of a workflow while requests are open, the approval that may intercept a
  count, two lines of one variant in a Shopify order (the model's validation
  handles them as the code does, but the instance has none: `OversellBounded` is
  about distinct lines), variants that are added or removed while mutations run,
  `UpdateReplenishmentRuleUseCase` (not wired), the mutations that post one
  journal on demand, `getLotTraceability`. In-process event handlers are one
  step that cannot fail, because the bus swallows their errors.

## Plan

Done: every component of the table above that keeps state, and a theorem for
every safety property of the runs but `PlansAreSound`.

What is left, in the order in which it would say most: edits of an approval
workflow under open requests (`updateApprovalWorkflow`), which `Approvals` leaves
out; two lines of one variant in a Shopify order, for which `OversellBounded`
would need another bound; and the report workers, once their columns exist.
