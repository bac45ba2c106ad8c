--------------------------- MODULE ShopifyOrders ---------------------------
(***************************************************************************)
(* Sales that are booked in the stock ledger alone.  Orders arrive from    *)
(* Shopify as webhooks, are staged in webhook_events and carried out by a  *)
(* WebhookWorker in every process; kits are sold by the mutation sellKit.  *)
(* Both go through InventoryService, which sums the ledger, compares, and  *)
(* then appends in a second round trip.  The worker wraps a message in     *)
(* $transaction, but the repositories do not use its client: the append    *)
(* stands even when the transaction fails to commit.                       *)
(* One order may come as several messages: as orders/create and as         *)
(* orders/paid, or again without its webhook id (the handler then makes up *)
(* another).  The worker books each of them; nothing looks at the order's  *)
(* number.                                                                 *)
(* Product webhooks, which touch no stock, are left out.                   *)
(***************************************************************************)
EXTENDS Integers, FiniteSets, SequencesExt

CONSTANTS Variants, InitialStock,
          Workers,      \* processes that poll
          MaxMessages,  \* bound: webhooks, numbered by occurredAt
          OrderOf,      \* of each message: the order it tells of
          Lines,        \* of each message: the mapped order lines
          Kits,         \* calls of sellKit
          Components,   \* of each call: the lines to take
          BatchSize,    \* take, 10 in the code
          MaxRetries,   \* 3 in the code: the next failure is the last
          MaxFaults     \* bound: failed commits and crashes

Messages == 1..MaxMessages
Line == [variant : Variants, quantity : Nat \ {0}]
Orders == {OrderOf[m] : m \in Messages}
Sellers == Workers \cup Kits

ASSUME SalesAssumption ==
    /\ InitialStock \in [Variants -> Nat]
    /\ DOMAIN OrderOf = Messages
    /\ Lines \in [Messages -> Seq(Line)]
    /\ Components \in [Kits -> Seq(Line) \ {<<>>}]
    /\ Workers \cap Kits = {}
    /\ IsFiniteSet(Sellers)
    /\ {MaxMessages, MaxRetries, MaxFaults} \subseteq Nat
    /\ BatchSize \in Nat \ {0}

VARIABLES ledger,             \* the sum of the entries of each variant
          status, attempts,   \* columns of webhook_events
          pc, batch, done,    \* of workers (and pc of the kit sales)
          read,               \* the attempts each worker found in the rows
          booked,             \* history: how often a message was booked
          failures, undone,   \* history: failed attempts; those that failed
                              \* after their entries were written
          shared, orphans,    \* history: messages two workers held at once;
                              \* messages whose worker stopped
          faults

rows == <<status, attempts>>
worker == <<batch, done, read>>
history == <<failures, undone, shared, orphans, faults>>
vars == <<ledger, rows, pc, worker, booked, history>>

Init ==
    /\ ledger = InitialStock
    /\ status = [m \in Messages |-> "none"]
    /\ attempts = [m \in Messages |-> 0]
    /\ pc = [s \in Sellers |-> IF s \in Workers THEN "idle" ELSE "check"]
    /\ batch = [w \in Workers |-> <<>>]
    /\ done = [w \in Workers |-> {}]
    /\ read = [w \in Workers |-> attempts]
    /\ booked = [m \in Messages |-> 0]
    /\ failures = [m \in Messages |-> 0]
    /\ undone = [m \in Messages |-> 0]
    /\ shared = {}
    /\ orphans = {}
    /\ faults = 0

-----------------------------------------------------------------------------
\* InventoryService: the validation looks at each line by itself.
Sufficient(lines) ==
    \A i \in DOMAIN lines : ledger[lines[i].variant] >= lines[i].quantity

Taken(lines, v) ==
    SumFunctionOnSet([i \in DOMAIN lines |-> lines[i].quantity],
                     {i \in DOMAIN lines : lines[i].variant = v})

Appended(lines) == [v \in Variants |-> ledger[v] - Taken(lines, v)]

\* sellKit: the two passes of decrementForKitSale.
CheckKit(k) ==
    /\ pc[k] = "check"
    /\ pc' = [pc EXCEPT ![k] = IF Sufficient(Components[k]) THEN "append" ELSE "refused"]
    /\ UNCHANGED <<ledger, rows, worker, booked, history>>

AppendKit(k) ==
    /\ pc[k] = "append"
    /\ ledger' = Appended(Components[k])
    /\ pc' = [pc EXCEPT ![k] = "sold"]
    /\ UNCHANGED <<rows, worker, booked, history>>

-----------------------------------------------------------------------------
\* shopifyWebhookHandler stages the message; a second delivery of the same
\* webhook id violates the primary key and changes nothing.  Messages of one
\* order have ids of their own, and each is staged.
Stage(m) ==
    /\ status[m] = "none"
    /\ status' = [status EXCEPT ![m] = "Pending"]
    /\ UNCHANGED <<ledger, attempts, pc, worker, booked, history>>

Held(w) == ToSet(batch[w]) \cup done[w]

\* The pending messages, oldest first, as many as a batch takes (there is one
\* such sequence, or none if nothing is pending).
Oldest ==
    LET pending == {m \in Messages : status[m] = "Pending"}
    IN  {q \in BoundedSeq(pending, BatchSize) :
            /\ q # <<>>
            /\ \A i, j \in DOMAIN q : i < j => q[i] < q[j]
            /\ \A m \in pending \ ToSet(q) :
                   Len(q) = BatchSize /\ \A n \in ToSet(q) : n < m}

Poll(w) ==
    /\ pc[w] = "idle"
    /\ \E oldest \in Oldest :
        /\ batch' = [batch EXCEPT ![w] = oldest]
        /\ shared' = shared \cup
               (ToSet(oldest) \cap UNION {Held(x) : x \in Workers \ {w}})
    /\ read' = [read EXCEPT ![w] = attempts]
    /\ pc' = [pc EXCEPT ![w] = "mark"]
    /\ UNCHANGED <<ledger, rows, done, booked, failures, undone, orphans, faults>>

\* Mutant of Mark: the batch is not claimed.
MarkNothing(w) ==
    /\ pc[w] = "mark"
    /\ pc' = [pc EXCEPT ![w] = "event"]
    /\ UNCHANGED <<ledger, rows, worker, booked, history>>

Mark(w) ==
    /\ pc[w] = "mark"
    /\ status' = [m \in Messages |->
                      IF m \in ToSet(batch[w]) THEN "Processing" ELSE status[m]]
    /\ pc' = [pc EXCEPT ![w] = "event"]
    /\ UNCHANGED <<ledger, attempts, worker, booked, history>>

\* Mutant of CheckOrder: the stock is not compared with the order.
CheckOrderBlindly(w) ==
    /\ pc[w] = "event"
    /\ batch[w] # <<>>
    /\ pc' = [pc EXCEPT ![w] = "append"]
    /\ UNCHANGED <<ledger, rows, worker, booked, history>>

\* The lookups of ProcessShopifyOrder and the first pass of
\* decrementForSaleBatch.
CheckOrder(w) ==
    /\ pc[w] = "event"
    /\ batch[w] # <<>>
    /\ Sufficient(Lines[Head(batch[w])])
    /\ pc' = [pc EXCEPT ![w] = "append"]
    /\ UNCHANGED <<ledger, rows, worker, booked, history>>

\* The message is booked, whatever was booked for its order before.
AppendOrder(w) ==
    /\ pc[w] = "append"
    /\ w \in Workers
    /\ ledger' = Appended(Lines[Head(batch[w])])
    /\ booked' = [booked EXCEPT ![Head(batch[w])] = @ + 1]
    /\ pc' = [pc EXCEPT ![w] = "commit"]
    /\ UNCHANGED <<rows, worker, history>>

CommitOrder(w) ==
    /\ pc[w] = "commit"
    /\ done' = [done EXCEPT ![w] = @ \cup {Head(batch[w])}]
    /\ batch' = [batch EXCEPT ![w] = Tail(@)]
    /\ pc' = [pc EXCEPT ![w] = "event"]
    /\ UNCHANGED <<ledger, rows, read, booked, history>>

\* The shop is not connected or the location not mapped (configuration that
\* may change at any time), a query fails, or the stock is short.
FailOrder(w) ==
    /\ pc[w] = "event"
    /\ batch[w] # <<>>
    /\ failures' = [failures EXCEPT ![Head(batch[w])] = @ + 1]
    /\ pc' = [pc EXCEPT ![w] = "failing"]
    /\ UNCHANGED <<ledger, rows, worker, booked, undone, shared, orphans, faults>>

\* The transaction times out, or its connection is lost, after the append.
FailCommit(w) ==
    /\ pc[w] = "commit"
    /\ faults < MaxFaults
    /\ faults' = faults + 1
    /\ failures' = [failures EXCEPT ![Head(batch[w])] = @ + 1]
    /\ undone' = [undone EXCEPT ![Head(batch[w])] = @ + 1]
    /\ pc' = [pc EXCEPT ![w] = "failing"]
    /\ UNCHANGED <<ledger, rows, worker, booked, shared, orphans>>

RecordFailure(w) ==
    /\ pc[w] = "failing"
    /\ LET m == Head(batch[w])
       IN  /\ status' = [status EXCEPT ![m] =
                 IF read[w][m] >= MaxRetries THEN "Failed" ELSE "Pending"]
           /\ attempts' = [attempts EXCEPT ![m] = read[w][m] + 1]
    /\ batch' = [batch EXCEPT ![w] = Tail(@)]
    /\ pc' = [pc EXCEPT ![w] = "event"]
    /\ UNCHANGED <<ledger, done, read, booked, history>>

\* Mutant of Finish: every row in work is marked, whoever works on it.
FinishAll(w) ==
    /\ pc[w] = "event"
    /\ batch[w] = <<>>
    /\ status' = [m \in Messages |->
                      IF status[m] = "Processing" THEN "Processed" ELSE status[m]]
    /\ done' = [done EXCEPT ![w] = {}]
    /\ pc' = [pc EXCEPT ![w] = "idle"]
    /\ UNCHANGED <<ledger, attempts, batch, read, booked, history>>

Finish(w) ==
    /\ pc[w] = "event"
    /\ batch[w] = <<>>
    /\ status' = [m \in Messages |-> IF m \in done[w] THEN "Processed" ELSE status[m]]
    /\ attempts' = [m \in Messages |-> IF m \in done[w] THEN attempts[m] + 1 ELSE attempts[m]]
    /\ done' = [done EXCEPT ![w] = {}]
    /\ pc' = [pc EXCEPT ![w] = "idle"]
    /\ UNCHANGED <<ledger, batch, read, booked, history>>

\* The process stops, or a write of the worker's bookkeeping fails.
Crash(w) ==
    /\ pc[w] # "idle"
    /\ faults < MaxFaults
    /\ faults' = faults + 1
    /\ orphans' = orphans \cup Held(w)
    /\ batch' = [batch EXCEPT ![w] = <<>>]
    /\ done' = [done EXCEPT ![w] = {}]
    /\ pc' = [pc EXCEPT ![w] = "idle"]
    /\ UNCHANGED <<ledger, rows, read, booked, failures, undone, shared>>

Work(w) ==
    \/ Poll(w) \/ Mark(w) \/ CheckOrder(w) \/ AppendOrder(w) \/ CommitOrder(w)
    \/ FailOrder(w) \/ FailCommit(w) \/ RecordFailure(w) \/ Finish(w)

Next ==
    \/ \E k \in Kits : CheckKit(k) \/ AppendKit(k)
    \/ \E m \in Messages : Stage(m)
    \/ \E w \in Workers : Work(w) \/ Crash(w)

Spec == Init /\ [][Next]_vars

-----------------------------------------------------------------------------
TypeOK ==
    /\ ledger \in [Variants -> Int]
    /\ status \in [Messages -> {"none", "Pending", "Processing", "Processed", "Failed"}]
    /\ {attempts, booked, failures, undone} \subseteq [Messages -> Nat]
    /\ pc \in [Sellers -> {"idle", "mark", "event", "append", "commit", "failing",
                           "check", "sold", "refused"}]
    /\ \A k \in Kits : pc[k] \in {"check", "append", "sold", "refused"}
    /\ \A w \in Workers : pc[w] \notin {"check", "sold", "refused"}
    /\ batch \in [Workers -> Seq(Messages)]
    /\ \A w \in Workers :
        pc[w] \in {"mark", "append", "commit", "failing"} => batch[w] # <<>>
    /\ done \in [Workers -> SUBSET Messages]
    /\ read \in [Workers -> [Messages -> Nat]]
    /\ shared \subseteq Messages /\ orphans \subseteq Messages
    /\ faults \in 0..MaxFaults

\* A message that is marked processed has been taken from the ledger.
ProcessedIsBooked == \A m \in Messages : status[m] = "Processed" => booked[m] > 0

Told(o) == {m \in Messages : OrderOf[m] = o}

\* What a message may book: its lines once when it has come, and once more for
\* each transaction that failed after the append.
Excused(m) == (IF status[m] = "none" THEN 0 ELSE 1) + undone[m]

\* An order is booked no more often than it was told of, and once more for each
\* transaction that failed after the append, unless two workers took up a
\* message of it together.  (So an order of which both topics arrive is booked
\* twice: that is what the code does.)
BookedOnce ==
    \A o \in Orders :
        Told(o) \cap shared = {} =>
            SumFunctionOnSet(booked, Told(o))
                <= SumFunctionOnSet([m \in Messages |-> Excused(m)], Told(o))

\* A message is given up only after MaxRetries retries.
FailedAfterRetries ==
    \A m \in Messages : status[m] = "Failed" => failures[m] > MaxRetries

\* Neither end of a message comes for nothing.
OrderEndsEarned == TypeOK /\ ProcessedIsBooked /\ FailedAfterRetries

\* What a seller takes at most in one sale.
Appetite(s, v) ==
    Max({0} \cup {Taken(lines, v) :
            lines \in IF s \in Kits THEN {Components[s]} ELSE {Lines[m] : m \in Messages}})

\* No sale names a variant twice (the validation looks at each line alone).
DistinctLines ==
    \A lines \in Range(Lines) \cup Range(Components) :
        \A i, j \in DOMAIN lines : lines[i].variant = lines[j].variant => i = j

\* Checking first and appending later lets sellers overlap, and the stock of a
\* variant fall below zero; but whoever checked last saw enough for himself, and
\* each of the others can append only what he had checked before: the stock is
\* short by no more than one sale of each seller but one.
OversellBounded ==
    \A v \in Variants :
        ledger[v] < 0 =>
            \E last \in Sellers :
                /\ Appetite(last, v) > 0
                /\ ledger[v] + SumFunctionOnSet([s \in Sellers |-> Appetite(s, v)],
                                               Sellers \ {last}) >= 0
=============================================================================
