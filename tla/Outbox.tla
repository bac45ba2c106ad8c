------------------------------- MODULE Outbox -------------------------------
(***************************************************************************)
(* The transactional outbox.  Events are inserted with the change they     *)
(* tell of (see InventoryCommands); OutboxWorker polls for pending ones,   *)
(* marks the batch, publishes each event on the in-process bus, enqueues   *)
(* the deliveries of the webhook subscriptions, and marks what succeeded   *)
(* at the end.  Every process (index.ts and worker.ts) runs a worker of    *)
(* its own over the same table; a claim is not guarded by the status it    *)
(* was based on.  An administrator may put any event back with             *)
(* retryOutboxEvent.                                                       *)
(***************************************************************************)
EXTENDS Naturals, FiniteSets, SequencesExt

CONSTANTS Workers,      \* processes that poll
          MaxEvents,    \* bound: events ever produced
          BatchSize,    \* take, 20 in the code
          MaxAttempts,  \* 5 in the code
          Malformed,    \* events whose payload does not parse
          MaxFaults,    \* bound: failed database calls and crashes
          MaxResets     \* bound: calls of retryOutboxEvent

Events == 1..MaxEvents  \* numbered in the order of createdAt

ASSUME OutboxAssumption ==
    /\ {MaxEvents, MaxFaults, MaxResets} \subseteq Nat
    /\ {BatchSize, MaxAttempts} \subseteq Nat \ {0}
    /\ Malformed \subseteq Events

VARIABLES status, attempts,     \* columns of outbox_events
          published, enqueued,  \* how often each event went to the bus, and
                                \* to the table webhook_deliveries
          pc, batch, done,      \* of each worker: events to do, events done
          read,                 \* the attempts each worker found in the rows
          failures, resets,     \* history: failed and requested attempts
          lost,                 \* history: insertions whose answer was lost
          overlaps,             \* history: events two workers had at once
          orphans,              \* history: events whose worker stopped
          faults

rows == <<status, attempts>>
effects == <<published, enqueued>>
worker == <<pc, batch, done, read>>
history == <<failures, resets, lost, overlaps, orphans, faults>>
vars == <<rows, effects, worker, history>>

NothingRead == [e \in Events |-> 0]

Init ==
    /\ status = [e \in Events |-> "none"]
    /\ attempts = [e \in Events |-> 0]
    /\ published = [e \in Events |-> 0]
    /\ enqueued = [e \in Events |-> 0]
    /\ pc = [w \in Workers |-> "idle"]
    /\ batch = [w \in Workers |-> <<>>]
    /\ done = [w \in Workers |-> {}]
    /\ read = [w \in Workers |-> NothingRead]
    /\ failures = [e \in Events |-> 0]
    /\ resets = [e \in Events |-> 0]
    /\ lost = [e \in Events |-> 0]
    /\ overlaps = {}
    /\ orphans = {}
    /\ faults = 0

-----------------------------------------------------------------------------
\* A repository commits an event (outboxEvent.createMany in save, saveBatch).
Produce(e) ==
    /\ status[e] = "none"
    /\ \A d \in Events : d < e => status[d] # "none"
    /\ status' = [status EXCEPT ![e] = "Pending"]
    /\ UNCHANGED <<attempts, effects, worker, history>>

Holds(w, e) == e \in ToSet(batch[w]) \cup done[w]

Take(w, events) ==
    /\ batch' = [batch EXCEPT ![w] = events]
    /\ overlaps' = overlaps \cup
                      {e \in ToSet(events) : \E v \in Workers : Holds(v, e)}
    /\ read' = [read EXCEPT ![w] =
                    [e \in Events |-> IF e \in ToSet(events) THEN attempts[e] ELSE 0]]
    /\ pc' = [pc EXCEPT ![w] = "mark"]
    /\ UNCHANGED <<rows, effects, done, failures, resets, lost, orphans, faults>>

\* Mutant of Poll: whatever is due, dead letters too.
PollDeadLetters(w) ==
    /\ pc[w] = "idle"
    /\ \E e \in Events : status[e] \in {"Pending", "Failed"} /\ Take(w, <<e>>)

\* The pending events whose backoff is over (any of them may be), oldest first.
Batches ==
    {q \in BoundedSeq({e \in Events : status[e] = "Pending"}, BatchSize) :
        q # <<>> /\ \A i, j \in DOMAIN q : i < j => q[i] < q[j]}

Poll(w) ==
    /\ pc[w] = "idle"
    /\ \E events \in Batches : Take(w, events)

\* Mutant of Mark: the batch is not claimed.
MarkNothing(w) ==
    /\ pc[w] = "mark"
    /\ pc' = [pc EXCEPT ![w] = "event"]
    /\ UNCHANGED <<rows, effects, batch, done, read, history>>

Mark(w) ==
    /\ pc[w] = "mark"
    /\ status' = [e \in Events |-> IF e \in ToSet(batch[w]) THEN "Processing" ELSE status[e]]
    /\ pc' = [pc EXCEPT ![w] = "event"]
    /\ UNCHANGED <<attempts, effects, batch, done, read, history>>

Publish(w) ==
    /\ pc[w] = "event"
    /\ batch[w] # <<>>
    /\ Head(batch[w]) \notin Malformed
    /\ published' = [published EXCEPT ![Head(batch[w])] = @ + 1]
    /\ pc' = [pc EXCEPT ![w] = "enqueue"]
    /\ UNCHANGED <<rows, enqueued, batch, done, read, history>>

\* Look up the active subscriptions, insert a delivery for each.
Enqueue(w) ==
    /\ pc[w] = "enqueue"
    /\ enqueued' = [enqueued EXCEPT ![Head(batch[w])] = @ + 1]
    /\ done' = [done EXCEPT ![w] = @ \cup {Head(batch[w])}]
    /\ batch' = [batch EXCEPT ![w] = Tail(@)]
    /\ pc' = [pc EXCEPT ![w] = "event"]
    /\ UNCHANGED <<rows, published, read, history>>

\* The payload does not parse, or a database call fails and has no effect.
Fail(w) ==
    /\ \/ /\ pc[w] = "event"
          /\ batch[w] # <<>>
          /\ Head(batch[w]) \in Malformed
          /\ UNCHANGED faults
       \/ /\ pc[w] = "enqueue"
          /\ faults < MaxFaults
          /\ faults' = faults + 1
    /\ failures' = [failures EXCEPT ![Head(batch[w])] = @ + 1]
    /\ pc' = [pc EXCEPT ![w] = "failing"]
    /\ UNCHANGED <<rows, effects, batch, done, read, resets, lost, overlaps, orphans>>

\* createMany has inserted the deliveries, but the call fails (the connection is
\* lost before the answer): to the catch clause the event has failed, and it
\* will be enqueued again.
EnqueueUnanswered(w) ==
    /\ pc[w] = "enqueue"
    /\ faults < MaxFaults
    /\ faults' = faults + 1
    /\ enqueued' = [enqueued EXCEPT ![Head(batch[w])] = @ + 1]
    /\ lost' = [lost EXCEPT ![Head(batch[w])] = @ + 1]
    /\ failures' = [failures EXCEPT ![Head(batch[w])] = @ + 1]
    /\ pc' = [pc EXCEPT ![w] = "failing"]
    /\ UNCHANGED <<rows, published, batch, done, read, resets, overlaps, orphans>>

\* Mutant of RecordFailure: what failed is counted among what succeeded.
RecordFailureAsDone(w) ==
    /\ pc[w] = "failing"
    /\ LET e == Head(batch[w])
           n == read[w][e] + 1
       IN  /\ attempts' = [attempts EXCEPT ![e] = n]
           /\ status' = [status EXCEPT ![e] =
                             IF n >= MaxAttempts THEN "Failed" ELSE "Pending"]
    /\ done' = [done EXCEPT ![w] = @ \cup {Head(batch[w])}]
    /\ batch' = [batch EXCEPT ![w] = Tail(@)]
    /\ pc' = [pc EXCEPT ![w] = "event"]
    /\ UNCHANGED <<effects, read, history>>

\* The outcome is computed from the attempts read with the batch.
RecordFailure(w) ==
    /\ pc[w] = "failing"
    /\ LET e == Head(batch[w])
           n == read[w][e] + 1
       IN  /\ attempts' = [attempts EXCEPT ![e] = n]
           /\ status' = [status EXCEPT ![e] =
                             IF n >= MaxAttempts THEN "Failed" ELSE "Pending"]
    /\ batch' = [batch EXCEPT ![w] = Tail(@)]
    /\ pc' = [pc EXCEPT ![w] = "event"]
    /\ UNCHANGED <<effects, done, read, history>>

\* Mutant of Finish: the marking forgets the events of the batch.
FinishSilently(w) ==
    /\ pc[w] = "event"
    /\ batch[w] = <<>>
    /\ done' = [done EXCEPT ![w] = {}]
    /\ read' = [read EXCEPT ![w] = NothingRead]
    /\ pc' = [pc EXCEPT ![w] = "idle"]
    /\ UNCHANGED <<rows, effects, batch, history>>

Finish(w) ==
    /\ pc[w] = "event"
    /\ batch[w] = <<>>
    /\ status' = [e \in Events |-> IF e \in done[w] THEN "Processed" ELSE status[e]]
    /\ attempts' = [e \in Events |-> IF e \in done[w] THEN attempts[e] + 1 ELSE attempts[e]]
    /\ done' = [done EXCEPT ![w] = {}]
    /\ read' = [read EXCEPT ![w] = NothingRead]
    /\ pc' = [pc EXCEPT ![w] = "idle"]
    /\ UNCHANGED <<effects, batch, history>>

\* The worker forgets its batch; the rows stay as they are.
Forget(w) ==
    /\ orphans' = orphans \cup ToSet(batch[w]) \cup done[w]
    /\ batch' = [batch EXCEPT ![w] = <<>>]
    /\ done' = [done EXCEPT ![w] = {}]
    /\ read' = [read EXCEPT ![w] = NothingRead]
    /\ pc' = [pc EXCEPT ![w] = "idle"]
    /\ UNCHANGED <<rows, effects, failures, resets, lost, overlaps>>

\* A write of the worker's own bookkeeping fails: the loop's catch ends the pass.
\* (One that took effect although it failed is that write, then a crash.)
Abort(w) ==
    /\ \/ pc[w] \in {"mark", "failing"}
       \/ pc[w] = "event" /\ batch[w] = <<>> /\ done[w] # {}
    /\ faults < MaxFaults
    /\ faults' = faults + 1
    /\ Forget(w)

\* The process stops and is started again.
Crash(w) ==
    /\ pc[w] # "idle"
    /\ faults < MaxFaults
    /\ faults' = faults + 1
    /\ Forget(w)

\* retryOutboxEvent looks for the event, not at its status.
RetryOutboxEvent(e) ==
    /\ status[e] # "none"
    /\ SumFunction(resets) < MaxResets
    /\ status' = [status EXCEPT ![e] = "Pending"]
    /\ attempts' = [attempts EXCEPT ![e] = 0]
    /\ resets' = [resets EXCEPT ![e] = @ + 1]
    /\ UNCHANGED <<effects, worker, failures, lost, overlaps, orphans, faults>>

Work(w) ==
    \/ Poll(w) \/ Mark(w) \/ Publish(w) \/ Enqueue(w)
    \/ Fail(w) \/ EnqueueUnanswered(w) \/ RecordFailure(w) \/ Finish(w)

Next ==
    \/ \E e \in Events : Produce(e) \/ RetryOutboxEvent(e)
    \/ \E w \in Workers : Work(w) \/ Abort(w) \/ Crash(w)

Spec == Init /\ [][Next]_vars

\* The timer of a worker keeps firing, and a pass goes on after each await.
FairSpec == Spec /\ \A w \in Workers : WF_vars(Work(w))

-----------------------------------------------------------------------------
Settled(e) == status[e] \in {"Processed", "Failed"}

\* An event is marked processed only after it went to the bus and its
\* deliveries were inserted, whichever worker marks it.
NoSilentLoss ==
    \A e \in Events :
        status[e] = "Processed" => published[e] > 0 /\ enqueued[e] > 0

\* A dead letter has been tried MaxAttempts times, although the count is kept
\* in a column that workers and the administrator overwrite.
DeadLettersTried ==
    \A e \in Events : status[e] = "Failed" => failures[e] >= MaxAttempts

\* The worker gives an event neither end for nothing.
OutcomesEarned == NoSilentLoss /\ DeadLettersTried

\* An event is delivered once, once more for each time the administrator asks,
\* and once more for each insertion that took effect although its call failed,
\* unless two workers had it in their batches at once: no other failure, and no
\* stop at any point, makes it be delivered again.
DeliveredOnce ==
    \A e \in Events \ overlaps : enqueued[e] <= 1 + resets[e] + lost[e]

\* An event that is processed or dead stays so until the administrator puts it
\* back, unless two workers had it at once (the late failure of one overwrites
\* the success of the other).
SettledStays ==
    [][\A e \in Events : Settled(e) /\ status'[e] # status[e] =>
          resets'[e] > resets[e] \/ e \in overlaps]_vars

\* Every event is at last processed or dead, unless a worker has stopped with
\* the event in its batch: no worker ever looks at a row marked Processing.
\* (Assumes that processes stop finitely often.)
EventsSettle ==
    \A e \in Events : [](status[e] # "none" => <>(Settled(e) \/ e \in orphans))
=============================================================================
