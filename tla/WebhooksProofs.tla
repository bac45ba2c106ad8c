--------------------------- MODULE WebhooksProofs ---------------------------
(***************************************************************************)
(* What the outbox promises for every number of workers, events, faults    *)
(* and retries, and the deliveries for every number of senders and rows.   *)
(*                                                                         *)
(* Both arguments are about one event, or one row: unless two workers had  *)
(* it at once (overlaps, clashes), one at most has it.  While an event is  *)
(* in a batch it is neither processed nor dead, and has been enqueued no   *)
(* more often than the administrator has asked and answers were lost; what *)
(* a worker read of its attempts never exceeds its failures.  While a row  *)
(* is held it has not ended, and its attempts are exactly those that its   *)
(* sender has read.                                                        *)
(***************************************************************************)
EXTENDS Webhooks, CommonTheorems

Statuses == {"none", "Pending", "Processing", "Processed", "Failed"}

OutboxTypes ==
    /\ status \in [Events -> Statuses]
    /\ attempts \in [Events -> Nat]
    /\ published \in [Events -> Nat]
    /\ enqueued \in [Events -> Nat]
    /\ pc \in [Workers -> {"idle", "mark", "event", "enqueue", "failing"}]
    /\ batch \in [Workers -> Seq(Events)]
    /\ done \in [Workers -> SUBSET Events]
    /\ read \in [Workers -> [Events -> Nat]]
    /\ failures \in [Events -> Nat]
    /\ resets \in [Events -> Nat]
    /\ lost \in [Events -> Nat]

\* A batch that is polled: pending events, each once.
LEMMA BatchType ==
    ASSUME NEW q \in Batches
    PROVE  /\ q \in Seq(Events)
           /\ q # <<>>
           /\ Distinct(q)
           /\ \A e \in ToSet(q) : status[e] = "Pending"
  <1> DEFINE Pending == {e \in Events : status[e] = "Pending"}
  <1>1. q \in BoundedSeq(Pending, BatchSize) /\ q # <<>>
    BY DEF Batches
  <1>2. PICK m \in 0..BatchSize : q \in [1..m -> Pending]
    BY <1>1 DEF BoundedSeq, SeqOf
  <1>3. m \in Nat
    BY <1>2, OutboxAssumption
  <1>4. q \in Seq(Pending)
    BY <1>2, <1>3
  <1>5. q \in Seq(Events) /\ DOMAIN q = 1..m
    BY <1>2, <1>4
  <1>6. \A i \in DOMAIN q : status[q[i]] = "Pending"
    BY <1>2
  <1>7. Distinct(q)
    <2> SUFFICES ASSUME NEW i \in 1..m, NEW j \in 1..m, q[i] = q[j] PROVE i = j
      BY <1>5 DEF Distinct
    <2>1. q[i] \in Nat
      BY <1>2 DEF Events
    <2>2. ~(i < j) /\ ~(j < i)
      BY <1>5, <2>1 DEF Batches
    <2> QED
      BY <1>3, <2>2
  <1> QED
    BY <1>1, <1>5, <1>6, <1>7 DEF ToSet

-----------------------------------------------------------------------------
\* What a worker has in hand.
Orderly(w) ==
    /\ Distinct(batch[w])
    /\ ToSet(batch[w]) \cap done[w] = {}
    /\ pc[w] = "idle" => batch[w] = <<>> /\ done[w] = {}
    /\ pc[w] = "mark" => done[w] = {}
    /\ pc[w] \in {"enqueue", "failing"} => batch[w] # <<>>

\* Two workers have an event only if it is recorded in overlaps.
Alone ==
    \A e \in Events \ overlaps : \A w, v \in Workers :
        Holds(w, e) /\ Holds(v, e) => w = v

InHand == OutboxTypes /\ Alone /\ \A w \in Workers : Orderly(w)

\* A counter that is counted up, whether or not for the event in question.
LEMMA CountsUp ==
    ASSUME NEW f \in [Events -> Nat], NEW d, NEW e \in Events
    PROVE  /\ f[e] \in Nat
           /\ [f EXCEPT ![d] = @ + 1][e] \in Nat
           /\ f[e] <= [f EXCEPT ![d] = @ + 1][e]
  <1>1. CASE d = e
    BY <1>1
  <1>2. CASE d # e
    BY <1>2
  <1> QED
    BY <1>1, <1>2

\* The counters only grow, and so does the set of events that were held twice.
LEMMA Monotone ==
    ASSUME OutboxTypes, [Next]_vars, NEW e \in Events
    PROVE  /\ published[e] \in Nat /\ published'[e] \in Nat /\ published[e] <= published'[e]
           /\ enqueued[e] \in Nat /\ enqueued'[e] \in Nat /\ enqueued[e] <= enqueued'[e]
           /\ failures[e] \in Nat /\ failures'[e] \in Nat /\ failures[e] <= failures'[e]
           /\ resets[e] \in Nat /\ resets'[e] \in Nat /\ resets[e] <= resets'[e]
           /\ lost[e] \in Nat /\ lost'[e] \in Nat /\ lost[e] <= lost'[e]
           /\ overlaps \subseteq overlaps'
  <1> USE DEF OutboxTypes
  <1>1. ASSUME NEW d \in Events, Produce(d) \/ RetryOutboxEvent(d)
        PROVE  /\ UNCHANGED <<published, enqueued, failures, lost, overlaps>>
               /\ resets'[e] \in Nat /\ resets[e] <= resets'[e]
    <2>1. CASE Produce(d)
      BY <2>1 DEF Produce, effects, history
    <2>2. CASE RetryOutboxEvent(d)
      <3>1. /\ resets' = [resets EXCEPT ![d] = @ + 1]
            /\ UNCHANGED <<published, enqueued, failures, lost, overlaps>>
        BY <2>2 DEF RetryOutboxEvent, effects
      <3> QED
        BY <3>1
    <2> QED
      BY <1>1, <2>1, <2>2
  <1>2. ASSUME NEW w \in Workers, Poll(w)
        PROVE  /\ UNCHANGED <<published, enqueued, failures, resets, lost>>
               /\ overlaps \subseteq overlaps'
    BY <1>2 DEF Poll, Take, effects
  <1>3. ASSUME NEW w \in Workers, Mark(w) \/ RecordFailure(w) \/ Finish(w)
        PROVE  UNCHANGED <<published, enqueued, failures, resets, lost, overlaps>>
    BY <1>3 DEF Mark, RecordFailure, Finish, effects, history
  <1>4. ASSUME NEW w \in Workers, Abort(w) \/ Crash(w)
        PROVE  UNCHANGED <<published, enqueued, failures, resets, lost, overlaps>>
    BY <1>4 DEF Abort, Crash, Forget, effects
  <1>5. ASSUME NEW w \in Workers, Publish(w)
        PROVE  /\ UNCHANGED <<enqueued, failures, resets, lost, overlaps>>
               /\ published'[e] \in Nat /\ published[e] <= published'[e]
    <2>1. /\ published' = [published EXCEPT ![Head(batch[w])] = @ + 1]
          /\ UNCHANGED <<enqueued, failures, resets, lost, overlaps>>
      BY <1>5 DEF Publish, history
    <2> QED
      BY <2>1, CountsUp
  <1>6. ASSUME NEW w \in Workers, Enqueue(w)
        PROVE  /\ UNCHANGED <<published, failures, resets, lost, overlaps>>
               /\ enqueued'[e] \in Nat /\ enqueued[e] <= enqueued'[e]
    <2>1. /\ enqueued' = [enqueued EXCEPT ![Head(batch[w])] = @ + 1]
          /\ UNCHANGED <<published, failures, resets, lost, overlaps>>
      BY <1>6 DEF Enqueue, history
    <2> QED
      BY <2>1, CountsUp
  <1>7. ASSUME NEW w \in Workers, Fail(w)
        PROVE  /\ UNCHANGED <<published, enqueued, resets, lost, overlaps>>
               /\ failures'[e] \in Nat /\ failures[e] <= failures'[e]
    <2>1. /\ failures' = [failures EXCEPT ![Head(batch[w])] = @ + 1]
          /\ UNCHANGED <<published, enqueued, resets, lost, overlaps>>
      BY <1>7 DEF Fail, effects
    <2> QED
      BY <2>1, CountsUp
  <1>8. ASSUME NEW w \in Workers, EnqueueUnanswered(w)
        PROVE  /\ UNCHANGED <<published, resets, overlaps>>
               /\ enqueued'[e] \in Nat /\ enqueued[e] <= enqueued'[e]
               /\ failures'[e] \in Nat /\ failures[e] <= failures'[e]
               /\ lost'[e] \in Nat /\ lost[e] <= lost'[e]
    <2>1. /\ enqueued' = [enqueued EXCEPT ![Head(batch[w])] = @ + 1]
          /\ failures' = [failures EXCEPT ![Head(batch[w])] = @ + 1]
          /\ lost' = [lost EXCEPT ![Head(batch[w])] = @ + 1]
          /\ UNCHANGED <<published, resets, overlaps>>
      BY <1>8 DEF EnqueueUnanswered
    <2>2. enqueued'[e] \in Nat /\ enqueued[e] <= enqueued'[e]
      BY <2>1, CountsUp
    <2>3. failures'[e] \in Nat /\ failures[e] <= failures'[e]
      BY <2>1, CountsUp
    <2>4. lost'[e] \in Nat /\ lost[e] <= lost'[e]
      BY <2>1, CountsUp
    <2> QED
      BY <2>1, <2>2, <2>3, <2>4
  <1>9. CASE UNCHANGED vars
    BY <1>9 DEF vars, effects, history
  <1> QED
    BY <1>1, <1>2, <1>3, <1>4, <1>5, <1>6, <1>7, <1>8, <1>9 DEF Next, Work

\* The first event of a batch that is not empty, and the rest.
LEMMA HeadType ==
    ASSUME OutboxTypes, NEW w \in Workers, batch[w] # <<>>
    PROVE  /\ Head(batch[w]) \in Events
           /\ Head(batch[w]) \in ToSet(batch[w])
           /\ Tail(batch[w]) \in Seq(Events)
           /\ ToSet(batch[w]) = ToSet(Tail(batch[w])) \cup {Head(batch[w])}
           /\ Distinct(batch[w]) =>
                Distinct(Tail(batch[w])) /\ Head(batch[w]) \notin ToSet(Tail(batch[w]))
  <1>1. batch[w] \in Seq(Events)
    BY DEF OutboxTypes
  <1> QED
    BY <1>1, TailOf

LEMMA NextType ==
    ASSUME InHand, [Next]_vars
    PROVE  OutboxTypes'
  <1> USE DEF InHand
  <1>0. ASSUME NEW f \in [Events -> Nat], NEW e \in Events
        PROVE  [f EXCEPT ![e] = @ + 1] \in [Events -> Nat]
    OBVIOUS
  <1>1. ASSUME NEW e \in Events, Produce(e) PROVE OutboxTypes'
    BY <1>1 DEF OutboxTypes, Produce, effects, worker, history, Statuses
  <1>2. ASSUME NEW e \in Events, RetryOutboxEvent(e) PROVE OutboxTypes'
    <2>1. /\ status' = [status EXCEPT ![e] = "Pending"]
          /\ attempts' = [attempts EXCEPT ![e] = 0]
          /\ resets' = [resets EXCEPT ![e] = @ + 1]
          /\ UNCHANGED <<effects, worker, failures, lost>>
      BY <1>2 DEF RetryOutboxEvent
    <2>2. resets' \in [Events -> Nat]
      BY <1>0, <2>1 DEF OutboxTypes
    <2> QED
      BY <2>1, <2>2 DEF OutboxTypes, effects, worker, Statuses
  <1>3. ASSUME NEW w \in Workers, Poll(w) PROVE OutboxTypes'
    <2>1. PICK q \in Batches : Take(w, q)
      BY <1>3 DEF Poll
    <2>2. /\ batch' = [batch EXCEPT ![w] = q]
          /\ read' = [read EXCEPT ![w] =
                          [e \in Events |-> IF e \in ToSet(q) THEN attempts[e] ELSE 0]]
          /\ pc' = [pc EXCEPT ![w] = "mark"]
          /\ UNCHANGED <<status, attempts, published, enqueued, done, failures, resets, lost>>
      BY <2>1 DEF Take, rows, effects
    <2>3. q \in Seq(Events)
      BY BatchType
    <2>4. batch' \in [Workers -> Seq(Events)] /\ read' \in [Workers -> [Events -> Nat]]
      BY <2>2, <2>3 DEF OutboxTypes
    <2>5. pc' \in [Workers -> {"idle", "mark", "event", "enqueue", "failing"}]
      BY <2>2 DEF OutboxTypes
    <2> QED
      BY <2>2, <2>4, <2>5 DEF OutboxTypes
  <1>4. ASSUME NEW w \in Workers, Mark(w) PROVE OutboxTypes'
    BY <1>4 DEF OutboxTypes, Mark, effects, history, Statuses
  <1>5. ASSUME NEW w \in Workers, Publish(w) PROVE OutboxTypes'
    <2>1. published' = [published EXCEPT ![Head(batch[w])] = @ + 1] /\ batch[w] # <<>>
      BY <1>5 DEF Publish
    <2>2. published' \in [Events -> Nat]
      BY <1>0, <2>1, HeadType DEF OutboxTypes
    <2>3. pc' \in [Workers -> {"idle", "mark", "event", "enqueue", "failing"}]
      BY <1>5 DEF OutboxTypes, Publish
    <2> QED
      BY <1>5, <2>2, <2>3 DEF OutboxTypes, Publish, rows, history
  <1>6. ASSUME NEW w \in Workers, Enqueue(w) PROVE OutboxTypes'
    <2>1. batch[w] # <<>>
      BY <1>6 DEF Enqueue, Orderly
    <2>2. Head(batch[w]) \in Events /\ Tail(batch[w]) \in Seq(Events)
      BY <2>1, HeadType
    <2>3. enqueued' \in [Events -> Nat]
      BY <1>0, <1>6, <2>2 DEF OutboxTypes, Enqueue
    <2>4. /\ pc' \in [Workers -> {"idle", "mark", "event", "enqueue", "failing"}]
          /\ batch' \in [Workers -> Seq(Events)]
          /\ done' \in [Workers -> SUBSET Events]
      BY <1>6, <2>2 DEF OutboxTypes, Enqueue
    <2> QED
      BY <1>6, <2>3, <2>4 DEF OutboxTypes, Enqueue, rows, history
  <1>7. ASSUME NEW w \in Workers, Fail(w) PROVE OutboxTypes'
    <2>1. batch[w] # <<>>
      BY <1>7 DEF Fail, Orderly
    <2>2. failures' = [failures EXCEPT ![Head(batch[w])] = @ + 1]
      BY <1>7 DEF Fail
    <2>3. failures' \in [Events -> Nat]
      BY <1>0, <2>1, <2>2, HeadType DEF OutboxTypes
    <2>4. pc' \in [Workers -> {"idle", "mark", "event", "enqueue", "failing"}]
      BY <1>7 DEF OutboxTypes, Fail
    <2> QED
      BY <1>7, <2>3, <2>4 DEF OutboxTypes, Fail, rows, effects
  <1>8. ASSUME NEW w \in Workers, RecordFailure(w) PROVE OutboxTypes'
    <2>1. batch[w] # <<>>
      BY <1>8 DEF RecordFailure, Orderly
    <2>2. Head(batch[w]) \in Events /\ Tail(batch[w]) \in Seq(Events)
      BY <2>1, HeadType
    <2>3. read[w][Head(batch[w])] + 1 \in Nat
      <3>1. read \in [Workers -> [Events -> Nat]]
        BY DEF OutboxTypes
      <3>2. read[w] \in [Events -> Nat]
        BY <3>1
      <3>3. read[w][Head(batch[w])] \in Nat
        BY <2>2, <3>2
      <3> QED
        BY <3>3
    <2> QED
      BY <1>8, <2>2, <2>3 DEF OutboxTypes, RecordFailure, effects, history, Statuses
  <1>9. ASSUME NEW w \in Workers, Finish(w) PROVE OutboxTypes'
    BY <1>9 DEF OutboxTypes, Finish, effects, history, Statuses, NothingRead
  <1>10. ASSUME NEW w \in Workers, Forget(w) PROVE OutboxTypes'
    <2>1. /\ batch' = [batch EXCEPT ![w] = <<>>]
          /\ done' = [done EXCEPT ![w] = {}]
          /\ read' = [read EXCEPT ![w] = NothingRead]
          /\ pc' = [pc EXCEPT ![w] = "idle"]
          /\ UNCHANGED <<rows, effects, failures, resets, lost>>
      BY <1>10 DEF Forget
    <2>2. <<>> \in Seq(Events) /\ NothingRead \in [Events -> Nat]
      BY DEF NothingRead
    <2> QED
      BY <2>1, <2>2 DEF OutboxTypes, rows, effects
  <1>11. ASSUME NEW w \in Workers, EnqueueUnanswered(w) PROVE OutboxTypes'
    <2>1. batch[w] # <<>>
      BY <1>11 DEF EnqueueUnanswered, Orderly
    <2>2. /\ enqueued' = [enqueued EXCEPT ![Head(batch[w])] = @ + 1]
          /\ failures' = [failures EXCEPT ![Head(batch[w])] = @ + 1]
          /\ lost' = [lost EXCEPT ![Head(batch[w])] = @ + 1]
      BY <1>11 DEF EnqueueUnanswered
    <2>3. /\ enqueued' \in [Events -> Nat]
          /\ failures' \in [Events -> Nat]
          /\ lost' \in [Events -> Nat]
      BY <1>0, <2>1, <2>2, HeadType DEF OutboxTypes
    <2>4. pc' \in [Workers -> {"idle", "mark", "event", "enqueue", "failing"}]
      BY <1>11 DEF OutboxTypes, EnqueueUnanswered
    <2> QED
      BY <1>11, <2>3, <2>4 DEF OutboxTypes, EnqueueUnanswered, rows
  <1>12. CASE UNCHANGED vars
    BY <1>12 DEF OutboxTypes, vars, rows, effects, worker, history
  <1> QED
    BY <1>1, <1>2, <1>3, <1>4, <1>5, <1>6, <1>7, <1>8, <1>9, <1>10, <1>11, <1>12
    DEF Next, Work, Abort, Crash

LEMMA NextOrderly ==
    ASSUME InHand, [Next]_vars, NEW v \in Workers
    PROVE  Orderly(v)'
  <1> USE DEF InHand
  <1>0. ASSUME UNCHANGED <<batch[v], done[v], pc[v]>> PROVE Orderly(v)'
    BY <1>0 DEF Orderly
  <1>1. ASSUME NEW e \in Events, Produce(e) \/ RetryOutboxEvent(e) PROVE Orderly(v)'
    BY <1>0, <1>1 DEF Produce, RetryOutboxEvent, worker
  <1>2. ASSUME NEW w \in Workers, Poll(w) PROVE Orderly(v)'
    <2>1. CASE v = w
      <3>1. PICK q \in Batches : Take(w, q)
        BY <1>2 DEF Poll
      <3>2. pc'[w] = "mark" /\ batch'[w] = q /\ done'[w] = {}
        BY <1>2, <3>1 DEF Poll, Take, OutboxTypes, Orderly
      <3> QED
        BY <2>1, <3>2, BatchType DEF Orderly
    <2>2. CASE v # w
      BY <1>0, <1>2, <2>2 DEF Poll, Take, OutboxTypes
    <2> QED
      BY <2>1, <2>2
  <1>3. ASSUME NEW w \in Workers, Mark(w) PROVE Orderly(v)'
    BY <1>3 DEF Mark, OutboxTypes, Orderly
  <1>4. ASSUME NEW w \in Workers, Publish(w) \/ Fail(w) \/ EnqueueUnanswered(w)
        PROVE  Orderly(v)'
    BY <1>4 DEF Publish, Fail, EnqueueUnanswered, OutboxTypes, Orderly
  <1>5. ASSUME NEW w \in Workers, Enqueue(w) \/ RecordFailure(w) PROVE Orderly(v)'
    <2>1. CASE v = w
      <3>1. batch[w] # <<>> /\ Distinct(batch[w]) /\ ToSet(batch[w]) \cap done[w] = {}
        BY <1>5 DEF Enqueue, RecordFailure, Orderly
      <3>2. /\ pc'[w] = "event" /\ batch'[w] = Tail(batch[w])
            /\ done'[w] \subseteq done[w] \cup {Head(batch[w])}
        BY <1>5 DEF Enqueue, RecordFailure, OutboxTypes
      <3> QED
        BY <2>1, <3>1, <3>2, HeadType DEF Orderly
    <2>2. CASE v # w
      BY <1>0, <1>5, <2>2 DEF Enqueue, RecordFailure, OutboxTypes
    <2> QED
      BY <2>1, <2>2
  <1>6. ASSUME NEW w \in Workers, Finish(w) PROVE Orderly(v)'
    BY <1>6, ToSetEmpty DEF Finish, OutboxTypes, Orderly
  <1>7. ASSUME NEW w \in Workers, Abort(w) \/ Crash(w) PROVE Orderly(v)'
    <2>1. CASE v = w
      <3>1. batch'[w] = <<>> /\ done'[w] = {} /\ pc'[w] = "idle"
        BY <1>7 DEF Abort, Crash, Forget, OutboxTypes
      <3> QED
        BY <2>1, <3>1, ToSetEmpty DEF Orderly
    <2>2. CASE v # w
      <3>1. UNCHANGED <<batch[v], done[v], pc[v]>>
        BY <1>7, <2>2 DEF Abort, Crash, Forget, OutboxTypes
      <3> QED
        BY <1>0, <3>1
    <2> QED
      BY <2>1, <2>2
  <1>8. CASE UNCHANGED vars
    BY <1>0, <1>8 DEF vars, worker
  <1> QED
    BY <1>1, <1>2, <1>3, <1>4, <1>5, <1>6, <1>7, <1>8 DEF Next, Work

\* Only a poll puts an event into a worker's hands.
LEMMA HoldsLess ==
    ASSUME InHand, [Next]_vars, ~ \E w \in Workers : Poll(w), NEW v \in Workers, NEW e,
           Holds(v, e)'
    PROVE  Holds(v, e)
  <1> USE DEF InHand
  <1>1. ASSUME UNCHANGED <<batch[v], done[v]>> PROVE Holds(v, e)
    BY <1>1 DEF Holds
  <1>2. ASSUME NEW d \in Events, Produce(d) \/ RetryOutboxEvent(d) PROVE Holds(v, e)
    BY <1>1, <1>2 DEF Produce, RetryOutboxEvent, worker
  <1>3. ASSUME NEW w \in Workers, Mark(w) \/ Publish(w) \/ Fail(w) \/ EnqueueUnanswered(w)
        PROVE  Holds(v, e)
    BY <1>1, <1>3 DEF Mark, Publish, Fail, EnqueueUnanswered
  <1>4. ASSUME NEW w \in Workers, Enqueue(w) \/ RecordFailure(w) PROVE Holds(v, e)
    <2>1. CASE v = w
      <3>1. batch[w] # <<>>
        BY <1>4 DEF Enqueue, RecordFailure, Orderly
      <3>2. batch'[w] = Tail(batch[w]) /\ done'[w] \subseteq done[w] \cup {Head(batch[w])}
        BY <1>4 DEF Enqueue, RecordFailure, OutboxTypes
      <3> QED
        BY <2>1, <3>1, <3>2, HeadType DEF Holds
    <2>2. CASE v # w
      BY <1>1, <1>4, <2>2 DEF Enqueue, RecordFailure, OutboxTypes
    <2> QED
      BY <2>1, <2>2
  <1>5. ASSUME NEW w \in Workers, Finish(w) \/ Abort(w) \/ Crash(w) PROVE Holds(v, e)
    BY <1>5, ToSetEmpty DEF Finish, Abort, Crash, Forget, OutboxTypes, Holds
  <1>6. CASE UNCHANGED vars
    BY <1>1, <1>6 DEF vars, worker
  <1> QED
    BY <1>2, <1>3, <1>4, <1>5, <1>6 DEF Next, Work

LEMMA NextAlone ==
    ASSUME InHand, [Next]_vars
    PROVE  Alone'
  <1> USE DEF InHand
  <1> SUFFICES ASSUME NEW e \in Events, e \notin overlaps',
                      NEW w \in Workers, NEW v \in Workers, Holds(w, e)', Holds(v, e)'
               PROVE  w = v
    BY DEF Alone
  <1>1. e \notin overlaps
    BY Monotone
  <1>2. CASE ~ \E u \in Workers : Poll(u)
    BY <1>1, <1>2, HoldsLess DEF Alone
  <1>3. ASSUME NEW u \in Workers, Poll(u) PROVE w = v
    <2>1. PICK q \in Batches : Take(u, q)
      BY <1>3 DEF Poll
    <2>2. \A x \in Workers : Holds(x, e)' => Holds(x, e) \/ (x = u /\ e \in ToSet(q))
      BY <2>1 DEF Take, Holds, OutboxTypes
    <2>3. e \in ToSet(q) => \A x \in Workers : ~Holds(x, e)
      BY <1>1, <2>1 DEF Take
    <2> QED
      BY <1>1, <2>2, <2>3 DEF Alone
  <1> QED
    BY <1>2, <1>3

LEMMA InitInHand == Init => InHand
  <1> SUFFICES ASSUME Init PROVE InHand
    OBVIOUS
  <1>1. OutboxTypes
    BY DEF Init, OutboxTypes, Statuses, NothingRead
  <1>2. Alone /\ \A w \in Workers : Orderly(w)
    BY ToSetEmpty DEF Init, Alone, Holds, Orderly
  <1> QED
    BY <1>1, <1>2 DEF InHand

LEMMA NextInHand == InHand /\ [Next]_vars => InHand'
BY NextType, NextAlone, NextOrderly DEF InHand

-----------------------------------------------------------------------------
\* What a worker did for its events, and what it read of their attempts.
Earning(w) ==
    /\ \A e \in done[w] : published[e] > 0 /\ enqueued[e] > 0
    /\ pc[w] = "enqueue" => published[Head(batch[w])] > 0
    /\ \A e \in ToSet(batch[w]) : read[w][e] <= failures[e]
    /\ pc[w] = "failing" => read[w][Head(batch[w])] < failures[Head(batch[w])]

\* A worker may find the event at its next poll.
Open(e) == status[e] \in {"none", "Pending"}

Counted == \A e \in Events : Open(e) => attempts[e] <= failures[e]

Earnings == InHand /\ OutcomesEarned /\ Counted /\ \A w \in Workers : Earning(w)

LEMMA NextEarning ==
    ASSUME Earnings, [Next]_vars, NEW v \in Workers
    PROVE  Earning(v)'
  <1> USE DEF Earnings, InHand
  <1>0. /\ \A e \in Events : published[e] \in Nat /\ published'[e] \in Nat
                               /\ published[e] <= published'[e]
        /\ \A e \in Events : enqueued[e] \in Nat /\ enqueued'[e] \in Nat
                               /\ enqueued[e] <= enqueued'[e]
        /\ \A e \in Events : failures[e] \in Nat /\ failures'[e] \in Nat
                               /\ failures[e] <= failures'[e]
        /\ \A e \in Events : read[v][e] \in Nat
        /\ done[v] \subseteq Events /\ ToSet(batch[v]) \subseteq Events
        /\ pc[v] \in {"enqueue", "failing"} => Head(batch[v]) \in Events
    <2>1. /\ \A e \in Events : published[e] \in Nat /\ published'[e] \in Nat
                               /\ published[e] <= published'[e]
          /\ \A e \in Events : enqueued[e] \in Nat /\ enqueued'[e] \in Nat
                               /\ enqueued[e] <= enqueued'[e]
      BY Monotone DEF OutboxTypes
    <2>2. \A e \in Events : failures[e] \in Nat /\ failures'[e] \in Nat
                             /\ failures[e] <= failures'[e]
      BY Monotone DEF OutboxTypes
    <2>3. batch[v] \in Seq(Events) /\ done[v] \subseteq Events
          /\ \A e \in Events : read[v][e] \in Nat
      BY DEF OutboxTypes
    <2>4. pc[v] \in {"enqueue", "failing"} => batch[v] # <<>>
      BY DEF Orderly
    <2> QED
      BY <2>1, <2>2, <2>3, <2>4, HeadType, ToSetType
  <1>1. ASSUME UNCHANGED <<batch[v], done[v], read[v], pc[v]>> PROVE Earning(v)'
    BY <1>0, <1>1 DEF Earning
  <1>2. ASSUME NEW d \in Events, Produce(d) \/ RetryOutboxEvent(d) PROVE Earning(v)'
    BY <1>1, <1>2 DEF Produce, RetryOutboxEvent, worker
  <1>3. ASSUME NEW w \in Workers, w # v, Work(w) \/ Abort(w) \/ Crash(w) PROVE Earning(v)'
    <2>1. UNCHANGED <<batch[v], done[v], read[v], pc[v]>>
      BY <1>3 DEF OutboxTypes, Work, Poll, Take, Mark, Publish, Enqueue, Fail, RecordFailure,
                  EnqueueUnanswered, Finish, Abort, Crash, Forget
    <2> QED
      BY <1>1, <2>1
  <1>4. CASE Poll(v)
    <2>1. PICK q \in Batches : Take(v, q)
      BY <1>4 DEF Poll
    <2>2. /\ pc'[v] = "mark" /\ batch'[v] = q /\ done'[v] = {}
          /\ \A e \in Events : e \in ToSet(q) => read'[v][e] = attempts[e]
          /\ failures' = failures
      BY <1>4, <2>1 DEF Poll, Take, OutboxTypes, Orderly
    <2>3. \A e \in ToSet(q) : e \in Events /\ attempts[e] <= failures[e]
      BY BatchType, ToSetType DEF Counted, Open
    <2> QED
      BY <2>2, <2>3 DEF Earning
  <1>5. CASE Mark(v)
    <2>1. pc'[v] = "event" /\ UNCHANGED <<batch, done, read, published, enqueued, failures>>
      BY <1>5 DEF Mark, OutboxTypes, effects, history
    <2> QED
      BY <2>1 DEF Earning
  <1>6. CASE Publish(v)
    <2>1. /\ pc'[v] = "enqueue" /\ UNCHANGED <<batch, done, read, failures>>
          /\ Head(batch[v]) \in Events
          /\ published' = [published EXCEPT ![Head(batch[v])] = @ + 1]
      BY <1>6, HeadType DEF Publish, OutboxTypes, history
    <2>2. published'[Head(batch[v])] > 0
      BY <1>0, <2>1 DEF OutboxTypes
    <2> QED
      BY <1>0, <2>1, <2>2 DEF Earning
  <1>7. CASE Enqueue(v)
    <2>1. batch[v] # <<>> /\ Head(batch[v]) \in Events
      BY <1>7, HeadType DEF Enqueue, Orderly
    <2>2. /\ pc'[v] = "event" /\ batch'[v] = Tail(batch[v])
          /\ done'[v] = done[v] \cup {Head(batch[v])}
          /\ enqueued' = [enqueued EXCEPT ![Head(batch[v])] = @ + 1]
          /\ UNCHANGED <<read, published, failures>>
      BY <1>7 DEF Enqueue, OutboxTypes, history
    <2>3. enqueued'[Head(batch[v])] > 0 /\ published'[Head(batch[v])] > 0
      <3>1. enqueued'[Head(batch[v])] = enqueued[Head(batch[v])] + 1
        BY <2>1, <2>2 DEF OutboxTypes
      <3>2. published[Head(batch[v])] > 0
        BY <1>7 DEF Enqueue, Earning
      <3> QED
        BY <1>0, <2>1, <2>2, <3>1, <3>2
    <2>4. \A e \in ToSet(Tail(batch[v])) : e \in ToSet(batch[v])
      BY <2>1, HeadType
    <2>5. \A e \in done'[v] : published'[e] > 0 /\ enqueued'[e] > 0
      <3>1. \A e \in done[v] : e \in Events /\ published[e] > 0 /\ enqueued[e] > 0
        BY <1>0 DEF Earning
      <3>2. \A e \in done[v] : published'[e] > 0 /\ enqueued'[e] > 0
        BY <1>0, <3>1
      <3> QED
        BY <2>2, <2>3, <3>2
    <2>6. \A e \in ToSet(batch'[v]) : read'[v][e] <= failures'[e]
      BY <2>2, <2>4 DEF Earning
    <2> QED
      BY <2>2, <2>5, <2>6 DEF Earning
  <1>8. CASE Fail(v)
    <2>1. batch[v] # <<>> /\ Head(batch[v]) \in Events /\ Head(batch[v]) \in ToSet(batch[v])
      BY <1>8, HeadType DEF Fail, Orderly
    <2>2. /\ pc'[v] = "failing" /\ UNCHANGED <<batch, done, read, published, enqueued>>
          /\ failures' = [failures EXCEPT ![Head(batch[v])] = @ + 1]
      BY <1>8 DEF Fail, OutboxTypes, effects
    <2>3. read[v][Head(batch[v])] < failures'[Head(batch[v])]
      <3> DEFINE e == Head(batch[v])
      <3>1. read[v][e] \in Nat /\ failures[e] \in Nat /\ read[v][e] <= failures[e]
        BY <1>0, <2>1 DEF Earning
      <3>2. failures'[e] = failures[e] + 1
        BY <2>1, <2>2 DEF OutboxTypes
      <3> QED
        BY <3>1, <3>2
    <2>4. \A e \in ToSet(batch[v]) : read[v][e] <= failures'[e]
      <3>1. \A e \in ToSet(batch[v]) : e \in Events /\ read[v][e] <= failures[e]
        BY <1>0 DEF Earning
      <3> QED
        BY <1>0, <3>1
    <2> QED
      BY <2>2, <2>3, <2>4 DEF Earning
  <1>9. CASE RecordFailure(v)
    <2>1. batch[v] # <<>>
      BY <1>9 DEF RecordFailure, Orderly
    <2>2. /\ pc'[v] = "event" /\ batch'[v] = Tail(batch[v])
          /\ UNCHANGED <<done, read, published, enqueued, failures>>
      BY <1>9 DEF RecordFailure, OutboxTypes, effects, history
    <2>3. \A e \in ToSet(Tail(batch[v])) : e \in ToSet(batch[v])
      BY <2>1, HeadType
    <2> QED
      BY <2>2, <2>3 DEF Earning
  <1>10. CASE Finish(v)
    <2>1. /\ pc'[v] = "idle" /\ batch'[v] = <<>> /\ done'[v] = {}
      BY <1>10 DEF Finish, OutboxTypes
    <2> QED
      BY <2>1, ToSetEmpty DEF Earning
  <1>11. CASE Abort(v) \/ Crash(v)
    <2>1. /\ pc'[v] = "idle" /\ batch'[v] = <<>> /\ done'[v] = {}
      BY <1>11 DEF Abort, Crash, Forget, OutboxTypes
    <2> QED
      BY <2>1, ToSetEmpty DEF Earning
  <1>12. CASE EnqueueUnanswered(v)
    <2>1. batch[v] # <<>> /\ Head(batch[v]) \in Events /\ Head(batch[v]) \in ToSet(batch[v])
      BY <1>12, HeadType DEF EnqueueUnanswered, Orderly
    <2>2. /\ pc'[v] = "failing" /\ UNCHANGED <<batch, done, read, published>>
          /\ failures' = [failures EXCEPT ![Head(batch[v])] = @ + 1]
      BY <1>12 DEF EnqueueUnanswered, OutboxTypes
    <2>3. read[v][Head(batch[v])] < failures'[Head(batch[v])]
      <3> DEFINE e == Head(batch[v])
      <3>1. read[v][e] \in Nat /\ failures[e] \in Nat /\ read[v][e] <= failures[e]
        BY <1>0, <2>1 DEF Earning
      <3>2. failures'[e] = failures[e] + 1
        BY <2>1, <2>2 DEF OutboxTypes
      <3> QED
        BY <3>1, <3>2
    <2>4. \A e \in ToSet(batch[v]) : read[v][e] <= failures'[e]
      <3>1. \A e \in ToSet(batch[v]) : e \in Events /\ read[v][e] <= failures[e]
        BY <1>0 DEF Earning
      <3> QED
        BY <1>0, <3>1
    <2>5. \A e \in done[v] : published'[e] > 0 /\ enqueued'[e] > 0
      <3>1. \A e \in done[v] : e \in Events /\ published[e] > 0 /\ enqueued[e] > 0
        BY <1>0 DEF Earning
      <3> QED
        BY <1>0, <3>1
    <2> QED
      BY <2>2, <2>3, <2>4, <2>5 DEF Earning
  <1>13. CASE UNCHANGED vars
    BY <1>1, <1>13 DEF vars, worker
  <1> QED
    BY <1>2, <1>3, <1>4, <1>5, <1>6, <1>7, <1>8, <1>9, <1>10, <1>11, <1>12, <1>13 DEF Next, Work

LEMMA NextOutcomes ==
    ASSUME Earnings, [Next]_vars
    PROVE  OutcomesEarned' /\ Counted'
  <1> USE DEF Earnings, InHand
  <1> DEFINE Deserved(e) ==
              /\ status[e] = "Processed" => published[e] > 0 /\ enqueued[e] > 0
              /\ status[e] = "Failed" => failures[e] >= MaxAttempts
              /\ Open(e) => attempts[e] <= failures[e]
  <1> SUFFICES ASSUME NEW e \in Events PROVE Deserved(e)'
    BY DEF OutcomesEarned, NoSilentLoss, DeadLettersTried, Counted
  <1>0. /\ published[e] \in Nat /\ published'[e] \in Nat /\ published[e] <= published'[e]
        /\ enqueued[e] \in Nat /\ enqueued'[e] \in Nat /\ enqueued[e] <= enqueued'[e]
        /\ failures[e] \in Nat /\ failures'[e] \in Nat /\ failures[e] <= failures'[e]
        /\ attempts[e] \in Nat /\ MaxAttempts \in Nat /\ status \in [Events -> Statuses]
    BY Monotone, OutboxAssumption DEF OutboxTypes
  <1>1. Deserved(e)
    BY DEF OutcomesEarned, NoSilentLoss, DeadLettersTried, Counted
  <1>2. ASSUME UNCHANGED <<status[e], attempts[e]>> PROVE Deserved(e)'
    BY <1>0, <1>1, <1>2 DEF Open
  <1>3. ASSUME NEW d \in Events, Produce(d) PROVE Deserved(e)'
    <2>1. CASE e = d
      <3>1. status[e] = "none" /\ status'[e] = "Pending" /\ attempts' = attempts
        BY <1>3, <2>1 DEF Produce, OutboxTypes
      <3> QED
        BY <1>0, <1>1, <3>1 DEF Open
    <2>2. CASE e # d
      BY <1>2, <1>3, <2>2 DEF Produce, OutboxTypes
    <2> QED
      BY <2>1, <2>2
  <1>4. ASSUME NEW d \in Events, RetryOutboxEvent(d) PROVE Deserved(e)'
    <2>1. /\ status' = [status EXCEPT ![d] = "Pending"]
          /\ attempts' = [attempts EXCEPT ![d] = 0]
      BY <1>4 DEF RetryOutboxEvent
    <2>2. CASE e = d
      <3>1. status'[e] = "Pending" /\ attempts'[e] = 0
        BY <2>1, <2>2 DEF OutboxTypes
      <3> QED
        BY <1>0, <3>1 DEF Open
    <2>3. CASE e # d
      BY <1>2, <2>1, <2>3 DEF OutboxTypes
    <2> QED
      BY <2>2, <2>3
  <1>5. ASSUME NEW w \in Workers, Poll(w) \/ Publish(w) \/ Enqueue(w) \/ Fail(w)
                                  \/ EnqueueUnanswered(w) \/ Abort(w) \/ Crash(w)
        PROVE  Deserved(e)'
    BY <1>2, <1>5 DEF Poll, Take, Publish, Enqueue, Fail, EnqueueUnanswered, Abort, Crash,
                      Forget, rows
  <1>6. ASSUME NEW w \in Workers, Mark(w) PROVE Deserved(e)'
    <2>1. (status'[e] = "Processing" \/ status'[e] = status[e]) /\ attempts' = attempts
      BY <1>6 DEF Mark
    <2> QED
      BY <1>0, <1>1, <2>1 DEF Open
  <1>7. ASSUME NEW w \in Workers, RecordFailure(w) PROVE Deserved(e)'
    <2>1. batch[w] # <<>>
      BY <1>7 DEF RecordFailure, Orderly
    <2>2. CASE e = Head(batch[w])
      <3>1. /\ attempts'[e] = read[w][e] + 1
            /\ status'[e] = IF read[w][e] + 1 >= MaxAttempts THEN "Failed" ELSE "Pending"
        BY <1>7, <2>2 DEF RecordFailure, OutboxTypes
      <3>2. read[w][e] \in Nat /\ read[w][e] < failures[e]
        BY <1>7, <2>2 DEF RecordFailure, Earning, OutboxTypes
      <3> QED
        BY <1>0, <3>1, <3>2 DEF Open
    <2>3. CASE e # Head(batch[w])
      BY <1>2, <1>7, <2>3 DEF RecordFailure, OutboxTypes
    <2> QED
      BY <2>2, <2>3
  <1>8. ASSUME NEW w \in Workers, Finish(w) PROVE Deserved(e)'
    <2>1. CASE e \in done[w]
      <3>1. status'[e] = "Processed" /\ published[e] > 0 /\ enqueued[e] > 0
        BY <1>8, <2>1 DEF Finish, Earning
      <3> QED
        BY <1>0, <3>1 DEF Open
    <2>2. CASE e \notin done[w]
      BY <1>2, <1>8, <2>2 DEF Finish, OutboxTypes
    <2> QED
      BY <2>1, <2>2
  <1>9. CASE UNCHANGED vars
    BY <1>2, <1>9 DEF vars, rows
  <1> QED
    BY <1>3, <1>4, <1>5, <1>6, <1>7, <1>8, <1>9 DEF Next, Work

LEMMA InitEarnings == Init => Earnings
  <1> SUFFICES ASSUME Init PROVE Earnings
    OBVIOUS
  <1>1. InHand
    BY InitInHand
  <1>2. OutcomesEarned /\ Counted
    BY DEF Init, OutcomesEarned, NoSilentLoss, DeadLettersTried, Counted
  <1>3. \A w \in Workers : Earning(w)
    BY ToSetEmpty DEF Init, Earning
  <1> QED
    BY <1>1, <1>2, <1>3 DEF Earnings

LEMMA NextEarnings == Earnings /\ [Next]_vars => Earnings'
BY NextInHand, NextEarning, NextOutcomes DEF Earnings

\* The worker gives an event neither end for nothing: what is marked processed
\* was published and enqueued (by whichever worker), and what is marked dead
\* failed MaxAttempts times.
THEOREM Outcomes == Spec => []OutcomesEarned
  <1>1. Earnings => OutcomesEarned
    BY DEF Earnings
  <1> QED
    BY <1>1, InitEarnings, NextEarnings, PTL DEF Spec

-----------------------------------------------------------------------------
\* How often an event may be enqueued beyond the first time.
Again(e) == resets[e] + lost[e]

\* The deliveries inserted for an event that no two workers had at once.
Answered(e) ==
    /\ enqueued[e] <= 1 + Again(e)
    /\ Open(e) => enqueued[e] <= Again(e)

\* An event that a worker has still to do: it was taken when it was pending,
\* and if it is pending again the administrator asked once more.
Awaited(w, e) ==
    /\ enqueued[e] <= Again(e)
    /\ pc[w] = "mark" => status[e] = "Pending"
    /\ pc[w] # "mark" /\ Open(e) => enqueued[e] < Again(e)

Single(e) ==
    /\ Answered(e)
    /\ \A w \in Workers :
        /\ Holds(w, e) => ~Settled(e)
        /\ e \in ToSet(batch[w]) => Awaited(w, e)

Singles == InHand /\ \A e \in Events \ overlaps : Single(e)

\* Whatever another worker has in hand is not this event.
LEMMA NotMine ==
    ASSUME InHand, NEW e \in Events \ overlaps, NEW w \in Workers, Holds(w, e),
           NEW v \in Workers, v # w
    PROVE  ~Holds(v, e) /\ e \notin ToSet(batch[v]) /\ e \notin done[v]
BY DEF InHand, Alone, Holds

LEMMA NextSingle ==
    ASSUME Singles, [Next]_vars, NEW e \in Events \ overlaps'
    PROVE  Single(e)'
  <1> USE DEF Singles, InHand
  <1>0. /\ e \in Events \ overlaps
        /\ enqueued[e] \in Nat /\ enqueued'[e] \in Nat
        /\ resets[e] \in Nat /\ resets'[e] \in Nat /\ resets[e] <= resets'[e]
        /\ lost[e] \in Nat /\ lost'[e] \in Nat
        /\ Again(e) \in Nat
        /\ status[e] \in Statuses
    BY Monotone DEF OutboxTypes, Again
  <1>1. Single(e)
    BY <1>0
  \* A step that leaves the event alone, and lets a worker only lose it.
  <1>2. ASSUME UNCHANGED <<status[e], enqueued[e], resets[e], lost[e]>>,
               \A v \in Workers : Holds(v, e)' => Holds(v, e),
               \A v \in Workers : (e \in ToSet(batch[v]))' =>
                    e \in ToSet(batch[v]) /\ (pc'[v] = "mark" <=> pc[v] = "mark")
        PROVE  Single(e)'
    <2>1. Again(e)' = Again(e)
      BY <1>2 DEF Again
    <2> QED
      BY <1>0, <1>1, <1>2, <2>1 DEF Single, Answered, Awaited, Open, Settled
  <1>3. ASSUME NEW d \in Events, Produce(d) PROVE Single(e)'
    <2>1. UNCHANGED <<batch, done, pc, enqueued, resets, lost, Again(e)>>
      BY <1>3 DEF Produce, effects, worker, history, Again
    <2>2. CASE e = d
      <3>1. status[e] = "none" /\ status'[e] = "Pending"
        BY <1>3, <2>2 DEF Produce, OutboxTypes
      <3> QED
        BY <1>0, <1>1, <2>1, <3>1 DEF Single, Answered, Awaited, Open, Settled, Holds
    <2>3. CASE e # d
      <3>1. status'[e] = status[e]
        BY <1>3, <2>3 DEF Produce, OutboxTypes
      <3> QED
        BY <1>2, <2>1, <3>1 DEF Holds
    <2> QED
      BY <2>2, <2>3
  <1>4. ASSUME NEW d \in Events, RetryOutboxEvent(d) PROVE Single(e)'
    <2>1. /\ UNCHANGED <<batch, done, pc, enqueued, lost>>
          /\ status' = [status EXCEPT ![d] = "Pending"]
          /\ resets' = [resets EXCEPT ![d] = @ + 1]
      BY <1>4 DEF RetryOutboxEvent, effects, worker
    <2>2. CASE e = d
      <3>1. status'[e] = "Pending" /\ Again(e)' = Again(e) + 1
        <4>1. status'[e] = "Pending" /\ resets'[e] = resets[e] + 1
          BY <2>1, <2>2 DEF OutboxTypes
        <4> QED
          BY <1>0, <2>1, <4>1 DEF Again
      <3> QED
        BY <1>0, <1>1, <2>1, <3>1 DEF Single, Answered, Awaited, Open, Settled, Holds
    <2>3. CASE e # d
      <3>1. status'[e] = status[e] /\ resets'[e] = resets[e]
        BY <2>1, <2>3 DEF OutboxTypes
      <3> QED
        BY <1>2, <2>1, <3>1 DEF Holds
    <2> QED
      BY <2>2, <2>3
  <1>5. ASSUME NEW w \in Workers, Poll(w) PROVE Single(e)'
    <2>1. PICK q \in Batches : Take(w, q)
      BY <1>5 DEF Poll
    <2>2. /\ UNCHANGED <<status, done, enqueued, resets, lost, Again(e)>>
          /\ pc'[w] = "mark" /\ batch'[w] = q
          /\ \A v \in Workers : v # w => UNCHANGED <<pc[v], batch[v]>>
      BY <2>1 DEF Take, OutboxTypes, rows, effects, Again
    <2>3. CASE e \in ToSet(q)
      <3>1. \A v \in Workers : ~Holds(v, e)
        BY <1>0, <2>1, <2>3 DEF Take
      <3>2. status[e] = "Pending" /\ enqueued[e] <= Again(e)
        BY <1>1, <2>3, BatchType DEF Single, Answered, Open
      <3> QED
        BY <1>0, <1>1, <2>2, <3>1, <3>2 DEF Single, Answered, Awaited, Open, Settled, Holds
    <2>4. CASE e \notin ToSet(q)
      BY <1>2, <2>2, <2>4 DEF Holds
    <2> QED
      BY <2>3, <2>4
  <1>6. ASSUME NEW w \in Workers, Mark(w) PROVE Single(e)'
    <2>1. /\ UNCHANGED <<batch, done, enqueued, resets, lost, Again(e)>>
          /\ status'[e] = IF e \in ToSet(batch[w]) THEN "Processing" ELSE status[e]
          /\ pc'[w] = "event"
          /\ \A v \in Workers : v # w => pc'[v] = pc[v]
      BY <1>6 DEF Mark, OutboxTypes, effects, history, Again
    <2>2. CASE e \in ToSet(batch[w])
      <3>1. \A v \in Workers : v # w => e \notin ToSet(batch[v])
        BY <1>0, <2>2, NotMine DEF Holds
      <3>2. Awaited(w, e)
        BY <1>1, <2>2 DEF Single
      <3> QED
        BY <1>0, <1>1, <2>1, <2>2, <3>1, <3>2 DEF Single, Answered, Awaited, Open, Settled, Holds
    <2>3. CASE e \notin ToSet(batch[w])
      BY <1>2, <2>1, <2>3 DEF Holds
    <2> QED
      BY <2>2, <2>3
  <1>7. ASSUME NEW w \in Workers, Publish(w) \/ Fail(w) PROVE Single(e)'
    <2>1. UNCHANGED <<status, batch, done, enqueued, resets, lost>>
      BY <1>7 DEF Publish, Fail, rows, effects, history
    <2>2. pc[w] # "mark" /\ pc'[w] # "mark" /\ \A v \in Workers : v # w => pc'[v] = pc[v]
      BY <1>7 DEF Publish, Fail, OutboxTypes
    <2> QED
      BY <1>2, <2>1, <2>2 DEF Holds
  <1>8. ASSUME NEW w \in Workers, Enqueue(w) PROVE Single(e)'
    <2>1. batch[w] # <<>>
      BY <1>8 DEF Enqueue, Orderly
    <2>2. /\ pc[w] = "enqueue" /\ pc'[w] = "event"
          /\ batch'[w] = Tail(batch[w]) /\ done'[w] = done[w] \cup {Head(batch[w])}
          /\ enqueued' = [enqueued EXCEPT ![Head(batch[w])] = @ + 1]
          /\ UNCHANGED <<status, resets, lost, Again(e)>>
          /\ \A v \in Workers : v # w => UNCHANGED <<pc[v], batch[v], done[v]>>
      BY <1>8 DEF Enqueue, OutboxTypes, rows, history, Again
    <2>3. Holds(w, e)' => Holds(w, e)
      BY <2>1, <2>2, HeadType DEF Holds
    <2>4. CASE e = Head(batch[w])
      <3>1. /\ e \in ToSet(batch[w]) /\ e \notin ToSet(Tail(batch[w]))
            /\ enqueued'[e] = enqueued[e] + 1
        BY <2>1, <2>2, <2>4, HeadType DEF OutboxTypes, Orderly
      <3>2. \A v \in Workers : v # w => e \notin ToSet(batch[v]) /\ e \notin done[v]
        BY <1>0, <3>1, NotMine DEF Holds
      <3>3. Awaited(w, e) /\ ~Settled(e)
        BY <1>1, <3>1 DEF Single, Holds
      <3>4. Answered(e)'
        BY <1>0, <2>2, <3>1, <3>3 DEF Answered, Awaited, Open
      <3> QED
        BY <2>2, <3>1, <3>2, <3>3, <3>4 DEF Single, Settled, Holds
    <2>5. CASE e # Head(batch[w])
      <3>1. enqueued'[e] = enqueued[e]
        BY <1>0, <2>2, <2>5 DEF OutboxTypes
      <3>2. (e \in ToSet(batch[w]))' => e \in ToSet(batch[w])
        BY <2>1, <2>2, HeadType
      <3> QED
        BY <1>2, <2>2, <2>3, <3>1, <3>2 DEF Holds
    <2> QED
      BY <2>4, <2>5
  <1>9. ASSUME NEW w \in Workers, RecordFailure(w) PROVE Single(e)'
    <2>1. batch[w] # <<>>
      BY <1>9 DEF RecordFailure, Orderly
    <2>2. /\ pc[w] = "failing" /\ pc'[w] = "event"
          /\ batch'[w] = Tail(batch[w])
          /\ UNCHANGED <<enqueued, resets, lost, done, Again(e)>>
          /\ e # Head(batch[w]) => status'[e] = status[e]
          /\ e = Head(batch[w]) => status'[e] \in {"Failed", "Pending"}
          /\ \A v \in Workers : v # w => UNCHANGED <<pc[v], batch[v]>>
      BY <1>9 DEF RecordFailure, OutboxTypes, effects, history, Again
    <2>3. CASE e = Head(batch[w])
      <3>1. e \in ToSet(batch[w]) /\ e \notin ToSet(Tail(batch[w])) /\ e \notin done[w]
        BY <2>1, <2>3, HeadType DEF Orderly
      <3>2. \A v \in Workers : v # w => e \notin ToSet(batch[v]) /\ e \notin done[v]
        BY <1>0, <3>1, NotMine DEF Holds
      <3>3. Awaited(w, e)
        BY <1>1, <3>1 DEF Single
      <3>4. Answered(e)'
        BY <1>0, <2>2, <3>3 DEF Answered, Awaited, Open
      <3> QED
        BY <2>2, <3>1, <3>2, <3>4 DEF Single, Holds
    <2>4. CASE e # Head(batch[w])
      <3>1. (e \in ToSet(batch[w]))' => e \in ToSet(batch[w])
        BY <2>1, <2>2, HeadType
      <3> QED
        BY <1>2, <2>2, <2>4, <3>1 DEF Holds
    <2> QED
      BY <2>3, <2>4
  <1>10. ASSUME NEW w \in Workers, Finish(w) PROVE Single(e)'
    <2>1. /\ batch[w] = <<>> /\ pc[w] # "mark" /\ done'[w] = {} /\ pc'[w] = "idle"
          /\ status'[e] = IF e \in done[w] THEN "Processed" ELSE status[e]
          /\ UNCHANGED <<batch, enqueued, resets, lost, Again(e)>>
          /\ \A v \in Workers : v # w => UNCHANGED <<pc[v], done[v]>>
      BY <1>10 DEF Finish, OutboxTypes, effects, history, Again
    <2>2. CASE e \in done[w]
      <3>1. \A v \in Workers : v # w => e \notin ToSet(batch[v]) /\ e \notin done[v]
        BY <1>0, <2>2, NotMine DEF Holds
      <3> QED
        BY <1>1, <2>1, <2>2, <3>1, ToSetEmpty DEF Single, Answered, Open, Holds
    <2>3. CASE e \notin done[w]
      BY <1>2, <2>1, <2>3, ToSetEmpty DEF Holds
    <2> QED
      BY <2>2, <2>3
  <1>11. ASSUME NEW w \in Workers, Abort(w) \/ Crash(w) PROVE Single(e)'
    <2>1. /\ batch'[w] = <<>> /\ done'[w] = {}
          /\ UNCHANGED <<status, enqueued, resets, lost>>
          /\ \A v \in Workers : v # w => UNCHANGED <<pc[v], batch[v], done[v]>>
      BY <1>11 DEF Abort, Crash, Forget, OutboxTypes, rows, effects
    <2> QED
      BY <1>2, <2>1, ToSetEmpty DEF Holds
  <1>12. ASSUME NEW w \in Workers, EnqueueUnanswered(w) PROVE Single(e)'
    <2>1. /\ UNCHANGED <<status, batch, done, resets>>
          /\ pc[w] # "mark" /\ pc'[w] # "mark" /\ \A v \in Workers : v # w => pc'[v] = pc[v]
          /\ enqueued' = [enqueued EXCEPT ![Head(batch[w])] = @ + 1]
          /\ lost' = [lost EXCEPT ![Head(batch[w])] = @ + 1]
      BY <1>12 DEF EnqueueUnanswered, OutboxTypes, rows
    <2>2. CASE e = Head(batch[w])
      <3>1. enqueued'[e] = enqueued[e] + 1 /\ lost'[e] = lost[e] + 1
        BY <1>0, <2>1, <2>2 DEF OutboxTypes
      <3>2. Again(e)' = Again(e) + 1
        BY <1>0, <2>1, <3>1 DEF Again
      <3> QED
        BY <1>0, <1>1, <2>1, <3>1, <3>2 DEF Single, Answered, Awaited, Open, Settled, Holds
    <2>3. CASE e # Head(batch[w])
      <3>1. enqueued'[e] = enqueued[e] /\ lost'[e] = lost[e]
        BY <1>0, <2>1, <2>3 DEF OutboxTypes
      <3> QED
        BY <1>2, <2>1, <3>1 DEF Holds
    <2> QED
      BY <2>2, <2>3
  <1>13. CASE UNCHANGED vars
    BY <1>2, <1>13 DEF vars, rows, effects, worker, history, Holds
  <1> QED
    BY <1>3, <1>4, <1>5, <1>6, <1>7, <1>8, <1>9, <1>10, <1>11, <1>12, <1>13 DEF Next, Work

LEMMA InitSingles == Init => Singles
  <1> SUFFICES ASSUME Init PROVE Singles
    OBVIOUS
  <1>1. InHand
    BY InitInHand
  <1>2. ASSUME NEW e \in Events PROVE Single(e)
    BY ToSetEmpty DEF Init, Single, Answered, Awaited, Open, Settled, Holds, Again
  <1> QED
    BY <1>1, <1>2 DEF Singles

LEMMA NextSingles == Singles /\ [Next]_vars => Singles'
BY NextInHand, NextSingle DEF Singles

\* An event is delivered once, once more for each time the administrator asks,
\* and once more for each insertion whose answer was lost, unless two workers
\* had it at once; no other failure and no stop makes it be delivered again.
THEOREM DeliveredOncePerRequest == Spec => []DeliveredOnce
  <1>1. Singles => DeliveredOnce
    <2> SUFFICES ASSUME Singles, NEW e \in Events \ overlaps
                 PROVE  enqueued[e] <= 1 + resets[e] + lost[e]
      BY DEF DeliveredOnce
    <2>1. enqueued[e] <= 1 + Again(e)
      BY DEF Singles, Single, Answered
    <2>2. resets[e] \in Nat /\ lost[e] \in Nat
      BY DEF Singles, InHand, OutboxTypes
    <2> QED
      BY <2>1, <2>2 DEF Again
  <1> QED
    BY <1>1, InitSingles, NextSingles, PTL DEF Spec

\* What is processed or dead stays so until the administrator asks for it
\* again, unless two workers had the event at once.
THEOREM Settlement == Spec => SettledStays
  <1> DEFINE Kept == \A e \in Events : Settled(e) /\ status'[e] # status[e] =>
                        resets'[e] > resets[e] \/ e \in overlaps
  <1>1. ASSUME Singles, [Next]_vars PROVE Kept
    <2> SUFFICES ASSUME NEW e \in Events, Settled(e), status'[e] # status[e],
                        e \notin overlaps
                 PROVE  resets'[e] > resets[e]
      OBVIOUS
    <2>0. InHand /\ OutboxTypes /\ \A w \in Workers : ~Holds(w, e)
      BY <1>1 DEF Singles, Single, InHand
    <2>1. ASSUME NEW d \in Events, Produce(d) PROVE FALSE
      BY <2>0, <2>1 DEF Produce, OutboxTypes, Settled
    <2>2. ASSUME NEW d \in Events, RetryOutboxEvent(d) PROVE resets'[e] > resets[e]
      <3>1. /\ status' = [status EXCEPT ![d] = "Pending"]
            /\ resets' = [resets EXCEPT ![d] = @ + 1]
        BY <2>2 DEF RetryOutboxEvent
      <3>2. e = d
        BY <2>0, <3>1 DEF OutboxTypes
      <3>3. resets[e] \in Nat /\ resets'[e] = resets[e] + 1
        BY <2>0, <3>1, <3>2 DEF OutboxTypes
      <3> QED
        BY <3>3
    <2>3. ASSUME NEW w \in Workers,
                 Poll(w) \/ Publish(w) \/ Enqueue(w) \/ Fail(w) \/ EnqueueUnanswered(w)
                   \/ Abort(w) \/ Crash(w)
          PROVE  FALSE
      BY <2>3 DEF Poll, Take, Publish, Enqueue, Fail, EnqueueUnanswered, Abort, Crash, Forget,
                  rows
    <2>4. ASSUME NEW w \in Workers, Mark(w) \/ Finish(w) PROVE FALSE
      BY <2>0, <2>4 DEF Mark, Finish, Holds
    <2>5. ASSUME NEW w \in Workers, RecordFailure(w) PROVE FALSE
      <3>1. batch[w] # <<>>
        BY <2>0, <2>5 DEF RecordFailure, InHand, Orderly
      <3>2. e = Head(batch[w])
        BY <2>0, <2>5 DEF RecordFailure, OutboxTypes
      <3> QED
        BY <2>0, <3>1, <3>2, HeadType DEF Holds
    <2>6. CASE UNCHANGED vars
      BY <2>6 DEF vars, rows
    <2> QED
      BY <1>1, <2>1, <2>2, <2>3, <2>4, <2>5, <2>6 DEF Next, Work
  <1>2. Singles /\ [Next]_vars => [Kept]_vars
    BY <1>1
  <1> QED
    BY <1>2, InitSingles, NextSingles, PTL DEF Spec, SettledStays

-----------------------------------------------------------------------------
\* The deliveries.
Reports == UNION {[D -> BOOLEAN] : D \in SUBSET Rows}

DeliveryTypes ==
    /\ state \in [Rows -> {"none", "Pending", "Processing", "Success", "Failed"}]
    /\ tries \in [Rows -> Nat]
    /\ ended \in [Rows -> Nat]
    /\ at \in [Senders -> {"idle", "claim", "claimAfterQuery", "query", "post"}]
    /\ held \in [Senders -> SUBSET Rows]
    /\ seen \in [Senders -> [Rows -> Nat]]
    /\ results \in [Senders -> Reports]

\* Before a sender posts, nothing has ended.
Started(w) == at[w] # "post" => DOMAIN results[w] = {}

\* Nothing has happened to a row that was not inserted.
Fresh(d) ==
    state[d] = "none" => ended[d] = 0 /\ tries[d] = 0 /\ \A w \in Senders : d \notin held[w]

\* Who says that a row was received is right.
Honest(d) ==
    /\ state[d] = "Success" => d \in arrived
    /\ \A w \in Senders : d \in DOMAIN results[w] /\ results[w][d] => d \in arrived

\* No count of the attempts of a row, written or read, exceeds those that ended.
Tallied(d) ==
    /\ tries[d] <= ended[d]
    /\ state[d] = "Failed" => ended[d] >= MaxTries
    /\ \A w \in Senders :
        /\ seen[w][d] <= ended[d]
        /\ d \in DOMAIN results[w] => seen[w][d] < ended[d]

\* What is known of a row that no two senders had at once: its column counts
\* the attempts that have ended, but for the one its sender has in hand.
InWork(w, d) ==
    /\ seen[w][d] = tries[d]
    /\ tries[d] < MaxTries
    /\ ended[d] = IF d \in DOMAIN results[w] THEN tries[d] + 1 ELSE tries[d]
    /\ state[d] = IF at[w] \in {"claim", "claimAfterQuery"} THEN "Pending" ELSE "Processing"

Exact(d) ==
    /\ ended[d] <= MaxTries
    /\ state[d] = "Pending" => ended[d] = tries[d] /\ tries[d] < MaxTries
    /\ \A w \in Senders : d \in held[w] => InWork(w, d)
    /\ \A w, v \in Senders : d \in held[w] /\ d \in held[v] => w = v

Accounted(d) ==
    /\ Fresh(d)
    /\ Honest(d)
    /\ Tallied(d)
    /\ d \notin clashes => Exact(d)

DeliveryInv ==
    /\ DeliveryTypes
    /\ \A w \in Senders : Started(w)
    /\ \A d \in Rows : Accounted(d)

LEMMA ReportsFacts ==
    /\ NoResults \in Reports /\ DOMAIN NoResults = {}
    /\ \A r \in Reports, d \in Rows, ok \in BOOLEAN :
         [e \in DOMAIN r \cup {d} |-> IF e = d THEN ok ELSE r[e]] \in Reports
  <1>1. NoResults \in [{} -> BOOLEAN] /\ {} \in SUBSET Rows /\ DOMAIN NoResults = {}
    BY DEF NoResults
  <1>2. ASSUME NEW r \in Reports, NEW d \in Rows, NEW ok \in BOOLEAN
        PROVE  [e \in DOMAIN r \cup {d} |-> IF e = d THEN ok ELSE r[e]] \in Reports
    <2>1. PICK D \in SUBSET Rows : r \in [D -> BOOLEAN]
      BY DEF Reports
    <2>2. DOMAIN r \cup {d} \in SUBSET Rows
      BY <2>1
    <2>3. [e \in DOMAIN r \cup {d} |-> IF e = d THEN ok ELSE r[e]] \in [DOMAIN r \cup {d} -> BOOLEAN]
      BY <2>1
    <2> QED
      BY <2>2, <2>3 DEF Reports
  <1> QED
    BY <1>1, <1>2 DEF Reports

\* What a sender has reported, and one result more.
LEMMA ReportAdded ==
    ASSUME DeliveryTypes, NEW w \in Senders, NEW c \in Rows, NEW ok \in BOOLEAN
    PROVE  [e \in DOMAIN results[w] \cup {c} |-> IF e = c THEN ok ELSE results[w][e]] \in Reports
  <1>1. results[w] \in Reports
    BY DEF DeliveryTypes
  <1>2. ASSUME NEW r \in Reports
        PROVE  [e \in DOMAIN r \cup {c} |-> IF e = c THEN ok ELSE r[e]] \in Reports
    BY ReportsFacts, Zenon
  <1> QED
    BY <1>1, <1>2, Zenon

\* The insertion of rows that were not there.
LEMMA InsertKeeps ==
    ASSUME DeliveryInv, NEW new, \A d \in new : d \in Rows /\ state[d] = "none", Insert(new)
    PROVE  DeliveryInv'
  <1> USE DEF DeliveryInv
  <1>1. /\ state' = [d \in Rows |-> IF d \in new THEN "Pending" ELSE state[d]]
        /\ UNCHANGED <<tries, ended, at, held, seen, results, arrived, clashes>>
    BY DEF Insert, sender, trace
  <1>2. DeliveryTypes' /\ \A w \in Senders : Started(w)'
    BY <1>1 DEF DeliveryTypes, Started
  <1>3. ASSUME NEW d \in Rows PROVE Accounted(d)'
    <2>1. state'[d] = IF d \in new THEN "Pending" ELSE state[d]
      BY <1>1
    <2>2. CASE d \in new
      <3>1. /\ state[d] = "none" /\ state'[d] = "Pending" /\ ended[d] = 0 /\ tries[d] = 0
            /\ \A w \in Senders : d \notin held[w]
        BY <2>1, <2>2 DEF Accounted, Fresh
      <3> QED
        BY <1>1, <3>1, DeliveryAssumption DEF Accounted, Fresh, Honest, Tallied, Exact
    <2>3. CASE d \notin new
      BY <1>1, <2>1, <2>3 DEF Accounted, Fresh, Honest, Tallied, Exact, InWork
    <2> QED
      BY <2>2, <2>3
  <1> QED
    BY <1>2, <1>3

LEMMA PollKeeps ==
    ASSUME DeliveryInv, NEW w \in Senders, PollRows(w)
    PROVE  DeliveryInv'
  <1> USE DEF DeliveryInv, DeliveryTypes
  <1>1. PICK due \in SUBSET {d \in Rows : Due(d)} \ {{}} :
            /\ held' = [held EXCEPT ![w] = due]
            /\ clashes' = clashes \cup {d \in due : \E v \in Senders : d \in held[v]}
            /\ seen' = [seen EXCEPT ![w] = [d \in Rows |-> IF d \in due THEN tries[d] ELSE 0]]
    BY DEF PollRows
  <1>2. /\ at[w] = "idle"
        /\ at' = [at EXCEPT ![w] = "claim"]
        /\ UNCHANGED <<state, tries, ended, results, arrived>>
    BY DEF PollRows, deliveries
  <1>3. due \in SUBSET Rows /\ \A d \in due : state[d] = "Pending"
    BY <1>1 DEF Due
  <1>4. DeliveryTypes'
    BY <1>1, <1>2, <1>3
  <1>5. \A v \in Senders : Started(v)'
    BY <1>2 DEF Started
  <1>6. DOMAIN results[w] = {}
    BY <1>2 DEF Started
  <1>7. ASSUME NEW d \in Rows PROVE Accounted(d)'
    <2>1. Fresh(d)'
      BY <1>1, <1>2, <1>3 DEF Accounted, Fresh
    <2>2. Honest(d)'
      BY <1>2 DEF Accounted, Honest
    <2>3. Tallied(d)'
      BY <1>1, <1>2, <1>6 DEF Accounted, Tallied
    <2>4. ASSUME d \notin clashes' PROVE Exact(d)'
      <3>1. d \notin clashes /\ Exact(d)
        BY <1>1, <2>4 DEF Accounted
      <3>2. ASSUME d \in due PROVE \A v \in Senders : d \notin held[v]
        BY <1>1, <2>4, <3>2
      <3>3. ASSUME d \in due PROVE ended[d] = tries[d] /\ tries[d] < MaxTries /\ state[d] = "Pending"
        BY <1>3, <3>1, <3>3 DEF Exact
      <3>4. ASSUME NEW v \in Senders, d \in held'[v] PROVE InWork(v, d)'
        BY <1>1, <1>2, <1>6, <3>1, <3>3, <3>4 DEF Exact, InWork
      <3> QED
        BY <1>1, <1>2, <3>1, <3>2, <3>4 DEF Exact
    <2> QED
      BY <2>1, <2>2, <2>3, <2>4 DEF Accounted
  <1> QED
    BY <1>4, <1>5, <1>7

LEMMA ClaimKeeps ==
    ASSUME DeliveryInv, NEW w \in Senders, Claim(w) \/ Query(w)
    PROVE  DeliveryInv'
  <1> USE DEF DeliveryInv, DeliveryTypes
  <1>1. /\ at' = [at EXCEPT ![w] = IF Claim(w) THEN IF at[w] = "claim" THEN "query" ELSE "post"
                                   ELSE IF at[w] = "claim" THEN "claimAfterQuery" ELSE "post"]
        /\ state' = [d \in Rows |-> IF Claim(w) /\ d \in held[w] THEN "Processing" ELSE state[d]]
        /\ Claim(w) => at[w] \in {"claim", "claimAfterQuery"}
        /\ ~Claim(w) => at[w] \in {"claim", "query"}
        /\ UNCHANGED <<tries, ended, held, seen, results, arrived, clashes>>
    BY DEF Claim, Query, trace, deliveries
  <1>2. DeliveryTypes' /\ \A v \in Senders : Started(v)'
    BY <1>1 DEF Started
  <1>3. ASSUME NEW d \in Rows PROVE Accounted(d)'
    <2>1. Fresh(d)' /\ Honest(d)' /\ Tallied(d)'
      BY <1>1 DEF Accounted, Fresh, Honest, Tallied
    <2>2. ASSUME d \notin clashes PROVE Exact(d)'
      <3>1. Exact(d)
        BY <2>2 DEF Accounted
      <3>2. ASSUME NEW v \in Senders, d \in held[v] PROVE InWork(v, d)'
        <4>1. CASE v = w
          BY <1>1, <3>1, <3>2, <4>1 DEF Exact, InWork
        <4>2. CASE v # w
          BY <1>1, <3>1, <3>2, <4>2 DEF Exact, InWork
        <4> QED
          BY <4>1, <4>2
      <3> QED
        BY <1>1, <3>1, <3>2 DEF Exact
    <2> QED
      BY <1>1, <2>1, <2>2 DEF Accounted
  <1> QED
    BY <1>2, <1>3

LEMMA EndKeeps ==
    ASSUME DeliveryInv, NEW w \in Senders, NEW c \in held[w], Refuse(w, c) \/ Post(w, c)
    PROVE  DeliveryInv'
  <1>0. \A d \in Rows, b \in BOOLEAN :
            [e \in DOMAIN results[w] \cup {d} |-> IF e = d THEN b ELSE results[w][e]] \in Reports
    BY ReportAdded DEF DeliveryInv
  <1> USE DEF DeliveryInv, DeliveryTypes
  <1>1. PICK ok \in BOOLEAN : End(w, c, ok) /\ (ok => c \in arrived')
    BY DEF Refuse, Post
  <1>2. /\ c \in Rows /\ at[w] = "post" /\ c \notin DOMAIN results[w]
        /\ arrived \subseteq arrived'
    BY DEF Refuse, Post, Waiting
  <1> DEFINE q == [e \in DOMAIN results[w] \cup {c} |-> IF e = c THEN ok ELSE results[w][e]]
  <1>3. /\ results' = [results EXCEPT ![w] = q]
        /\ ended' = [ended EXCEPT ![c] = @ + 1]
        /\ UNCHANGED <<state, tries, at, held, seen, clashes>>
    BY <1>1 DEF End, deliveries
  <1>4. q \in Reports
    BY <1>0, <1>2, Zenon
  <1>5. DeliveryTypes'
    BY <1>2, <1>3, <1>4
  <1>6. \A v \in Senders : Started(v)'
    BY <1>2, <1>3 DEF Started
  <1>7. /\ results'[w] = q
        /\ \A v \in Senders : v # w => results'[v] = results[v]
        /\ DOMAIN q = DOMAIN results[w] \cup {c}
        /\ q[c] = ok
        /\ \A d \in DOMAIN results[w] : d # c => q[d] = results[w][d]
    BY <1>3
  <1> HIDE DEF q
  <1>8. ASSUME NEW d \in Rows PROVE Accounted(d)'
    <2>1. ended'[d] = (IF d = c THEN ended[d] + 1 ELSE ended[d]) /\ ended[d] \in Nat
      BY <1>3
    <2>2. Fresh(d)'
      BY <1>3, <2>1 DEF Accounted, Fresh
    <2>3. Honest(d)'
      <3>1. state'[d] = "Success" => d \in arrived'
        BY <1>2, <1>3 DEF Accounted, Honest
      <3>2. ASSUME NEW v \in Senders, d \in DOMAIN results'[v], results'[v][d]
            PROVE  d \in arrived'
        <4>1. CASE v = w /\ d = c
          BY <1>1, <1>7, <3>2, <4>1
        <4>2. CASE v = w /\ d # c
          BY <1>2, <1>7, <3>2, <4>2 DEF Accounted, Honest
        <4>3. CASE v # w
          BY <1>2, <1>7, <3>2, <4>3 DEF Accounted, Honest
        <4> QED
          BY <4>1, <4>2, <4>3
      <3> QED
        BY <3>1, <3>2 DEF Honest
    <2>4. Tallied(d)'
      <3>1. /\ tries'[d] = tries[d] /\ tries[d] \in Nat /\ tries[d] <= ended[d]
            /\ state'[d] = state[d]
            /\ state[d] = "Failed" => ended[d] >= MaxTries
        BY <1>3 DEF Accounted, Tallied
      <3>2. ASSUME NEW v \in Senders
            PROVE  /\ seen'[v][d] <= ended'[d]
                   /\ d \in DOMAIN results'[v] => seen'[v][d] < ended'[d]
        BY <1>3, <1>7, <2>1 DEF Accounted, Tallied
      <3> QED
        BY <2>1, <3>1, <3>2, DeliveryAssumption DEF Tallied
    <2>5. ASSUME d \notin clashes PROVE Exact(d)'
      <3>1. Exact(d)
        BY <2>5 DEF Accounted
      <3>2. CASE d = c
        <4>1. InWork(w, d) /\ \A v \in Senders : d \in held[v] => v = w
          BY <3>1, <3>2 DEF Exact
        <4>2. InWork(w, d)'
          BY <1>2, <1>3, <1>7, <2>1, <3>2, <4>1 DEF InWork
        <4>3. state[d] = "Processing" /\ ended'[d] <= MaxTries
          BY <1>2, <2>1, <3>2, <4>1, DeliveryAssumption DEF InWork
        <4> QED
          BY <1>3, <3>1, <4>1, <4>2, <4>3 DEF Exact
      <3>3. CASE d # c
        <4>1. \A v \in Senders : d \in DOMAIN results'[v] <=> d \in DOMAIN results[v]
          BY <1>7, <3>3
        <4> QED
          BY <1>3, <2>1, <3>1, <3>3, <4>1 DEF Exact, InWork
      <3> QED
        BY <3>2, <3>3
    <2> QED
      BY <1>3, <2>2, <2>3, <2>4, <2>5 DEF Accounted
  <1> QED
    BY <1>5, <1>6, <1>8

\* A sender gives its rows back, having written the outcome of some or all.
LEMMA RestKeeps ==
    ASSUME DeliveryInv, NEW w \in Senders, NEW written \in SUBSET held[w],
           written \subseteq DOMAIN results[w], Write(w, written), Rest(w)
    PROVE  DeliveryInv'
  <1> USE DEF DeliveryInv, DeliveryTypes
  <1>1. /\ state' = [d \in Rows |-> IF d \in written THEN Outcome(w, d) ELSE state[d]]
        /\ tries' = [d \in Rows |-> IF d \in written THEN seen[w][d] + 1 ELSE tries[d]]
        /\ held' = [held EXCEPT ![w] = {}]
        /\ results' = [results EXCEPT ![w] = NoResults]
        /\ seen' = [seen EXCEPT ![w] = [d \in Rows |-> 0]]
        /\ at' = [at EXCEPT ![w] = "idle"]
        /\ UNCHANGED <<ended, arrived, clashes>>
    BY DEF Write, Rest
  <1>2. NoResults \in Reports /\ DOMAIN NoResults = {}
    BY ReportsFacts
  <1>3. ASSUME NEW d \in Rows PROVE Outcome(w, d) \in {"Success", "Failed", "Pending"}
    BY DEF Outcome
  <1>4. DeliveryTypes'
    <2>1. state' \in [Rows -> {"none", "Pending", "Processing", "Success", "Failed"}]
      BY <1>1, <1>3
    <2>2. tries' \in [Rows -> Nat]
      BY <1>1
    <2> QED
      BY <1>1, <1>2, <2>1, <2>2
  <1>5. \A v \in Senders : Started(v)'
    BY <1>1, <1>2 DEF Started
  <1>6. ASSUME NEW d \in Rows PROVE Accounted(d)'
    <2>1. Accounted(d)
      OBVIOUS
    <2>2. /\ \A v \in Senders : d \in DOMAIN results'[v] => v # w /\ results'[v] = results[v]
          /\ \A v \in Senders : d \in held'[v] =>
               v # w /\ d \in held[v] /\ results'[v] = results[v] /\ at'[v] = at[v] /\ seen'[v] = seen[v]
          /\ \A v \in Senders : seen'[v][d] = (IF v = w THEN 0 ELSE seen[v][d])
          /\ ended'[d] \in Nat /\ ended'[d] = ended[d]
      BY <1>1, <1>2
    <2>3. CASE d \in written
      <3>1. /\ d \in held[w] /\ d \in DOMAIN results[w]
            /\ state'[d] = Outcome(w, d)
            /\ tries'[d] = seen[w][d] + 1
            /\ seen[w][d] \in Nat /\ tries[d] \in Nat
        BY <1>1, <2>3
      <3>2. Fresh(d)'
        BY <1>3, <3>1 DEF Fresh
      <3>3. Honest(d)'
        BY <1>1, <2>1, <2>2, <3>1 DEF Accounted, Honest, Outcome
      <3>4. Tallied(d)'
        BY <2>1, <2>2, <3>1, DeliveryAssumption DEF Accounted, Tallied, Outcome
      <3>5. ASSUME d \notin clashes PROVE Exact(d)'
        <4>1. /\ Exact(d) /\ InWork(w, d)
              /\ \A v \in Senders : d \in held[v] => v = w
          BY <2>1, <3>1, <3>5 DEF Accounted, Exact
        <4>2. \A v \in Senders : d \notin held'[v]
          BY <2>2, <4>1
        <4>3. ended[d] = tries[d] + 1 /\ seen[w][d] = tries[d]
          BY <3>1, <4>1 DEF InWork
        <4>4. state'[d] = "Pending" => tries'[d] < MaxTries
          BY <3>1, DeliveryAssumption DEF Outcome
        <4> QED
          BY <2>2, <3>1, <4>1, <4>2, <4>3, <4>4 DEF Exact
      <3> QED
        BY <1>1, <3>2, <3>3, <3>4, <3>5 DEF Accounted
    <2>4. CASE d \notin written
      <3>1. state'[d] = state[d] /\ tries'[d] = tries[d]
        BY <1>1, <2>4
      <3>2. Fresh(d)'
        BY <2>1, <2>2, <3>1 DEF Accounted, Fresh
      <3>3. Honest(d)'
        BY <1>1, <2>1, <2>2, <3>1 DEF Accounted, Honest
      <3>4. Tallied(d)'
        BY <2>1, <2>2, <3>1, DeliveryAssumption DEF Accounted, Tallied
      <3>5. ASSUME d \notin clashes PROVE Exact(d)'
        BY <2>1, <2>2, <3>1, <3>5 DEF Accounted, Exact, InWork
      <3> QED
        BY <1>1, <3>2, <3>3, <3>4, <3>5 DEF Accounted
    <2> QED
      BY <2>3, <2>4
  <1> QED
    BY <1>4, <1>5, <1>6

LEMMA DeliverKeeps ==
    ASSUME DeliveryInv, DeliverNext
    PROVE  DeliveryInv'
  <1>1. ASSUME NEW w \in Senders, PollRows(w) PROVE DeliveryInv'
    BY <1>1, PollKeeps
  <1>2. ASSUME NEW w \in Senders, Claim(w) \/ Query(w) PROVE DeliveryInv'
    BY <1>2, ClaimKeeps
  <1>3. ASSUME NEW w \in Senders, NEW c \in held[w], Refuse(w, c) \/ Post(w, c) PROVE DeliveryInv'
    BY <1>3, EndKeeps
  <1>4. ASSUME NEW w \in Senders, SaveResults(w) PROVE DeliveryInv'
    <2>1. held[w] \subseteq DOMAIN results[w] /\ Write(w, held[w]) /\ Rest(w)
      BY <1>4 DEF SaveResults, Waiting
    <2> QED
      BY <2>1, RestKeeps
  <1>5. ASSUME NEW w \in Senders, SaveSome(w) PROVE DeliveryInv'
    <2>1. PICK written \in SUBSET held[w] : Write(w, written)
      BY <1>5 DEF SaveSome
    <2>2. written \subseteq DOMAIN results[w] /\ Rest(w)
      BY <1>5 DEF SaveSome, Waiting
    <2> QED
      BY <2>1, <2>2, RestKeeps
  <1>6. ASSUME NEW w \in Senders, Abandon(w) PROVE DeliveryInv'
    <2>1. Rest(w) /\ state' = state /\ tries' = tries
      BY <1>6 DEF Abandon, deliveries
    <2>2. Write(w, {})
      BY <2>1 DEF Write, DeliveryInv, DeliveryTypes
    <2> QED
      BY <2>1, <2>2, RestKeeps
  <1>7. ASSUME NEW s \in Subscriptions, Toggle(s) PROVE DeliveryInv'
    BY <1>7 DEF Toggle, deliveries, sender, trace, DeliveryInv, DeliveryTypes, Started,
                Accounted, Fresh, Honest, Tallied, Exact, InWork
  <1> QED
    BY <1>1, <1>2, <1>3, <1>4, <1>5, <1>6, <1>7 DEF DeliverNext, Deliver

-----------------------------------------------------------------------------
\* The outbox workers and the senders together.  A row is inserted with the copy
\* of its event that its number says, and once.
LEMMA OutboxGoesOn == WebhooksNext => [Next]_vars
BY DEF WebhooksNext, EventNext, EnqueueRows, OutboxStep, Next, Work

\* A row that is there was inserted when its event was enqueued.
Inserted ==
    \A e \in Events, d \in Rows : d.event = e /\ state[d] # "none" => d.copy <= enqueued[e]

Fanning == InHand /\ DeliveryInv /\ Inserted

LEMMA InitFanning == WebhooksInit => Fanning
  <1> SUFFICES ASSUME WebhooksInit PROVE Fanning
    OBVIOUS
  <1>1. InHand
    BY InitInHand DEF WebhooksInit
  <1>2. NoResults \in Reports /\ DOMAIN NoResults = {}
    BY ReportsFacts
  <1>3. DeliveryTypes /\ \A w \in Senders : Started(w)
    BY <1>2 DEF WebhooksInit, DeliveriesInit, DeliveryTypes, Started
  <1>4. ASSUME NEW d \in Rows PROVE Accounted(d)
    <2>1. /\ state[d] = "none" /\ tries[d] = 0 /\ ended[d] = 0
          /\ \A w \in Senders : held[w] = {} /\ results[w] = NoResults /\ seen[w][d] = 0
      BY DEF WebhooksInit, DeliveriesInit
    <2> QED
      BY <1>2, <2>1, DeliveryAssumption DEF Accounted, Fresh, Honest, Tallied, Exact
  <1>5. Inserted
    BY DEF WebhooksInit, DeliveriesInit, Inserted
  <1> QED
    BY <1>1, <1>3, <1>4, <1>5 DEF Fanning, DeliveryInv

\* The senders insert nothing.
LEMMA NeverUninserted ==
    ASSUME DeliveryInv, DeliverNext, NEW d \in Rows, state[d] = "none"
    PROVE  state'[d] = "none"
  <1> USE DEF DeliveryInv, DeliveryTypes
  <1>0. \A w \in Senders : d \notin held[w]
    BY DEF Accounted, Fresh
  <1>1. ASSUME NEW w \in Senders, PollRows(w) \/ Query(w) PROVE state'[d] = "none"
    BY <1>1 DEF PollRows, Query, deliveries
  <1>2. ASSUME NEW w \in Senders, Claim(w) PROVE state'[d] = "none"
    BY <1>0, <1>2 DEF Claim
  <1>3. ASSUME NEW w \in Senders, NEW c \in held[w], Refuse(w, c) \/ Post(w, c)
        PROVE  state'[d] = "none"
    BY <1>3 DEF Refuse, Post, End, deliveries
  <1>4. ASSUME NEW w \in Senders, NEW written \in SUBSET held[w], Write(w, written)
        PROVE  state'[d] = "none"
    BY <1>0, <1>4 DEF Write
  <1>5. ASSUME NEW w \in Senders, Abandon(w) PROVE state'[d] = "none"
    BY <1>5 DEF Abandon, deliveries
  <1>6. ASSUME NEW s \in Subscriptions, Toggle(s) PROVE state'[d] = "none"
    BY <1>6 DEF Toggle, deliveries
  <1>7. ASSUME NEW w \in Senders, SaveResults(w) \/ SaveSome(w)
        PROVE  \E written \in SUBSET held[w] : Write(w, written)
    BY <1>7 DEF SaveResults, SaveSome
  <1> QED
    BY <1>1, <1>2, <1>3, <1>4, <1>5, <1>6, <1>7 DEF DeliverNext, Deliver

\* The rows that are inserted for an event are new, and its next copy.
LEMMA NewRows ==
    ASSUME Fanning, NEW w \in Workers, EnqueueRows(w)
    PROVE  /\ Head(batch[w]) \in Events
           /\ enqueued' = [enqueued EXCEPT ![Head(batch[w])] = @ + 1]
           /\ \A d \in Fanned(Head(batch[w])) :
                /\ d \in Rows /\ state[d] = "none"
                /\ d.event = Head(batch[w]) /\ d.copy = enqueued[Head(batch[w])] + 1
  <1> DEFINE e == Head(batch[w])
  <1>1. OutboxTypes /\ Orderly(w) /\ pc[w] = "enqueue"
    BY DEF Fanning, InHand, EnqueueRows, Enqueue, EnqueueUnanswered
  <1>2. e \in Events /\ enqueued[e] \in Nat
    BY <1>1, HeadType DEF Orderly, OutboxTypes
  <1>3. enqueued' = [enqueued EXCEPT ![e] = @ + 1]
    BY DEF EnqueueRows, Enqueue, EnqueueUnanswered
  <1>4. ASSUME NEW d \in Fanned(e)
        PROVE  d \in Rows /\ state[d] = "none" /\ d.event = e /\ d.copy = enqueued[e] + 1
    <2>1. d \in Rows /\ d.event = e /\ d.copy = enqueued[e] + 1
      BY <1>4 DEF Fanned
    <2>2. state[d] # "none" => d.copy <= enqueued[e]
      BY <1>2, <2>1 DEF Fanning, Inserted
    <2> QED
      BY <1>2, <2>1, <2>2
  <1> QED
    BY <1>2, <1>3, <1>4

LEMMA NextFanning == Fanning /\ [WebhooksNext]_allVars => Fanning'
  <1> SUFFICES ASSUME Fanning, [WebhooksNext]_allVars PROVE Fanning'
    OBVIOUS
  <1> USE DEF Fanning
  <1>1. [Next]_vars
    BY OutboxGoesOn DEF allVars
  <1>2. InHand'
    BY <1>1, NextInHand
  <1>3. \A e \in Events : enqueued[e] \in Nat /\ enqueued'[e] \in Nat /\ enqueued[e] <= enqueued'[e]
    BY <1>1, Monotone DEF InHand
  <1>4. CASE \E w \in Workers : EnqueueRows(w)
    <2>1. PICK w \in Workers : EnqueueRows(w)
      BY <1>4
    <2> DEFINE e == Head(batch[w])
    <2>2. /\ e \in Events /\ enqueued' = [enqueued EXCEPT ![e] = @ + 1]
          /\ \A d \in Fanned(e) : /\ d \in Rows /\ state[d] = "none"
                                  /\ d.event = e /\ d.copy = enqueued[e] + 1
      BY <2>1, NewRows
    <2>3. Insert(Fanned(e))
      BY <2>1 DEF EnqueueRows
    <2>4. DeliveryInv'
      BY <2>2, <2>3, InsertKeeps
    <2>5. enqueued'[e] = enqueued[e] + 1
      BY <2>2 DEF InHand, OutboxTypes
    <2>6. Inserted'
      <3> SUFFICES ASSUME NEW f \in Events, NEW d \in Rows, d.event = f, state'[d] # "none"
                   PROVE  d.copy <= enqueued'[f]
        BY DEF Inserted
      <3>1. CASE d \in Fanned(e)
        BY <1>3, <2>2, <2>5, <3>1, CopyAssumption
      <3>2. CASE d \notin Fanned(e)
        <4>1. d.copy <= enqueued[f]
          BY <2>3, <3>2 DEF Insert, Inserted
        <4>2. enqueued'[f] = IF f = e THEN enqueued[f] + 1 ELSE enqueued[f]
          BY <2>2 DEF InHand, OutboxTypes
        <4> QED
          BY <1>3, <4>1, <4>2, CopyAssumption
      <3> QED
        BY <3>1, <3>2
    <2> QED
      BY <1>2, <2>4, <2>6
  <1>5. CASE EventNext \/ UNCHANGED allVars
    <2>1. UNCHANGED <<deliveryVars, enqueued>>
      BY <1>5 DEF EventNext, OutboxStep, Produce, Poll, Take, Mark, Publish, Fail, RecordFailure,
                  Finish, Abort, Crash, Forget, effects, allVars, vars
    <2>2. DeliveryInv' /\ Inserted'
      BY <2>1 DEF deliveryVars, deliveries, sender, trace, DeliveryInv, DeliveryTypes, Started,
                  Accounted, Fresh, Honest, Tallied, Exact, InWork, Inserted
    <2> QED
      BY <1>2, <2>2
  <1>6. CASE DeliverNext /\ UNCHANGED vars
    <2>1. DeliveryInv'
      BY <1>6, DeliverKeeps
    <2>2. Inserted'
      BY <1>6, NeverUninserted DEF vars, effects, Inserted
    <2> QED
      BY <1>2, <2>1, <2>2
  <1> QED
    BY <1>4, <1>5, <1>6 DEF WebhooksNext

\* A row marked as delivered was received; one that was given up was tried
\* MaxTries times, and none that no two senders had at once is tried more often.
THEOREM DeliveriesEarned == WebhooksSpec => []EndsEarned
  <1>1. Fanning => EndsEarned
    <2> SUFFICES ASSUME Fanning, NEW d \in Rows
                 PROVE  /\ state[d] = "Success" => d \in arrived
                        /\ state[d] = "Failed" => ended[d] >= MaxTries
                        /\ d \notin clashes => ended[d] <= MaxTries
      BY DEF EndsEarned, SuccessArrived, AttemptsCounted
    <2>1. Accounted(d)
      BY DEF Fanning, DeliveryInv
    <2> QED
      BY <2>1 DEF Accounted, Honest, Tallied, Exact
  <1> QED
    BY <1>1, InitFanning, NextFanning, PTL DEF WebhooksSpec

\* A row that has ended stays as it is, unless two senders had it at once.
THEOREM DeliveriesEnd == WebhooksSpec => EndedStays
  <1> DEFINE Kept == \A d \in Rows \ clashes : Ended(d) => state'[d] = state[d]
  <1>1. ASSUME Fanning, [WebhooksNext]_allVars PROVE [Kept]_deliveryVars
    <2>1. ASSUME NEW d \in Rows \ clashes, Ended(d) PROVE state'[d] = state[d]
      <3>0. DeliveryInv /\ state \in [Rows -> {"none", "Pending", "Processing", "Success", "Failed"}]
        BY <1>1 DEF Fanning, DeliveryInv, DeliveryTypes
      <3>1. \A w \in Senders : d \notin held[w]
        <4>1. Exact(d) /\ state[d] \in {"Success", "Failed"}
          BY <2>1, <3>0 DEF DeliveryInv, Accounted, Ended
        <4> QED
          BY <4>1 DEF Exact, InWork
      <3>2. CASE \E w \in Workers : EnqueueRows(w)
        <4>1. PICK w \in Workers : EnqueueRows(w)
          BY <3>2
        <4>2. Insert(Fanned(Head(batch[w]))) /\ \A c \in Fanned(Head(batch[w])) : state[c] = "none"
          BY <1>1, <4>1, NewRows DEF EnqueueRows
        <4>3. d \notin Fanned(Head(batch[w]))
          BY <2>1, <4>2 DEF Ended
        <4> QED
          BY <4>2, <4>3 DEF Insert
      <3>3. CASE EventNext \/ UNCHANGED allVars
        BY <3>3 DEF EventNext, allVars, deliveryVars, deliveries
      <3>4. CASE DeliverNext
        <4>1. ASSUME NEW w \in Senders, PollRows(w) \/ Query(w) \/ Abandon(w)
              PROVE  state'[d] = state[d]
          BY <4>1 DEF PollRows, Query, Abandon, deliveries
        <4>2. ASSUME NEW w \in Senders, Claim(w) PROVE state'[d] = state[d]
          BY <3>0, <3>1, <4>2 DEF Claim
        <4>3. ASSUME NEW w \in Senders, NEW c \in held[w], Refuse(w, c) \/ Post(w, c)
              PROVE  state'[d] = state[d]
          BY <4>3 DEF Refuse, Post, End, deliveries
        <4>4. ASSUME NEW w \in Senders, SaveResults(w) \/ SaveSome(w)
              PROVE  state'[d] = state[d]
          BY <3>1, <4>4 DEF SaveResults, SaveSome, Write
        <4>5. ASSUME NEW s \in Subscriptions, Toggle(s) PROVE state'[d] = state[d]
          BY <4>5 DEF Toggle, deliveries
        <4> QED
          BY <3>4, <4>1, <4>2, <4>3, <4>4, <4>5 DEF DeliverNext, Deliver
      <3> QED
        BY <1>1, <3>2, <3>3, <3>4 DEF WebhooksNext
    <2> QED
      BY <2>1
  <1>2. Fanning /\ [WebhooksNext]_allVars => [Kept]_deliveryVars
    BY <1>1
  <1> QED
    BY <1>2, InitFanning, NextFanning, PTL DEF WebhooksSpec, EndedStays

=============================================================================
