------------------------------ MODULE Webhooks ------------------------------
(***************************************************************************)
(* From an event to its subscribers: the outbox (Outbox), whose worker     *)
(* inserts the deliveries of an event, and the workers that post them      *)
(* (Deliveries), each with its crashes and failures.  An event that is     *)
(* enqueued again, because two workers had it or because the answer to an  *)
(* insertion was lost, gets rows of its own each time: a row has its       *)
(* event, its subscription and, in the field copy, the number of the       *)
(* insertion.  The manual retry of an event is in Outbox only.             *)
(***************************************************************************)
EXTENDS Outbox, Deliveries

CONSTANT MaxTroubles    \* bound: failures and stops on either side, and
                        \* changes of subscriptions, all together

ASSUME CopyAssumption == \A d \in Rows : d.copy \in Nat

allVars == <<vars, deliveryVars>>

WebhooksInit == Init /\ DeliveriesInit

\* A row of every active subscription.  (The query and the insertion are two
\* calls; a subscription that changes in between is one that changes after.)
Fanned(e) ==
    {d \in Rows : d.event = e /\ d.sub \in active /\ d.copy = enqueued[e] + 1}

EnqueueRows(w) ==
    /\ Enqueue(w) \/ EnqueueUnanswered(w)
    /\ Insert(Fanned(Head(batch[w])))

OutboxStep(w) ==
    \/ Poll(w) \/ Mark(w) \/ Publish(w)
    \/ Fail(w) \/ RecordFailure(w) \/ Finish(w)

EventNext ==
    /\ \/ \E e \in Events : Produce(e)
       \/ \E w \in Workers : OutboxStep(w) \/ Abort(w) \/ Crash(w)
    /\ UNCHANGED deliveryVars

Serve(w) == EnqueueRows(w) \/ (OutboxStep(w) /\ UNCHANGED deliveryVars)

WebhooksNext ==
    /\ \/ EventNext
       \/ \E w \in Workers : EnqueueRows(w)
       \/ DeliverNext /\ UNCHANGED vars
    /\ faults' + mishaps' + toggles' <= MaxTroubles

WebhooksSpec == WebhooksInit /\ [][WebhooksNext]_allVars

\* The timers of both kinds of workers keep firing.
WebhooksFairSpec ==
    /\ WebhooksSpec
    /\ \A w \in Workers : WF_allVars(Serve(w))
    /\ \A w \in Senders : WF_allVars(Deliver(w) /\ UNCHANGED vars)

-----------------------------------------------------------------------------
\* Every event reaches its end at every subscription that was active all the
\* time: delivered or given up after MaxTries attempts.  What may stop it is
\* the event's own failure, or a worker that stops with the event or one of its
\* deliveries in a batch, which no later pass looks at.
SubscribersServed ==
    \A e \in Events, s \in Subscriptions :
        [](status[e] # "none" =>
              <>(\/ \E d \in Rows : d.event = e /\ d.sub = s /\ Ended(d)
                 \/ \E d \in stranded : d.event = e /\ d.sub = s
                 \/ status[e] = "Failed"
                 \/ e \in orphans
                 \/ toggles > 0))
=============================================================================
