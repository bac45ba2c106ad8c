----------------------------- MODULE Deliveries -----------------------------
(***************************************************************************)
(* Webhook deliveries.  OutboxWorker inserts a row for each active         *)
(* subscription (see Webhooks); WebhookDeliveryWorker polls for rows that  *)
(* are due, claims the batch while it reads the subscriptions, posts all   *)
(* of it at once, and writes the results in one transaction at the end.    *)
(* Every process runs a worker, and the claim looks at no status.  A post  *)
(* that fails or takes more than five seconds may have arrived.            *)
(***************************************************************************)
EXTENDS Naturals, FiniteSets

CONSTANTS Senders,        \* processes that deliver
          Rows,           \* rows that may be inserted, each with its
                          \* subscription in the field sub
          PostBatch,      \* take, 10 in the code
          MaxTries,       \* 5 in the code
          MaxMishaps,     \* bound: failed database calls and crashes
          MaxToggles      \* bound: calls that change a subscription

Subscriptions == {d.sub : d \in Rows}

ASSUME DeliveryAssumption ==
    /\ {PostBatch, MaxTries} \subseteq Nat \ {0}
    /\ {MaxMishaps, MaxToggles} \subseteq Nat

VARIABLES state, tries,   \* columns status and attempts of webhook_deliveries
          active,         \* subscriptions that exist and are active
          at, held,       \* of each sender: where it is, the rows it holds
          found, seen,    \* the subscriptions and attempts it has read
          results,        \* outcomes of the posts it has ended
          arrived,        \* history: rows that a post was received of
          ended,          \* history: attempts that have ended
          clashes,        \* history: rows polled while another sender held them
          stranded,       \* history: rows claimed by a pass that did not end
          mishaps, toggles

deliveries == <<state, tries>>
sender == <<at, held, found, seen, results>>
trace == <<arrived, ended, clashes, stranded, mishaps>>
deliveryVars == <<deliveries, active, sender, trace, toggles>>

NoResults == [d \in {} |-> TRUE]

DeliveriesInit ==
    /\ state = [d \in Rows |-> "none"]
    /\ tries = [d \in Rows |-> 0]
    /\ active = Subscriptions
    /\ at = [w \in Senders |-> "idle"]
    /\ held = [w \in Senders |-> {}]
    /\ found = [w \in Senders |-> {}]
    /\ seen = [w \in Senders |-> tries]
    /\ results = [w \in Senders |-> NoResults]
    /\ arrived = {}
    /\ ended = [d \in Rows |-> 0]
    /\ clashes = {}
    /\ stranded = {}
    /\ mishaps = 0
    /\ toggles = 0

-----------------------------------------------------------------------------
\* webhookDelivery.createMany, called by OutboxWorker.
Insert(new) ==
    /\ state' = [d \in Rows |-> IF d \in new THEN "Pending" ELSE state[d]]
    /\ UNCHANGED <<tries, active, sender, trace, toggles>>

\* updateWebhookSubscription with isActive, or deleteWebhookSubscription.
Toggle(s) ==
    /\ toggles < MaxToggles
    /\ toggles' = toggles + 1
    /\ active' = IF s \in active THEN active \ {s} ELSE active \cup {s}
    /\ UNCHANGED <<deliveries, sender, trace>>

\* Mutant of Due: a delivery that was given up is taken up again.
DueAgain(d) == state[d] \in {"Pending", "Failed"}

Due(d) == state[d] = "Pending"

\* Any of these rows may have waited long enough, and be the oldest that have.
PollRows(w) ==
    /\ at[w] = "idle"
    /\ \E due \in SUBSET {d \in Rows : Due(d)} \ {{}} :
        /\ Cardinality(due) <= PostBatch
        /\ held' = [held EXCEPT ![w] = due]
        /\ clashes' = clashes \cup {d \in due : \E v \in Senders : d \in held[v]}
        /\ seen' = [seen EXCEPT ![w] = [d \in Rows |-> IF d \in due THEN tries[d] ELSE 0]]
    /\ at' = [at EXCEPT ![w] = "claim"]
    /\ UNCHANGED <<deliveries, active, found, results, arrived, ended, stranded, mishaps, toggles>>

\* Promise.all of the claim and of the query for the subscriptions: the two
\* take effect in either order.
Claim(w) ==
    /\ at[w] \in {"claim", "claimAfterQuery"}
    /\ state' = [d \in Rows |-> IF d \in held[w] THEN "Processing" ELSE state[d]]
    /\ at' = [at EXCEPT ![w] = IF at[w] = "claim" THEN "query" ELSE "post"]
    /\ UNCHANGED <<tries, active, held, found, seen, results, trace, toggles>>

Query(w) ==
    /\ at[w] \in {"claim", "query"}
    /\ found' = [found EXCEPT ![w] = active]
    /\ at' = [at EXCEPT ![w] = IF at[w] = "claim" THEN "claimAfterQuery" ELSE "post"]
    /\ UNCHANGED <<deliveries, active, held, seen, results, trace, toggles>>

Waiting(w) == held[w] \ DOMAIN results[w]

End(w, d, ok) ==
    /\ results' = [results EXCEPT ![w] =
                       [e \in DOMAIN @ \cup {d} |-> IF e = d THEN ok ELSE @[e]]]
    /\ ended' = [ended EXCEPT ![d] = @ + 1]
    /\ UNCHANGED <<deliveries, active, at, held, found, seen, clashes, stranded, mishaps, toggles>>

\* No post without an active subscription, or to a URL that is not allowed.
Refuse(w, d) ==
    /\ at[w] = "post"
    /\ d \in Waiting(w)
    /\ d.sub \notin found[w]
    /\ End(w, d, FALSE)
    /\ UNCHANGED arrived

\* Mutant of Post: the answer of the receiver is not looked at.
PostBlindly(w, d) ==
    /\ at[w] = "post"
    /\ d \in Waiting(w)
    /\ d.sub \in found[w]
    /\ arrived' \in {arrived, arrived \cup {d}}
    /\ End(w, d, TRUE)

\* The receiver answers ok, or the post fails after it arrived or before.
Post(w, d) ==
    /\ at[w] = "post"
    /\ d \in Waiting(w)
    /\ d.sub \in found[w]
    /\ \/ End(w, d, TRUE) /\ arrived' = arrived \cup {d}
       \/ End(w, d, FALSE) /\ arrived' \in {arrived, arrived \cup {d}}

Outcome(w, d) ==
    IF results[w][d] THEN "Success"
    ELSE IF seen[w][d] + 1 >= MaxTries THEN "Failed" ELSE "Pending"

Write(w, written) ==
    /\ state' = [d \in Rows |-> IF d \in written THEN Outcome(w, d) ELSE state[d]]
    /\ tries' = [d \in Rows |-> IF d \in written THEN seen[w][d] + 1 ELSE tries[d]]

Rest(w) ==
    /\ held' = [held EXCEPT ![w] = {}]
    /\ results' = [results EXCEPT ![w] = NoResults]
    /\ found' = [found EXCEPT ![w] = {}]
    /\ seen' = [seen EXCEPT ![w] = [d \in Rows |-> 0]]
    /\ at' = [at EXCEPT ![w] = "idle"]
    /\ UNCHANGED <<active, arrived, ended, clashes, toggles>>

\* Mutant of SaveResults: only what was delivered is written.
SaveSuccesses(w) ==
    /\ at[w] = "post"
    /\ Waiting(w) = {}
    /\ Write(w, {d \in held[w] : results[w][d]})
    /\ Rest(w)
    /\ UNCHANGED <<stranded, mishaps>>

SaveResults(w) ==
    /\ at[w] = "post"
    /\ Waiting(w) = {}
    /\ Write(w, held[w])
    /\ Rest(w)
    /\ UNCHANGED <<stranded, mishaps>>

\* The transaction failed; of the single updates some may fail too.
SaveSome(w) ==
    /\ at[w] = "post"
    /\ Waiting(w) = {}
    /\ mishaps < MaxMishaps
    /\ mishaps' = mishaps + 1
    /\ \E written \in SUBSET held[w] :
        /\ Write(w, written)
        /\ stranded' = stranded \cup (held[w] \ written)
    /\ Rest(w)

\* A query or the claim fails, or the process stops and is started again.
Abandon(w) ==
    /\ at[w] # "idle"
    /\ mishaps < MaxMishaps
    /\ mishaps' = mishaps + 1
    /\ stranded' = stranded \cup held[w]
    /\ Rest(w)
    /\ UNCHANGED deliveries

Deliver(w) ==
    \/ PollRows(w) \/ Claim(w) \/ Query(w) \/ SaveResults(w)
    \/ \E d \in held[w] : Refuse(w, d) \/ Post(w, d)

DeliverNext ==
    \/ \E w \in Senders : Deliver(w) \/ SaveSome(w) \/ Abandon(w)
    \/ \E s \in Subscriptions : Toggle(s)

-----------------------------------------------------------------------------
Ended(d) == state[d] \in {"Success", "Failed"}

\* What is marked delivered was received, whichever worker has marked it.
SuccessArrived == \A d \in Rows : state[d] = "Success" => d \in arrived

\* A delivery is given up only after MaxTries attempts, although workers that
\* hold it at once write their counts over each other; and one that no two
\* workers have held at once is never tried more often than that.
AttemptsCounted ==
    \A d \in Rows :
        /\ state[d] = "Failed" => ended[d] >= MaxTries
        /\ d \notin clashes => ended[d] <= MaxTries

\* Neither end of a delivery comes for nothing.
EndsEarned == SuccessArrived /\ AttemptsCounted

\* A delivery that has ended stays as it is, unless two workers held it at once
\* (the late failure of one then overwrites the success of the other).
EndedStays ==
    [][\A d \in Rows \ clashes : Ended(d) => state'[d] = state[d]]_deliveryVars
=============================================================================
