------------------------ MODULE ShopifyOrdersProofs ------------------------
(***************************************************************************)
(* Sales that are booked in the ledger, for any sellers, messages, lines   *)
(* and faults.                                                             *)
(*                                                                         *)
(* Ends of messages: about one message, as in WebhooksProofs.  A message   *)
(* that no two workers had at once is in one worker's hands, is being      *)
(* processed while it is there, and has been booked no more often than     *)
(* commits have failed until its own append.  What an order is booked is   *)
(* the sum over the messages that tell of it.                              *)
(*                                                                         *)
(* Overselling: what counts is not the stock but what will be left of it   *)
(* when all who have checked have appended (Left).  An append and a crash  *)
(* do not lower it; a check does, but a check sees the stock itself, so    *)
(* that afterwards nobody but the others who have checked can be owed.     *)
(***************************************************************************)
EXTENDS ShopifyOrders, CommonTheorems

\* What a worker has in hand.
Orderly(w) ==
    /\ Distinct(batch[w])
    /\ ToSet(batch[w]) \cap done[w] = {}
    /\ pc[w] = "idle" => batch[w] = <<>> /\ done[w] = {}
    /\ pc[w] = "mark" => done[w] = {}

\* Two workers have a message only if it is recorded in shared.
Alone ==
    \A m \in Messages \ shared : \A w, v \in Workers :
        m \in Held(w) /\ m \in Held(v) => w = v

InHand == TypeOK /\ Alone /\ \A w \in Workers : Orderly(w)

LEMMA OldestType ==
    ASSUME NEW q \in Oldest
    PROVE  /\ q \in Seq(Messages)
           /\ q # <<>>
           /\ Distinct(q)
           /\ \A m \in ToSet(q) : status[m] = "Pending"
  <1> DEFINE Pending == {m \in Messages : status[m] = "Pending"}
  <1>1. /\ q \in BoundedSeq(Pending, BatchSize) /\ q # <<>>
        /\ \A i, j \in DOMAIN q : i < j => q[i] < q[j]
    BY DEF Oldest
  <1>2. PICK n \in 0..BatchSize : q \in [1..n -> Pending]
    BY <1>1 DEF BoundedSeq, SeqOf
  <1>3. n \in Nat
    BY <1>2, SalesAssumption
  <1>4. q \in Seq(Pending)
    BY <1>2, <1>3
  <1>5. q \in Seq(Messages) /\ DOMAIN q = 1..n
    BY <1>2, <1>4
  <1>6. \A i \in DOMAIN q : status[q[i]] = "Pending"
    BY <1>2
  <1>7. Distinct(q)
    <2> SUFFICES ASSUME NEW i \in 1..n, NEW j \in 1..n, q[i] = q[j] PROVE i = j
      BY <1>5 DEF Distinct
    <2>1. q[i] \in Nat
      BY <1>2 DEF Messages
    <2>2. ~(i < j) /\ ~(j < i)
      BY <1>1, <1>5, <2>1
    <2> QED
      BY <1>3, <2>2
  <1> QED
    BY <1>1, <1>5, <1>6, <1>7 DEF ToSet

\* The first message of a batch that is not empty, and the rest.
LEMMA HeadType ==
    ASSUME TypeOK, NEW w \in Workers, batch[w] # <<>>
    PROVE  /\ Head(batch[w]) \in Messages
           /\ Head(batch[w]) \in ToSet(batch[w])
           /\ Tail(batch[w]) \in Seq(Messages)
           /\ ToSet(batch[w]) = ToSet(Tail(batch[w])) \cup {Head(batch[w])}
           /\ Distinct(batch[w]) =>
                Distinct(Tail(batch[w])) /\ Head(batch[w]) \notin ToSet(Tail(batch[w]))
  <1>1. batch[w] \in Seq(Messages)
    BY DEF TypeOK
  <1> QED
    BY <1>1, TailOf

LEMMA SellerTypes ==
    /\ \A w \in Workers : w \in Sellers /\ w \notin Kits
    /\ \A k \in Kits : k \in Sellers /\ k \notin Workers
BY SalesAssumption DEF Sellers

\* What a sale takes of a variant, which it names at most once.
LEMMA TakenFacts ==
    ASSUME NEW lines \in Seq(Line), NEW v
    PROVE  /\ Taken(lines, v) \in Nat
           /\ (\A i, j \in DOMAIN lines : lines[i].variant = lines[j].variant => i = j) =>
                \/ Taken(lines, v) = 0
                \/ \E i \in DOMAIN lines : lines[i].variant = v /\ lines[i].quantity = Taken(lines, v)
  <1> DEFINE f == [i \in DOMAIN lines |-> lines[i].quantity]
             S == {i \in DOMAIN lines : lines[i].variant = v}
  <1>1. DOMAIN lines = 1..Len(lines) /\ Len(lines) \in Nat
    OBVIOUS
  <1>2. IsFiniteSet(S)
    <2>1. IsFiniteSet(1..Len(lines)) /\ S \in SUBSET (1..Len(lines))
      BY <1>1, FS_Interval
    <2> QED
      BY <2>1, FS_Subset
  <1>3. \A i \in S : f[i] \in Nat /\ f[i] = lines[i].quantity
    <2> SUFFICES ASSUME NEW i \in DOMAIN lines PROVE lines[i].quantity \in Nat
      OBVIOUS
    <2>1. lines[i] \in Line
      OBVIOUS
    <2> QED
      BY <2>1 DEF Line
  <1>4. Taken(lines, v) = SumFunctionOnSet(f, S)
    BY DEF Taken
  <1> HIDE DEF f, S
  <1>5. SumFunctionOnSet(f, S) \in Nat
    BY <1>2, <1>3, SumNat
  <1>6. ASSUME \A i, j \in DOMAIN lines : lines[i].variant = lines[j].variant => i = j
        PROVE  \/ Taken(lines, v) = 0
               \/ \E i \in DOMAIN lines : lines[i].variant = v /\ lines[i].quantity = Taken(lines, v)
    <2>1. CASE S = {}
      BY <1>4, <2>1, SumEmpty
    <2>2. CASE S # {}
      <3>1. PICK i \in S : TRUE
        BY <2>2
      <3>2. i \in DOMAIN lines /\ lines[i].variant = v /\ S \ {i} = {}
        BY <1>6, <3>1 DEF S
      <3>3. Summable(f, S)
        BY <1>2, <1>3 DEF Summable
      <3>4. SumFunctionOnSet(f, S) = f[i] + SumFunctionOnSet(f, S \ {i})
        BY <3>1, <3>3, SumTakeOut
      <3>5. SumFunctionOnSet(f, S \ {i}) = 0
        BY <3>2, SumEmpty
      <3>6. f[i] \in Nat /\ f[i] = lines[i].quantity
        BY <1>3, <3>1
      <3>7. lines[i].quantity = Taken(lines, v)
        BY <1>4, <3>4, <3>5, <3>6
      <3> QED
        BY <3>2, <3>7
    <2> QED
      BY <2>1, <2>2
  <1> QED
    BY <1>4, <1>5, <1>6

LEMMA AppendedType ==
    ASSUME ledger \in [Variants -> Int], NEW lines \in Seq(Line)
    PROVE  Appended(lines) \in [Variants -> Int]
  <1>1. ASSUME NEW v \in Variants PROVE ledger[v] - Taken(lines, v) \in Int
    BY TakenFacts
  <1> QED
    BY <1>1 DEF Appended

-----------------------------------------------------------------------------
\* What a step of the kits leaves alone.
LEMMA KitSteps ==
    ASSUME TypeOK, NEW k \in Kits, CheckKit(k) \/ AppendKit(k)
    PROVE  /\ UNCHANGED <<rows, worker, booked, history>>
           /\ \A w \in Workers : pc'[w] = pc[w]
BY SellerTypes DEF TypeOK, CheckKit, AppendKit

LEMMA NextType ==
    ASSUME InHand, [Next]_vars
    PROVE  TypeOK'
  <1> USE DEF InHand
  <1>0. ASSUME NEW f \in [Messages -> Nat], NEW m \in Messages
        PROVE  [f EXCEPT ![m] = @ + 1] \in [Messages -> Nat]
    OBVIOUS
  <1>1. ASSUME NEW k \in Kits, CheckKit(k) PROVE TypeOK'
    <2>1. UNCHANGED <<ledger, rows, worker, booked, history>>
      BY <1>1 DEF CheckKit
    <2>2. pc' = [pc EXCEPT ![k] = IF Sufficient(Components[k]) THEN "append" ELSE "refused"]
      BY <1>1 DEF CheckKit
    <2> QED
      BY <2>1, <2>2, SellerTypes DEF TypeOK, rows, worker, history
  <1>2. ASSUME NEW k \in Kits, AppendKit(k) PROVE TypeOK'
    <2>1. Components[k] \in Seq(Line)
      BY SalesAssumption
    <2>2. ledger' \in [Variants -> Int]
      BY <1>2, <2>1, AppendedType DEF AppendKit, TypeOK
    <2> QED
      BY <1>2, <2>2, SellerTypes DEF TypeOK, AppendKit, rows, worker, history
  <1>3. ASSUME NEW m \in Messages, Stage(m) PROVE TypeOK'
    BY <1>3 DEF TypeOK, Stage, worker, history
  <1>4. ASSUME NEW w \in Workers, Poll(w) PROVE TypeOK'
    <2>1. PICK q \in Oldest :
              /\ batch' = [batch EXCEPT ![w] = q]
              /\ shared' = shared \cup (ToSet(q) \cap UNION {Held(x) : x \in Workers \ {w}})
      BY <1>4 DEF Poll
    <2>2. q \in Seq(Messages) /\ q # <<>> /\ ToSet(q) \subseteq Messages
      BY OldestType, ToSetType
    <2>3. /\ read' = [read EXCEPT ![w] = attempts]
          /\ pc' = [pc EXCEPT ![w] = "mark"]
          /\ UNCHANGED <<ledger, rows, done, booked, failures, undone, orphans, faults>>
      BY <1>4 DEF Poll
    <2>4. shared' \subseteq Messages
      BY <2>1, <2>2 DEF TypeOK
    <2>5. batch' \in [Workers -> Seq(Messages)] /\ read' \in [Workers -> [Messages -> Nat]]
      BY <2>1, <2>2, <2>3 DEF TypeOK
    <2>6. \A v \in Workers : pc'[v] \in {"mark", "append", "commit", "failing"} => batch'[v] # <<>>
      BY <2>1, <2>2, <2>3, SellerTypes DEF TypeOK
    <2> QED
      BY <2>3, <2>4, <2>5, <2>6, SellerTypes DEF TypeOK, rows
  <1>5. ASSUME NEW w \in Workers, Mark(w) PROVE TypeOK'
    BY <1>5, SellerTypes DEF TypeOK, Mark, worker, history
  <1>6. ASSUME NEW w \in Workers, CheckOrder(w) PROVE TypeOK'
    BY <1>6, SellerTypes DEF TypeOK, CheckOrder, rows, worker, history
  <1>7. ASSUME NEW w \in Workers, AppendOrder(w) PROVE TypeOK'
    <2>1. batch[w] # <<>> /\ Head(batch[w]) \in Messages
      BY <1>7, HeadType DEF AppendOrder, TypeOK
    <2>2. Lines[Head(batch[w])] \in Seq(Line)
      BY <2>1, SalesAssumption
    <2>3. ledger' \in [Variants -> Int]
      BY <1>7, <2>2, AppendedType DEF AppendOrder, TypeOK
    <2>4. booked' \in [Messages -> Nat]
      BY <1>0, <1>7, <2>1 DEF AppendOrder, TypeOK
    <2> QED
      BY <1>7, <2>1, <2>3, <2>4, SellerTypes DEF TypeOK, AppendOrder, rows, worker, history
  <1>8. ASSUME NEW w \in Workers, CommitOrder(w) PROVE TypeOK'
    <2>1. batch[w] # <<>> /\ Head(batch[w]) \in Messages /\ Tail(batch[w]) \in Seq(Messages)
      BY <1>8, HeadType DEF CommitOrder, TypeOK
    <2>2. batch' \in [Workers -> Seq(Messages)] /\ done' \in [Workers -> SUBSET Messages]
      BY <1>8, <2>1 DEF CommitOrder, TypeOK
    <2>3. \A v \in Workers : pc'[v] \in {"mark", "append", "commit", "failing"} => batch'[v] # <<>>
      BY <1>8, SellerTypes DEF CommitOrder, TypeOK
    <2> QED
      BY <1>8, <2>2, <2>3, SellerTypes DEF TypeOK, CommitOrder, rows, history
  <1>9. ASSUME NEW w \in Workers, FailOrder(w) \/ FailCommit(w) PROVE TypeOK'
    <2>1. batch[w] # <<>>
      BY <1>9 DEF FailOrder, FailCommit, TypeOK
    <2>2. Head(batch[w]) \in Messages
      BY <2>1, HeadType
    <2>3. failures \in [Messages -> Nat] /\ undone \in [Messages -> Nat] /\ faults \in 0..MaxFaults
      BY DEF TypeOK
    <2>4. failures' = [failures EXCEPT ![Head(batch[w])] = @ + 1]
      BY <1>9 DEF FailOrder, FailCommit
    <2>5. undone' = undone \/ undone' = [undone EXCEPT ![Head(batch[w])] = @ + 1]
      BY <1>9 DEF FailOrder, FailCommit
    <2>6. faults' = faults \/ (faults < MaxFaults /\ faults' = faults + 1)
      BY <1>9 DEF FailOrder, FailCommit
    <2>7. failures' \in [Messages -> Nat] /\ undone' \in [Messages -> Nat]
      BY <1>0, <2>2, <2>3, <2>4, <2>5
    <2>8. faults' \in 0..MaxFaults
      BY <2>3, <2>6, SalesAssumption
    <2>9. /\ pc' = [pc EXCEPT ![w] = "failing"]
          /\ UNCHANGED <<ledger, rows, worker, booked, shared, orphans>>
      BY <1>9 DEF FailOrder, FailCommit
    <2> QED
      BY <2>1, <2>7, <2>8, <2>9, SellerTypes DEF TypeOK, rows, worker
  <1>10. ASSUME NEW w \in Workers, RecordFailure(w) PROVE TypeOK'
    <2>0. batch[w] # <<>>
      BY <1>10 DEF RecordFailure, TypeOK
    <2>1. Head(batch[w]) \in Messages /\ Tail(batch[w]) \in Seq(Messages)
      BY <2>0, HeadType
    <2>4. read[w][Head(batch[w])] + 1 \in Nat
      <3>1. read \in [Workers -> [Messages -> Nat]]
        BY DEF TypeOK
      <3> QED
        BY <2>1, <3>1
    <2>2. /\ status' \in [Messages -> {"none", "Pending", "Processing", "Processed", "Failed"}]
          /\ attempts' \in [Messages -> Nat]
          /\ batch' \in [Workers -> Seq(Messages)]
      BY <1>10, <2>1, <2>4 DEF RecordFailure, TypeOK
    <2>3. \A v \in Workers : pc'[v] \in {"mark", "append", "commit", "failing"} => batch'[v] # <<>>
      BY <1>10, SellerTypes DEF RecordFailure, TypeOK
    <2>5. pc' = [pc EXCEPT ![w] = "event"] /\ UNCHANGED <<ledger, done, read, booked, history>>
      BY <1>10 DEF RecordFailure
    <2> QED
      BY <2>2, <2>3, <2>5, SellerTypes DEF TypeOK, history
  <1>11. ASSUME NEW w \in Workers, Finish(w) PROVE TypeOK'
    BY <1>11, SellerTypes DEF TypeOK, Finish, history
  <1>12. ASSUME NEW w \in Workers, Crash(w) PROVE TypeOK'
    <2>1. Held(w) \subseteq Messages
      BY ToSetType DEF Held, TypeOK
    <2>2. faults' \in 0..MaxFaults
      BY <1>12, SalesAssumption DEF Crash, TypeOK
    <2>3. /\ batch' = [batch EXCEPT ![w] = <<>>]
          /\ done' = [done EXCEPT ![w] = {}]
          /\ pc' = [pc EXCEPT ![w] = "idle"]
          /\ orphans' = orphans \cup Held(w)
          /\ UNCHANGED <<ledger, rows, read, booked, failures, undone, shared>>
      BY <1>12 DEF Crash
    <2>4. <<>> \in Seq(Messages)
      OBVIOUS
    <2> QED
      BY <2>1, <2>2, <2>3, <2>4, SellerTypes DEF TypeOK, rows
  <1>13. CASE UNCHANGED vars
    BY <1>13 DEF TypeOK, vars, rows, worker, history
  <1> QED
    BY <1>1, <1>2, <1>3, <1>4, <1>5, <1>6, <1>7, <1>8, <1>9, <1>10, <1>11, <1>12, <1>13
    DEF Next, Work

\* What a worker has, another one leaves alone.
LEMMA OthersKeep ==
    ASSUME TypeOK, NEW w \in Workers, NEW v \in Workers, v # w, Work(w) \/ Crash(w)
    PROVE  UNCHANGED <<batch[v], done[v], read[v], pc[v]>>
  <1>1. CASE Poll(w)
    <2>1. \E q : batch' = [batch EXCEPT ![w] = q]
      BY <1>1 DEF Poll
    <2>2. /\ read' = [read EXCEPT ![w] = attempts]
          /\ pc' = [pc EXCEPT ![w] = "mark"]
          /\ done' = done
      BY <1>1 DEF Poll
    <2> QED
      BY <2>1, <2>2, SellerTypes DEF TypeOK
  <1>2. CASE Mark(w) \/ CheckOrder(w) \/ AppendOrder(w) \/ FailOrder(w) \/ FailCommit(w)
    <2>1. UNCHANGED worker /\ \E x : pc' = [pc EXCEPT ![w] = x]
      BY <1>2 DEF Mark, CheckOrder, AppendOrder, FailOrder, FailCommit, worker
    <2> QED
      BY <2>1, SellerTypes DEF TypeOK, worker
  <1>3. CASE CommitOrder(w) \/ RecordFailure(w) \/ Finish(w)
    <2>1. CASE CommitOrder(w)
      BY <2>1, SellerTypes DEF CommitOrder, TypeOK
    <2>2. CASE RecordFailure(w)
      <3>1. /\ pc' = [pc EXCEPT ![w] = "event"]
            /\ batch' = [batch EXCEPT ![w] = Tail(@)]
            /\ UNCHANGED <<done, read>>
        BY <2>2 DEF RecordFailure
      <3> QED
        BY <3>1, SellerTypes DEF TypeOK
    <2>3. CASE Finish(w)
      BY <2>3, SellerTypes DEF Finish, TypeOK
    <2> QED
      BY <1>3, <2>1, <2>2, <2>3
  <1>4. CASE Crash(w)
    BY <1>4, SellerTypes DEF Crash, TypeOK
  <1> QED
    BY <1>1, <1>2, <1>3, <1>4 DEF Work

\* Kits and deliveries have nothing to do with what workers have.
LEMMA OutsidersKeep ==
    ASSUME TypeOK, NEW v \in Workers,
           \/ \E k \in Kits : CheckKit(k) \/ AppendKit(k)
           \/ \E m \in Messages : Stage(m)
           \/ UNCHANGED vars
    PROVE  UNCHANGED <<batch[v], done[v], read[v], pc[v]>>
  <1>1. ASSUME NEW k \in Kits, CheckKit(k) \/ AppendKit(k)
        PROVE  UNCHANGED <<batch[v], done[v], read[v], pc[v]>>
    BY <1>1, KitSteps DEF worker
  <1>2. ASSUME NEW m \in Messages, Stage(m)
        PROVE  UNCHANGED <<batch[v], done[v], read[v], pc[v]>>
    BY <1>2 DEF Stage, worker
  <1> QED
    BY <1>1, <1>2 DEF vars, worker

LEMMA NextOrderly ==
    ASSUME InHand, [Next]_vars, NEW v \in Workers
    PROVE  Orderly(v)'
  <1> USE DEF InHand
  <1>0. ASSUME UNCHANGED <<batch[v], done[v], read[v], pc[v]>> PROVE Orderly(v)'
    BY <1>0 DEF Orderly
  <1>1. CASE \/ \E k \in Kits : CheckKit(k) \/ AppendKit(k)
             \/ \E m \in Messages : Stage(m)
             \/ UNCHANGED vars
    BY <1>0, <1>1, OutsidersKeep
  <1>2. ASSUME NEW w \in Workers, w # v, Work(w) \/ Crash(w) PROVE Orderly(v)'
    BY <1>0, <1>2, OthersKeep
  <1>3. CASE Poll(v)
    <2>1. PICK q \in Oldest : batch' = [batch EXCEPT ![v] = q]
      BY <1>3 DEF Poll
    <2>2. pc'[v] = "mark" /\ batch'[v] = q /\ done'[v] = {}
      BY <1>3, <2>1, SellerTypes DEF Poll, TypeOK, Orderly
    <2> QED
      BY <2>2, OldestType DEF Orderly
  <1>4. CASE Mark(v) \/ CheckOrder(v) \/ AppendOrder(v) \/ FailOrder(v) \/ FailCommit(v)
    <2>1. /\ UNCHANGED <<batch, done>>
          /\ pc'[v] \in {"event", "append", "commit", "failing"}
      BY <1>4, SellerTypes
      DEF Mark, CheckOrder, AppendOrder, FailOrder, FailCommit, TypeOK, worker
    <2> QED
      BY <2>1 DEF Orderly
  <1>5. CASE CommitOrder(v) \/ RecordFailure(v)
    <2>1. batch[v] # <<>> /\ Distinct(batch[v]) /\ ToSet(batch[v]) \cap done[v] = {}
      BY <1>5 DEF CommitOrder, RecordFailure, TypeOK, Orderly
    <2>2. /\ pc'[v] = "event" /\ batch'[v] = Tail(batch[v])
          /\ done'[v] \subseteq done[v] \cup {Head(batch[v])}
      BY <1>5, SellerTypes DEF CommitOrder, RecordFailure, TypeOK
    <2> QED
      BY <2>1, <2>2, HeadType DEF Orderly
  <1>6. CASE Finish(v)
    <2>1. pc'[v] = "idle" /\ batch'[v] = <<>> /\ done'[v] = {}
      BY <1>6, SellerTypes DEF Finish, TypeOK
    <2> QED
      BY <2>1, ToSetEmpty DEF Orderly
  <1>7. CASE Crash(v)
    <2>1. pc'[v] = "idle" /\ batch'[v] = <<>> /\ done'[v] = {}
      BY <1>7, SellerTypes DEF Crash, TypeOK
    <2> QED
      BY <2>1, ToSetEmpty DEF Orderly
  <1> QED
    BY <1>1, <1>2, <1>3, <1>4, <1>5, <1>6, <1>7 DEF Next, Work

\* Only a poll puts a message into a worker's hands.
LEMMA HoldsLess ==
    ASSUME InHand, [Next]_vars, NEW v \in Workers, ~ Poll(v)
    PROVE  Held(v)' \subseteq Held(v)
  <1> USE DEF InHand
  <1>1. ASSUME UNCHANGED <<batch[v], done[v], read[v], pc[v]>> PROVE Held(v)' \subseteq Held(v)
    BY <1>1 DEF Held
  <1>2. CASE \/ \E k \in Kits : CheckKit(k) \/ AppendKit(k)
             \/ \E m \in Messages : Stage(m)
             \/ UNCHANGED vars
    BY <1>1, <1>2, OutsidersKeep
  <1>3. ASSUME NEW w \in Workers, w # v, Work(w) \/ Crash(w) PROVE Held(v)' \subseteq Held(v)
    BY <1>1, <1>3, OthersKeep
  <1>4. CASE Mark(v) \/ CheckOrder(v) \/ AppendOrder(v) \/ FailOrder(v) \/ FailCommit(v)
    <2>1. UNCHANGED <<batch, done>>
      BY <1>4 DEF Mark, CheckOrder, AppendOrder, FailOrder, FailCommit, worker
    <2> QED
      BY <2>1 DEF Held
  <1>5. CASE CommitOrder(v) \/ RecordFailure(v)
    <2>1. batch[v] # <<>>
      BY <1>5 DEF CommitOrder, RecordFailure, TypeOK
    <2>2. batch'[v] = Tail(batch[v]) /\ done'[v] \subseteq done[v] \cup {Head(batch[v])}
      BY <1>5 DEF CommitOrder, RecordFailure, TypeOK
    <2> QED
      BY <2>1, <2>2, HeadType DEF Held
  <1>6. CASE Finish(v) \/ Crash(v)
    <2>1. batch'[v] = <<>> /\ done'[v] = {}
      BY <1>6 DEF Finish, Crash, TypeOK
    <2> QED
      BY <2>1, ToSetEmpty DEF Held
  <1> QED
    BY <1>2, <1>3, <1>4, <1>5, <1>6 DEF Next, Work

\* The record of what two workers had only grows.
LEMMA SharedGrows ==
    ASSUME [Next]_vars
    PROVE  shared \subseteq shared'
  <1>1. CASE \E k \in Kits : CheckKit(k) \/ AppendKit(k)
    BY <1>1 DEF CheckKit, AppendKit, history
  <1>2. CASE \E m \in Messages : Stage(m)
    BY <1>2 DEF Stage, history
  <1>3. ASSUME NEW w \in Workers, Work(w) \/ Crash(w) PROVE shared \subseteq shared'
    BY <1>3 DEF Work, Poll, Mark, CheckOrder, AppendOrder, CommitOrder, FailOrder, FailCommit,
                RecordFailure, Finish, Crash, history
  <1> QED
    BY <1>1, <1>2, <1>3 DEF Next, vars, history

LEMMA NextAlone ==
    ASSUME InHand, [Next]_vars
    PROVE  Alone'
  <1> USE DEF InHand
  <1> SUFFICES ASSUME NEW m \in Messages, m \notin shared',
                      NEW w \in Workers, NEW v \in Workers, m \in Held(w)', m \in Held(v)'
               PROVE  w = v
    BY DEF Alone
  <1>1. m \notin shared
    BY SharedGrows
  <1>2. CASE ~ Poll(w) /\ ~ Poll(v)
    BY <1>1, <1>2, HoldsLess DEF Alone
  <1>3. ASSUME NEW u \in Workers, NEW x \in Workers, u # x, Poll(u), m \in Held(x)'
        PROVE  m \notin Held(u)'
    <2>1. PICK q \in Oldest :
              /\ batch' = [batch EXCEPT ![u] = q]
              /\ shared' = shared \cup (ToSet(q) \cap UNION {Held(y) : y \in Workers \ {u}})
      BY <1>3 DEF Poll
    <2>2. done' = done /\ batch'[u] = q /\ batch'[x] = batch[x] /\ done[u] = {}
      BY <1>3, <2>1 DEF Poll, TypeOK, Orderly
    <2>3. m \in Held(x)
      BY <1>3, <2>2 DEF Held
    <2>4. m \notin ToSet(q)
      BY <1>3, <2>1, <2>3
    <2> QED
      BY <2>2, <2>4 DEF Held
  <1> QED
    BY <1>2, <1>3

LEMMA InitInHand == Init => InHand
  <1> SUFFICES ASSUME Init PROVE InHand
    OBVIOUS
  <1>1. TypeOK
    <2>1. /\ ledger \in [Variants -> Int] /\ faults \in 0..MaxFaults
          /\ status \in [Messages -> {"none", "Pending", "Processing", "Processed", "Failed"}]
          /\ {attempts, booked, failures, undone} \subseteq [Messages -> Nat]
      BY SalesAssumption DEF Init
    <2>2. /\ \A k \in Kits : pc[k] = "check"
          /\ \A w \in Workers : pc[w] = "idle"
          /\ pc \in [Sellers -> {"idle", "check"}]
      BY SellerTypes DEF Init
    <2>3. /\ batch \in [Workers -> Seq(Messages)]
          /\ done \in [Workers -> SUBSET Messages]
          /\ read \in [Workers -> [Messages -> Nat]]
          /\ shared = {} /\ orphans = {}
      BY DEF Init
    <2> QED
      BY <2>1, <2>2, <2>3 DEF TypeOK
  <1>2. Alone /\ \A w \in Workers : Orderly(w)
    <2>1. \A w \in Workers : batch[w] = <<>> /\ done[w] = {}
      BY DEF Init
    <2> QED
      BY <2>1, ToSetEmpty DEF Alone, Held, Orderly
  <1> QED
    BY <1>1, <1>2 DEF InHand

LEMMA NextInHand == InHand /\ [Next]_vars => InHand'
BY NextType, NextAlone, NextOrderly DEF InHand

-----------------------------------------------------------------------------
\* The counts of a message only grow.
LEMMA Monotone ==
    ASSUME TypeOK, [Next]_vars, NEW m \in Messages
    PROVE  /\ booked[m] \in Nat /\ booked'[m] \in Nat /\ booked[m] <= booked'[m]
           /\ failures[m] \in Nat /\ failures'[m] \in Nat /\ failures[m] <= failures'[m]
           /\ undone[m] \in Nat /\ undone'[m] \in Nat /\ undone[m] <= undone'[m]
  <1>1. booked \in [Messages -> Nat] /\ failures \in [Messages -> Nat] /\ undone \in [Messages -> Nat]
    BY DEF TypeOK
  <1>2. ASSUME NEW f \in [Messages -> Nat], NEW n \in Messages
        PROVE  LET g == [f EXCEPT ![n] = @ + 1] IN g[m] \in Nat /\ f[m] <= g[m]
    OBVIOUS
  <1>3. CASE \/ \E k \in Kits : CheckKit(k) \/ AppendKit(k)
             \/ \E n \in Messages : Stage(n)
             \/ UNCHANGED vars
    <2>1. UNCHANGED <<booked, failures, undone>>
      BY <1>3 DEF CheckKit, AppendKit, Stage, vars, history
    <2> QED
      BY <1>1, <2>1
  <1>4. ASSUME NEW w \in Workers, Poll(w) \/ Mark(w) \/ CheckOrder(w) \/ CommitOrder(w)
                                  \/ RecordFailure(w) \/ Finish(w) \/ Crash(w)
        PROVE  UNCHANGED <<booked, failures, undone>>
    BY <1>4 DEF Poll, Mark, CheckOrder, CommitOrder, RecordFailure, Finish, Crash, history
  <1>5. ASSUME NEW w \in Workers, AppendOrder(w)
        PROVE  /\ booked' = [booked EXCEPT ![Head(batch[w])] = @ + 1]
               /\ UNCHANGED <<failures, undone>>
               /\ Head(batch[w]) \in Messages
    <2>1. batch[w] # <<>>
      BY <1>5 DEF AppendOrder, TypeOK
    <2> QED
      BY <1>5, <2>1, HeadType DEF AppendOrder, history
  <1>6. ASSUME NEW w \in Workers, FailOrder(w) \/ FailCommit(w)
        PROVE  /\ booked' = booked
               /\ failures' = [failures EXCEPT ![Head(batch[w])] = @ + 1]
               /\ \/ undone' = undone
                  \/ undone' = [undone EXCEPT ![Head(batch[w])] = @ + 1]
               /\ Head(batch[w]) \in Messages
    <2>1. batch[w] # <<>>
      BY <1>6 DEF FailOrder, FailCommit, TypeOK
    <2>2. Head(batch[w]) \in Messages
      BY <2>1, HeadType
    <2> QED
      BY <1>6, <2>2 DEF FailOrder, FailCommit
  <1> QED
    BY <1>1, <1>2, <1>3, <1>4, <1>5, <1>6 DEF Next, Work

-----------------------------------------------------------------------------
\* What a worker did for its messages, and what it read of their attempts.
Earning(w) ==
    /\ \A m \in done[w] : booked[m] > 0
    /\ pc[w] = "commit" => booked[Head(batch[w])] > 0
    /\ \A m \in ToSet(batch[w]) : read[w][m] <= failures[m]
    /\ pc[w] = "failing" => read[w][Head(batch[w])] < failures[Head(batch[w])]

\* A worker may find the message at its next poll, if it has come.
Open(m) == status[m] \in {"none", "Pending"}

Counted == \A m \in Messages : Open(m) => attempts[m] <= failures[m]

Earnings ==
    /\ InHand /\ ProcessedIsBooked /\ FailedAfterRetries /\ Counted
    /\ \A w \in Workers : Earning(w)

LEMMA NextEarning ==
    ASSUME Earnings, [Next]_vars, NEW v \in Workers
    PROVE  Earning(v)'
  <1> USE DEF Earnings, InHand
  <1>0. /\ \A m \in Messages : booked[m] \in Nat /\ booked'[m] \in Nat /\ booked[m] <= booked'[m]
        /\ \A m \in Messages : failures[m] \in Nat /\ failures'[m] \in Nat
                                 /\ failures[m] <= failures'[m]
    BY Monotone
  <1>1. /\ \A m \in Messages : read[v][m] \in Nat
        /\ done[v] \subseteq Messages /\ ToSet(batch[v]) \subseteq Messages
    BY ToSetType DEF TypeOK
  <1>2. batch[v] # <<>> => Head(batch[v]) \in Messages /\ Head(batch[v]) \in ToSet(batch[v])
    BY HeadType
  <1>3. pc[v] \in {"append", "commit", "failing"} => batch[v] # <<>>
    BY DEF TypeOK
  <1>4. ASSUME UNCHANGED <<batch[v], done[v], read[v], pc[v]>> PROVE Earning(v)'
    <2>1. \A m \in done[v] : booked'[m] > 0
      BY <1>0, <1>1 DEF Earning
    <2>2. \A m \in ToSet(batch[v]) : read[v][m] <= failures'[m]
      BY <1>0, <1>1 DEF Earning
    <2>3. pc[v] = "commit" => booked'[Head(batch[v])] > 0
      BY <1>0, <1>2, <1>3 DEF Earning
    <2>4. pc[v] = "failing" => read[v][Head(batch[v])] < failures'[Head(batch[v])]
      BY <1>0, <1>1, <1>2, <1>3 DEF Earning
    <2> QED
      BY <1>4, <2>1, <2>2, <2>3, <2>4 DEF Earning
  <1>5. CASE \/ \E k \in Kits : CheckKit(k) \/ AppendKit(k)
             \/ \E m \in Messages : Stage(m)
             \/ UNCHANGED vars
    BY <1>4, <1>5, OutsidersKeep
  <1>6. ASSUME NEW w \in Workers, w # v, Work(w) \/ Crash(w) PROVE Earning(v)'
    BY <1>4, <1>6, OthersKeep
  <1>7. CASE Poll(v)
    <2>1. PICK q \in Oldest : batch' = [batch EXCEPT ![v] = q]
      BY <1>7 DEF Poll
    <2>2. /\ pc'[v] = "mark" /\ batch'[v] = q /\ done'[v] = {} /\ read'[v] = attempts
          /\ failures' = failures
      BY <1>7, <2>1, SellerTypes DEF Poll, TypeOK, Orderly
    <2>3. \A m \in ToSet(q) : m \in Messages /\ status[m] = "Pending"
      BY OldestType, ToSetType
    <2>4. \A m \in ToSet(q) : attempts[m] <= failures[m]
      BY <2>3 DEF Counted, Open
    <2> QED
      BY <2>2, <2>4 DEF Earning
  <1>8. CASE Mark(v) \/ CheckOrder(v)
    <2>1. pc'[v] \in {"event", "append"} /\ UNCHANGED <<batch, done, read, booked, failures>>
      BY <1>8, SellerTypes DEF Mark, CheckOrder, TypeOK, worker, history
    <2> QED
      BY <2>1 DEF Earning
  <1>9. CASE AppendOrder(v)
    <2>1. /\ pc'[v] = "commit" /\ UNCHANGED <<batch, done, read, failures>>
          /\ booked' = [booked EXCEPT ![Head(batch[v])] = @ + 1]
          /\ pc[v] = "append"
      BY <1>9, SellerTypes DEF AppendOrder, TypeOK, worker, history
    <2>2. booked'[Head(batch[v])] > 0
      <3>1. booked \in [Messages -> Nat] /\ Head(batch[v]) \in Messages
        BY <1>2, <1>3, <2>1 DEF TypeOK
      <3> QED
        BY <2>1, <3>1
    <2> QED
      BY <1>0, <1>1, <2>1, <2>2 DEF Earning
  <1>10. CASE CommitOrder(v)
    <2>1. /\ pc'[v] = "event" /\ batch'[v] = Tail(batch[v])
          /\ done'[v] = done[v] \cup {Head(batch[v])}
          /\ UNCHANGED <<read, booked, failures>>
          /\ pc[v] = "commit"
      BY <1>10, SellerTypes DEF CommitOrder, TypeOK, history
    <2>2. ToSet(Tail(batch[v])) \subseteq ToSet(batch[v])
      BY <1>3, <2>1, HeadType
    <2> QED
      BY <2>1, <2>2 DEF Earning
  <1>11. CASE FailOrder(v) \/ FailCommit(v)
    <2>1. /\ pc'[v] = "failing" /\ UNCHANGED <<batch, done, read, booked>>
          /\ failures' = [failures EXCEPT ![Head(batch[v])] = @ + 1]
          /\ batch[v] # <<>>
      BY <1>11, SellerTypes DEF FailOrder, FailCommit, TypeOK, worker
    <2>2. read[v][Head(batch[v])] < failures'[Head(batch[v])]
      <3> DEFINE m == Head(batch[v])
      <3>1. m \in Messages /\ m \in ToSet(batch[v])
        BY <1>2, <2>1
      <3>2. read[v][m] \in Nat /\ failures[m] \in Nat /\ read[v][m] <= failures[m]
        BY <1>0, <1>1, <3>1 DEF Earning
      <3>3. failures'[m] = failures[m] + 1
        BY <2>1, <3>1 DEF TypeOK
      <3> QED
        BY <3>2, <3>3
    <2>3. \A m \in ToSet(batch[v]) : read[v][m] <= failures'[m]
      BY <1>0, <1>1 DEF Earning
    <2> QED
      BY <2>1, <2>2, <2>3 DEF Earning
  <1>12. CASE RecordFailure(v)
    <2>1. /\ pc'[v] = "event" /\ batch'[v] = Tail(batch[v]) /\ pc[v] = "failing"
          /\ UNCHANGED <<done, read, booked, failures>>
      BY <1>12, SellerTypes DEF RecordFailure, TypeOK, history
    <2>2. ToSet(Tail(batch[v])) \subseteq ToSet(batch[v])
      BY <1>3, <2>1, HeadType
    <2> QED
      BY <2>1, <2>2 DEF Earning
  <1>13. CASE Finish(v) \/ Crash(v)
    <2>1. pc'[v] = "idle" /\ batch'[v] = <<>> /\ done'[v] = {}
      BY <1>13, SellerTypes DEF Finish, Crash, TypeOK
    <2> QED
      BY <2>1, ToSetEmpty DEF Earning
  <1> QED
    BY <1>5, <1>6, <1>7, <1>8, <1>9, <1>10, <1>11, <1>12, <1>13 DEF Next, Work

LEMMA NextEnds ==
    ASSUME Earnings, [Next]_vars
    PROVE  ProcessedIsBooked' /\ FailedAfterRetries' /\ Counted'
  <1> USE DEF Earnings, InHand
  <1> DEFINE Deserved(m) ==
              /\ status[m] = "Processed" => booked[m] > 0
              /\ status[m] = "Failed" => failures[m] > MaxRetries
              /\ Open(m) => attempts[m] <= failures[m]
  <1> SUFFICES ASSUME NEW m \in Messages PROVE Deserved(m)'
    BY DEF ProcessedIsBooked, FailedAfterRetries, Counted
  <1>0. /\ booked[m] \in Nat /\ booked'[m] \in Nat /\ booked[m] <= booked'[m]
        /\ failures[m] \in Nat /\ failures'[m] \in Nat /\ failures[m] <= failures'[m]
    BY Monotone
  <1>1. attempts[m] \in Nat /\ MaxRetries \in Nat
    BY SalesAssumption DEF TypeOK
  <1>2. Deserved(m)
    BY DEF ProcessedIsBooked, FailedAfterRetries, Counted
  <1>3. ASSUME UNCHANGED <<status[m], attempts[m]>> PROVE Deserved(m)'
    BY <1>0, <1>1, <1>2, <1>3 DEF Open
  <1>4. CASE \/ \E k \in Kits : CheckKit(k) \/ AppendKit(k)
             \/ UNCHANGED vars
    BY <1>3, <1>4 DEF CheckKit, AppendKit, vars, rows
  <1>5. ASSUME NEW n \in Messages, Stage(n) PROVE Deserved(m)'
    <2>1. /\ status[n] = "none" /\ attempts' = attempts
          /\ status' = [status EXCEPT ![n] = "Pending"]
      BY <1>5 DEF Stage
    <2>2. CASE m = n
      <3>1. status'[m] = "Pending" /\ status[m] = "none"
        BY <2>1, <2>2 DEF TypeOK
      <3> QED
        BY <1>0, <1>1, <1>2, <2>1, <3>1 DEF Open
    <2>3. CASE m # n
      BY <1>3, <2>1, <2>3 DEF TypeOK
    <2> QED
      BY <2>2, <2>3
  <1>6. ASSUME NEW w \in Workers, Poll(w) \/ CheckOrder(w) \/ AppendOrder(w) \/ CommitOrder(w)
                                  \/ FailOrder(w) \/ FailCommit(w) \/ Crash(w)
        PROVE  Deserved(m)'
    <2>1. UNCHANGED rows
      BY <1>6 DEF Poll, CheckOrder, AppendOrder, CommitOrder, FailOrder, FailCommit, Crash, rows
    <2> QED
      BY <1>3, <2>1 DEF rows
  <1>7. ASSUME NEW w \in Workers, Mark(w) PROVE Deserved(m)'
    <2>1. (status'[m] = "Processing" \/ status'[m] = status[m]) /\ attempts' = attempts
      BY <1>7 DEF Mark
    <2> QED
      BY <1>0, <1>1, <1>2, <2>1 DEF Open
  <1>8. ASSUME NEW w \in Workers, RecordFailure(w) PROVE Deserved(m)'
    <2>1. batch[w] # <<>> /\ pc[w] = "failing"
      BY <1>8 DEF RecordFailure, TypeOK
    <2>2. /\ status' = [status EXCEPT ![Head(batch[w])] =
                            IF read[w][Head(batch[w])] >= MaxRetries THEN "Failed" ELSE "Pending"]
          /\ attempts' = [attempts EXCEPT ![Head(batch[w])] = read[w][Head(batch[w])] + 1]
      BY <1>8 DEF RecordFailure
    <2>3. CASE m = Head(batch[w])
      <3>1. /\ attempts'[m] = read[w][m] + 1
            /\ status'[m] = IF read[w][m] >= MaxRetries THEN "Failed" ELSE "Pending"
        BY <2>2, <2>3 DEF TypeOK
      <3>2. read[w][m] < failures[m] /\ read[w][m] \in Nat
        BY <2>1, <2>3 DEF Earning, TypeOK
      <3> QED
        BY <1>0, <1>1, <3>1, <3>2 DEF Open
    <2>4. CASE m # Head(batch[w])
      BY <1>3, <2>2, <2>4 DEF TypeOK
    <2> QED
      BY <2>3, <2>4
  <1>9. ASSUME NEW w \in Workers, Finish(w) PROVE Deserved(m)'
    <2>1. CASE m \in done[w]
      <3>1. status'[m] = "Processed" /\ booked[m] > 0
        BY <1>9, <2>1 DEF Finish, Earning
      <3> QED
        BY <1>0, <3>1 DEF Open
    <2>2. CASE m \notin done[w]
      BY <1>3, <1>9, <2>2 DEF Finish
    <2> QED
      BY <2>1, <2>2
  <1> QED
    BY <1>4, <1>5, <1>6, <1>7, <1>8, <1>9 DEF Next, Work

LEMMA InitEarnings == Init => Earnings
  <1> SUFFICES ASSUME Init PROVE Earnings
    OBVIOUS
  <1>1. InHand
    BY InitInHand
  <1>2. ProcessedIsBooked /\ FailedAfterRetries /\ Counted
    BY DEF Init, ProcessedIsBooked, FailedAfterRetries, Counted
  <1>3. ASSUME NEW w \in Workers PROVE Earning(w)
    <2>1. batch[w] = <<>> /\ done[w] = {} /\ pc[w] = "idle"
      BY SellerTypes DEF Init
    <2> QED
      BY <2>1, ToSetEmpty DEF Earning
  <1> QED
    BY <1>1, <1>2, <1>3 DEF Earnings

LEMMA NextEarnings == Earnings /\ [Next]_vars => Earnings'
  <1>1. Earnings /\ [Next]_vars => InHand'
    BY NextInHand DEF Earnings
  <1> QED
    BY <1>1, NextEarning, NextEnds DEF Earnings

\* A message is marked processed only after it was taken from the ledger, and
\* given up only after all its retries, whichever workers carry it about.
THEOREM OrderEnds == Spec => []OrderEndsEarned
  <1>1. Earnings => OrderEndsEarned
    BY DEF Earnings, InHand, OrderEndsEarned
  <1> QED
    BY <1>1, InitEarnings, NextEarnings, PTL DEF Spec

-----------------------------------------------------------------------------
\* A message of a worker's batch has been claimed, and has been booked no more
\* often than a commit has failed, but for an append that is to be committed.
InWork(w, m) ==
    /\ pc[w] # "mark" => status[m] = "Processing"
    /\ \/ pc[w] = "commit" /\ m = Head(batch[w])
       \/ booked[m] <= undone[m]

Single(m) ==
    /\ booked[m] <= 1 + undone[m]
    /\ Open(m) => booked[m] <= undone[m]
    /\ \A w \in Workers : m \in ToSet(batch[w]) => InWork(w, m)

Singles == InHand /\ \A m \in Messages \ shared : Single(m)

\* A step that leaves a message alone leaves it single.
LEMMA SameSingle ==
    ASSUME NEW m \in Messages, Single(m), UNCHANGED <<status[m], booked[m], undone[m]>>,
           \A w \in Workers :
                m \in ToSet(batch'[w]) =>
                    /\ m \in ToSet(batch[w])
                    /\ \/ UNCHANGED <<pc[w], batch[w]>>
                       \/ booked[m] <= undone[m] /\ (pc[w] = "mark" => pc'[w] = "mark")
    PROVE  Single(m)'
  <1>1. ASSUME NEW w \in Workers, m \in ToSet(batch'[w]) PROVE InWork(w, m)'
    BY <1>1 DEF Single, InWork
  <1> QED
    BY <1>1 DEF Single, Open

LEMMA NextSingle ==
    ASSUME Singles, [Next]_vars, NEW m \in Messages, m \notin shared'
    PROVE  Single(m)'
  <1> USE DEF Singles, InHand
  <1>0. m \notin shared /\ Single(m)
    BY SharedGrows
  <1>1. /\ booked[m] \in Nat /\ booked'[m] \in Nat /\ booked[m] <= booked'[m]
        /\ undone[m] \in Nat /\ undone'[m] \in Nat /\ undone[m] <= undone'[m]
    BY Monotone
  <1>2. ASSUME NEW w \in Workers, NEW v \in Workers, m \in Held(w), m \in Held(v) PROVE w = v
    BY <1>0, <1>2 DEF Alone
  <1>3. \A w \in Workers : batch[w] # <<>> => Head(batch[w]) \in Held(w)
    BY HeadType DEF Held
  <1>4. \A w \in Workers : m \in ToSet(batch[w]) \/ m \in done[w] => m \in Held(w)
    BY DEF Held
  <1>5. ASSUME UNCHANGED <<rows, worker, booked, undone>>,
               \A w \in Workers : pc'[w] = pc[w]
        PROVE  Single(m)'
    BY <1>0, <1>5, SameSingle DEF rows, worker
  <1>6. ASSUME NEW k \in Kits, CheckKit(k) \/ AppendKit(k) PROVE Single(m)'
    BY <1>5, <1>6, KitSteps DEF history
  <1>7. CASE UNCHANGED vars
    BY <1>5, <1>7 DEF vars, history
  <1>8. ASSUME NEW n \in Messages, Stage(n) PROVE Single(m)'
    <2>1. /\ status[n] = "none" /\ status' = [status EXCEPT ![n] = "Pending"]
          /\ UNCHANGED <<pc, worker, booked, history>>
      BY <1>8 DEF Stage
    <2>2. CASE m = n
      <3>1. Open(m) /\ status'[m] = "Pending"
        BY <2>1, <2>2 DEF Open, TypeOK
      <3>2. ASSUME NEW w \in Workers, m \in ToSet(batch[w]) PROVE InWork(w, m)'
        <4>1. pc[w] = "mark"
          BY <1>0, <2>1, <2>2, <3>2 DEF Single, InWork
        <4> QED
          BY <1>0, <2>1, <3>1, <4>1 DEF Single, InWork, history
      <3> QED
        BY <1>0, <2>1, <3>1, <3>2 DEF Single, worker, history
    <2>3. CASE m # n
      <3>1. UNCHANGED <<status[m], booked[m], undone[m]>> /\ UNCHANGED <<pc, batch>>
        BY <2>1, <2>3 DEF TypeOK, worker, history
      <3> QED
        BY <1>0, <3>1, SameSingle
    <2> QED
      BY <2>2, <2>3
  <1>9. ASSUME NEW u \in Workers, Poll(u) PROVE Single(m)'
    <2>1. PICK q \in Oldest : batch' = [batch EXCEPT ![u] = q]
      BY <1>9 DEF Poll
    <2>2. /\ pc'[u] = "mark" /\ batch'[u] = q
          /\ \A w \in Workers \ {u} : UNCHANGED <<pc[w], batch[w]>>
          /\ UNCHANGED <<status, booked, undone>>
      BY <1>9, <2>1, SellerTypes DEF Poll, TypeOK, rows
    <2>3. CASE m \in ToSet(q)
      <3>1. Open(m) /\ booked[m] <= undone[m]
        BY <1>0, <2>3, OldestType DEF Open, Single
      <3>2. ASSUME NEW w \in Workers, m \in ToSet(batch'[w]) PROVE InWork(w, m)'
        BY <1>0, <2>2, <3>1, <3>2 DEF InWork, Single
      <3> QED
        BY <1>0, <2>2, <3>1, <3>2 DEF Single
    <2>4. CASE m \notin ToSet(q)
      <3>1. \A w \in Workers : m \in ToSet(batch'[w]) =>
                m \in ToSet(batch[w]) /\ UNCHANGED <<pc[w], batch[w]>>
        BY <2>2, <2>4
      <3> QED
        BY <1>0, <2>2, <3>1, SameSingle
    <2> QED
      BY <2>3, <2>4
  <1>10. ASSUME NEW u \in Workers, Mark(u) PROVE Single(m)'
    <2>1. /\ status'[m] = IF m \in ToSet(batch[u]) THEN "Processing" ELSE status[m]
          /\ \A w \in Workers : w # u => pc'[w] = pc[w]
          /\ pc[u] = "mark" /\ pc'[u] = "event"
          /\ UNCHANGED <<batch, booked, undone>>
      BY <1>10, SellerTypes DEF Mark, TypeOK, worker, history
    <2>2. CASE m \in ToSet(batch[u])
      <3>1. booked[m] <= undone[m]
        BY <1>0, <2>1, <2>2 DEF Single, InWork
      <3> QED
        BY <1>0, <2>1, <2>2, <3>1 DEF Single, InWork, Open
    <2>3. CASE m \notin ToSet(batch[u])
      <3>1. \A w \in Workers : m \in ToSet(batch'[w]) =>
                m \in ToSet(batch[w]) /\ UNCHANGED <<pc[w], batch[w]>>
        BY <2>1, <2>3
      <3> QED
        BY <1>0, <2>1, <2>3, <3>1, SameSingle
    <2> QED
      BY <2>2, <2>3
  <1>11. ASSUME NEW u \in Workers, CheckOrder(u) \/ FailOrder(u) PROVE Single(m)'
    <2>1. /\ pc[u] = "event" /\ \A w \in Workers : w # u => pc'[w] = pc[w]
          /\ UNCHANGED <<status, batch, booked, undone>>
      BY <1>11, SellerTypes DEF CheckOrder, FailOrder, TypeOK, rows, worker, history
    <2>2. \A w \in Workers : m \in ToSet(batch[w]) =>
              \/ UNCHANGED <<pc[w], batch[w]>>
              \/ booked[m] <= undone[m] /\ pc[w] # "mark"
      BY <1>0, <2>1 DEF Single, InWork
    <2> QED
      BY <1>0, <2>1, <2>2, SameSingle
  <1>12. ASSUME NEW u \in Workers, AppendOrder(u) PROVE Single(m)'
    <2>1. /\ pc[u] = "append" /\ pc'[u] = "commit"
          /\ \A w \in Workers : w # u => pc'[w] = pc[w]
          /\ UNCHANGED <<status, batch, undone>>
          /\ booked' = [booked EXCEPT ![Head(batch[u])] = @ + 1]
      BY <1>12, SellerTypes DEF AppendOrder, TypeOK, rows, worker, history
    <2>2. batch[u] # <<>> /\ Head(batch[u]) \in ToSet(batch[u])
      BY <2>1, HeadType DEF TypeOK
    <2>3. CASE m = Head(batch[u])
      <3>1. booked[m] <= undone[m] /\ status[m] = "Processing"
        BY <1>0, <2>1, <2>2, <2>3 DEF Single, InWork
      <3>2. booked'[m] = booked[m] + 1
        BY <2>1, <2>3 DEF TypeOK
      <3>3. \A w \in Workers : m \in ToSet(batch[w]) => w = u
        BY <1>2, <1>4, <2>2, <2>3
      <3> QED
        BY <1>1, <2>1, <2>3, <3>1, <3>2, <3>3 DEF Single, InWork, Open
    <2>4. CASE m # Head(batch[u])
      <3>1. booked'[m] = booked[m]
        BY <2>1, <2>4 DEF TypeOK
      <3>2. \A w \in Workers : m \in ToSet(batch[w]) =>
              \/ UNCHANGED <<pc[w], batch[w]>>
              \/ booked[m] <= undone[m] /\ pc[w] # "mark"
        BY <1>0, <2>1, <2>4 DEF Single, InWork
      <3> QED
        BY <1>0, <2>1, <3>1, <3>2, SameSingle
    <2> QED
      BY <2>3, <2>4
  <1>13. ASSUME NEW u \in Workers, CommitOrder(u) \/ RecordFailure(u) PROVE Single(m)'
    <2>1. /\ pc[u] \in {"commit", "failing"} /\ batch[u] # <<>>
      BY <1>13 DEF CommitOrder, RecordFailure, TypeOK
    <2>2. /\ batch'[u] = Tail(batch[u])
          /\ \A w \in Workers : w # u => UNCHANGED <<pc[w], batch[w]>>
          /\ UNCHANGED <<booked, undone>>
      <3>1. /\ batch' = [batch EXCEPT ![u] = Tail(@)]
            /\ pc' = [pc EXCEPT ![u] = "event"]
            /\ UNCHANGED <<booked, undone>>
        BY <1>13 DEF CommitOrder, RecordFailure, history
      <3> QED
        BY <3>1, SellerTypes DEF TypeOK
    <2>3. /\ ToSet(Tail(batch[u])) \subseteq ToSet(batch[u])
          /\ Head(batch[u]) \notin ToSet(Tail(batch[u]))
      BY <2>1, HeadType DEF Orderly
    <2>4. \A w \in Workers : m \in ToSet(batch'[w]) =>
              /\ m \in ToSet(batch[w])
              /\ \/ UNCHANGED <<pc[w], batch[w]>>
                 \/ booked[m] <= undone[m] /\ pc[w] # "mark"
      BY <1>0, <2>1, <2>2, <2>3 DEF Single, InWork
    <2>5. CASE RecordFailure(u) /\ m = Head(batch[u])
      <3>1. pc[u] = "failing"
        BY <2>5 DEF RecordFailure
      <3>2. booked[m] <= undone[m]
        BY <1>0, <2>1, <2>5, <3>1, HeadType DEF Single, InWork
      <3>3. \A w \in Workers : m \notin ToSet(batch'[w])
        BY <1>2, <1>3, <1>4, <2>1, <2>2, <2>3, <2>5
      <3> QED
        BY <1>0, <2>2, <3>2, <3>3 DEF Single
    <2>6. CASE CommitOrder(u) \/ m # Head(batch[u])
      <3>1. status'[m] = status[m]
        <4>1. CASE CommitOrder(u)
          BY <4>1 DEF CommitOrder, rows
        <4>2. CASE RecordFailure(u) /\ m # Head(batch[u])
          <5>1. status' = [status EXCEPT ![Head(batch[u])] =
                    IF read[u][Head(batch[u])] >= MaxRetries THEN "Failed" ELSE "Pending"]
            BY <4>2 DEF RecordFailure
          <5> QED
            BY <4>2, <5>1 DEF TypeOK
        <4> QED
          BY <1>13, <2>6, <4>1, <4>2
      <3> QED
        BY <1>0, <2>2, <2>4, <3>1, SameSingle
    <2> QED
      BY <1>13, <2>5, <2>6
  <1>14. ASSUME NEW u \in Workers, FailCommit(u) PROVE Single(m)'
    <2>1. /\ pc[u] = "commit" /\ \A w \in Workers : w # u => pc'[w] = pc[w]
          /\ UNCHANGED <<status, batch, booked>>
          /\ undone' = [undone EXCEPT ![Head(batch[u])] = @ + 1]
      BY <1>14, SellerTypes DEF FailCommit, TypeOK, rows, worker
    <2>2. batch[u] # <<>> /\ Head(batch[u]) \in ToSet(batch[u])
      BY <2>1, HeadType DEF TypeOK
    <2>3. CASE m = Head(batch[u])
      <3>1. booked[m] <= undone[m] + 1 /\ status[m] = "Processing"
        BY <1>0, <1>1, <2>1, <2>2, <2>3 DEF Single, InWork
      <3>2. undone'[m] = undone[m] + 1
        BY <2>1, <2>3 DEF TypeOK
      <3> QED
        BY <1>1, <2>1, <3>1, <3>2 DEF Single, InWork, Open
    <2>4. CASE m # Head(batch[u])
      <3>1. undone'[m] = undone[m]
        BY <2>1, <2>4 DEF TypeOK
      <3>2. \A w \in Workers : m \in ToSet(batch[w]) =>
              \/ UNCHANGED <<pc[w], batch[w]>>
              \/ booked[m] <= undone[m] /\ pc[w] # "mark"
        BY <1>0, <2>1, <2>4 DEF Single, InWork
      <3> QED
        BY <1>0, <2>1, <3>1, <3>2, SameSingle
    <2> QED
      BY <2>3, <2>4
  <1>15. ASSUME NEW u \in Workers, Finish(u) PROVE Single(m)'
    <2>1. /\ batch[u] = <<>> /\ UNCHANGED <<batch, booked, undone>>
          /\ \A w \in Workers : w # u => pc'[w] = pc[w]
          /\ status'[m] = IF m \in done[u] THEN "Processed" ELSE status[m]
      BY <1>15, SellerTypes DEF Finish, TypeOK, history
    <2>2. CASE m \in done[u]
      <3>1. \A w \in Workers : m \notin ToSet(batch[w])
        BY <1>2, <1>4, <2>1, <2>2, ToSetEmpty
      <3> QED
        BY <1>0, <2>1, <2>2, <3>1 DEF Single, Open
    <2>3. CASE m \notin done[u]
      <3>1. \A w \in Workers : m \in ToSet(batch[w]) => UNCHANGED <<pc[w], batch[w]>>
        BY <2>1, ToSetEmpty
      <3> QED
        BY <1>0, <2>1, <2>3, <3>1, SameSingle
    <2> QED
      BY <2>2, <2>3
  <1>16. ASSUME NEW u \in Workers, Crash(u) PROVE Single(m)'
    <2>1. /\ batch'[u] = <<>> /\ UNCHANGED <<status, booked, undone>>
          /\ \A w \in Workers : w # u => UNCHANGED <<pc[w], batch[w]>>
      BY <1>16, SellerTypes DEF Crash, TypeOK, rows
    <2>2. \A w \in Workers : m \in ToSet(batch'[w]) =>
              m \in ToSet(batch[w]) /\ UNCHANGED <<pc[w], batch[w]>>
      BY <2>1, ToSetEmpty
    <2> QED
      BY <1>0, <2>1, <2>2, SameSingle
  <1> QED
    BY <1>6, <1>7, <1>8, <1>9, <1>10, <1>11, <1>12, <1>13, <1>14, <1>15, <1>16 DEF Next, Work

\* A message that is single has been booked no more often than its coming and
\* the commits that failed excuse.
LEMMA SingleIsExcused ==
    ASSUME TypeOK, NEW m \in Messages, Single(m)
    PROVE  /\ booked[m] \in Int /\ Excused(m) \in Int
           /\ booked[m] <= Excused(m)
  <1>1. booked[m] \in Nat /\ undone[m] \in Nat
    BY DEF TypeOK
  <1>2. booked[m] <= 1 + undone[m] /\ (status[m] = "none" => booked[m] <= undone[m])
    BY DEF Single, Open
  <1> QED
    BY <1>1, <1>2 DEF Excused

\* An order is booked once for each message that tells of it, and once more for
\* each commit that failed after the append, unless two workers had a message
\* of it at once.
THEOREM BookedOncePerCommit == Spec => []BookedOnce
  <1>1. Init => Singles
    <2> SUFFICES ASSUME Init PROVE Singles
      OBVIOUS
    <2>1. InHand /\ \A w \in Workers : batch[w] = <<>>
      BY InitInHand DEF Init
    <2>2. \A m \in Messages : booked[m] = 0 /\ undone[m] = 0
      BY DEF Init
    <2> QED
      BY <2>1, <2>2, ToSetEmpty DEF Singles, Single
  <1>2. Singles /\ [Next]_vars => Singles'
    <2>1. Singles /\ [Next]_vars => InHand'
      BY NextInHand DEF Singles
    <2> QED
      BY <2>1, NextSingle DEF Singles
  <1>3. Singles => BookedOnce
    <2> SUFFICES ASSUME Singles, NEW o \in Orders, Told(o) \cap shared = {}
                 PROVE  SumFunctionOnSet(booked, Told(o))
                            <= SumFunctionOnSet([m \in Messages |-> Excused(m)], Told(o))
      BY DEF BookedOnce
    <2> DEFINE excused == [m \in Messages |-> Excused(m)]
    <2>1. IsFiniteSet(Told(o))
      <3>1. IsFiniteSet(Messages) /\ Told(o) \in SUBSET Messages
        BY FS_Interval, SalesAssumption DEF Messages, Told
      <3> QED
        BY <3>1, FS_Subset
    <2>2. ASSUME NEW m \in Told(o)
          PROVE  booked[m] \in Int /\ excused[m] \in Int /\ booked[m] <= excused[m]
      <3>1. m \in Messages \ shared
        BY DEF Told
      <3>2. TypeOK /\ Single(m)
        BY <3>1 DEF Singles, InHand
      <3> QED
        BY <3>1, <3>2, SingleIsExcused
    <2> HIDE DEF excused
    <2>3. Summable(booked, Told(o)) /\ Summable(excused, Told(o))
      BY <2>1, <2>2 DEF Summable
    <2>4. SumFunctionOnSet(booked, Told(o)) <= SumFunctionOnSet(excused, Told(o))
      BY <2>2, <2>3, SumGrows
    <2> QED
      BY <2>4 DEF excused
  <1> QED
    BY <1>1, <1>2, <1>3, PTL DEF Spec

-----------------------------------------------------------------------------
\* What a seller who has checked is about to take.
SaleOf(s) == IF s \in Kits THEN Components[s] ELSE Lines[Head(batch[s])]

Owes(v) == [s \in Sellers |-> IF pc[s] = "append" THEN Taken(SaleOf(s), v) ELSE 0]

Appetites(v) == [s \in Sellers |-> Appetite(s, v)]

\* What will be left of the stock when all who have checked have appended.
Left(v) == ledger[v] - SumFunctionOnSet(Owes(v), Sellers)

Covered(v) ==
    \/ Left(v) >= 0
    \/ \E last \in Sellers :
           /\ Appetite(last, v) > 0
           /\ Left(v) + SumFunctionOnSet(Appetites(v), Sellers \ {last}) >= 0

\* No sale of a seller takes more than his appetite.
LEMMA AppetiteIsLargest ==
    ASSUME NEW s \in Sellers, NEW v
    PROVE  /\ Appetite(s, v) \in Nat
           /\ s \in Kits => Taken(Components[s], v) <= Appetite(s, v)
           /\ s \in Workers => \A m \in Messages : Taken(Lines[m], v) <= Appetite(s, v)
  <1>1. CASE s \in Kits
    <2> DEFINE All == {0} \cup {Taken(lines, v) : lines \in {Components[s]}}
    <2>1. All = {0, Taken(Components[s], v)} /\ Components[s] \in Seq(Line)
      BY <1>1, SalesAssumption
    <2>2. Taken(Components[s], v) \in Nat
      BY <2>1, TakenFacts
    <2>3. Appetite(s, v) = Max(All)
      BY <1>1 DEF Appetite
    <2> HIDE DEF All
    <2>4. All \in SUBSET Nat /\ All # {} /\ Taken(Components[s], v) \in All
      BY <2>1, <2>2
    <2>5. IsFiniteSet(All)
      <3>1. IsFiniteSet({0} \cup {Taken(Components[s], v)})
        BY FS_Singleton, FS_AddElement
      <3>2. All = {0} \cup {Taken(Components[s], v)}
        BY <2>1
      <3> QED
        BY <3>1, <3>2
    <2>6. Max(All) \in All /\ \A y \in All : y <= Max(All)
      BY <2>4, <2>5, MaxIsLargest
    <2> QED
      BY <1>1, <2>3, <2>4, <2>6, SellerTypes
  <1>2. CASE s \in Workers
    <2> DEFINE f == [m \in Messages |-> Taken(Lines[m], v)]
               Image == {f[m] : m \in Messages}
               All == {0} \cup {Taken(lines, v) : lines \in {Lines[m] : m \in Messages}}
    <2>1. \A m \in Messages : Taken(Lines[m], v) \in Nat
      BY SalesAssumption, TakenFacts
    <2>2. All = Image \cup {0}
      OBVIOUS
    <2>3. IsFiniteSet(Messages)
      BY SalesAssumption, FS_Interval DEF Messages
    <2>4. IsFiniteSet(Image)
      <3> HIDE DEF f
      <3> QED
        BY <2>3, ImageIsFinite
    <2>5. IsFiniteSet(All)
      <3> HIDE DEF Image
      <3>1. IsFiniteSet(Image \cup {0})
        BY <2>4, FS_AddElement
      <3> QED
        BY <2>2, <3>1
    <2>6. All \in SUBSET Nat /\ All # {} /\ \A m \in Messages : Taken(Lines[m], v) \in All
      BY <2>1
    <2>7. Appetite(s, v) = Max(All)
      BY <1>2, SellerTypes DEF Appetite
    <2> HIDE DEF All, Image, f
    <2>8. Max(All) \in All /\ \A y \in All : y <= Max(All)
      BY <2>5, <2>6, MaxIsLargest
    <2> QED
      BY <1>2, <2>6, <2>7, <2>8, SellerTypes
  <1> QED
    BY <1>1, <1>2 DEF Sellers

LEMMA AppetitesType ==
    ASSUME NEW v
    PROVE  /\ \A s \in Sellers : Appetites(v)[s] = Appetite(s, v) /\ Appetites(v)[s] \in Nat
           /\ Summable(Appetites(v), Sellers)
           /\ \A last \in Sellers : SumFunctionOnSet(Appetites(v), Sellers \ {last}) \in Nat
  <1>1. \A s \in Sellers : Appetites(v)[s] = Appetite(s, v) /\ Appetites(v)[s] \in Nat
    BY AppetiteIsLargest DEF Appetites
  <1>2. Summable(Appetites(v), Sellers)
    BY <1>1, SalesAssumption DEF Summable
  <1>3. ASSUME NEW last \in Sellers
        PROVE  SumFunctionOnSet(Appetites(v), Sellers \ {last}) \in Nat
    <2>1. IsFiniteSet(Sellers \ {last})
      BY SalesAssumption, FS_RemoveElement
    <2> QED
      BY <1>1, <2>1, SumNat
  <1> QED
    BY <1>1, <1>2, <1>3

\* The types of what is owed, for the states before and after a step.
Owing ==
    /\ \A s \in Sellers : pc[s] = "append" =>
           /\ SaleOf(s) \in Seq(Line)
           /\ \A v \in Variants :
                  Taken(SaleOf(s), v) \in Nat /\ Taken(SaleOf(s), v) <= Appetite(s, v)
    /\ \A v \in Variants :
           /\ \A s \in Sellers : Owes(v)[s] \in Nat /\ Owes(v)[s] <= Appetites(v)[s]
           /\ Summable(Owes(v), Sellers)
           /\ ledger[v] \in Int /\ Left(v) \in Int /\ Left(v) <= ledger[v]

LEMMA OwingFollows == TypeOK => Owing
  <1> SUFFICES ASSUME TypeOK PROVE Owing
    OBVIOUS
  <1>1. ASSUME NEW s \in Sellers, pc[s] = "append"
        PROVE  /\ SaleOf(s) \in Seq(Line)
               /\ \A v : Taken(SaleOf(s), v) \in Nat /\ Taken(SaleOf(s), v) <= Appetite(s, v)
    <2>1. CASE s \in Kits
      <3>1. SaleOf(s) = Components[s] /\ Components[s] \in Seq(Line)
        BY <2>1, SalesAssumption DEF SaleOf
      <3> QED
        BY <2>1, <3>1, TakenFacts, AppetiteIsLargest
    <2>2. CASE s \in Workers
      <3>1. batch[s] # <<>>
        BY <1>1, <2>2 DEF TypeOK
      <3>2. Head(batch[s]) \in Messages
        BY <2>2, <3>1, HeadType
      <3>3. SaleOf(s) = Lines[Head(batch[s])] /\ Lines[Head(batch[s])] \in Seq(Line)
        BY <2>2, <3>2, SellerTypes, SalesAssumption DEF SaleOf
      <3> QED
        BY <2>2, <3>2, <3>3, TakenFacts, AppetiteIsLargest
    <2> QED
      BY <2>1, <2>2 DEF Sellers
  <1>2. ASSUME NEW v \in Variants, NEW s \in Sellers
        PROVE  Owes(v)[s] \in Nat /\ Owes(v)[s] <= Appetites(v)[s]
    <2>1. Appetites(v)[s] = Appetite(s, v) /\ Appetites(v)[s] \in Nat
      BY AppetitesType
    <2>2. CASE pc[s] = "append"
      <3>1. Owes(v)[s] = Taken(SaleOf(s), v)
        BY <2>2 DEF Owes
      <3> QED
        BY <1>1, <2>1, <2>2, <3>1
    <2>3. CASE pc[s] # "append"
      <3>1. Owes(v)[s] = 0
        BY <2>3 DEF Owes
      <3> QED
        BY <2>1, <3>1
    <2> QED
      BY <2>2, <2>3
  <1>3. ASSUME NEW v \in Variants
        PROVE  /\ Summable(Owes(v), Sellers)
               /\ ledger[v] \in Int /\ Left(v) \in Int /\ Left(v) <= ledger[v]
    <2>1. IsFiniteSet(Sellers) /\ ledger[v] \in Int
      BY SalesAssumption DEF TypeOK
    <2>2. Summable(Owes(v), Sellers)
      BY <1>2, <2>1 DEF Summable
    <2>3. SumFunctionOnSet(Owes(v), Sellers) \in Nat
      BY <1>2, <2>1, SumNat
    <2> QED
      BY <2>1, <2>2, <2>3 DEF Left
  <1> QED
    BY <1>1, <1>2, <1>3 DEF Owing

\* A sale that is enough for the stock leaves some of it.
LEMMA SufficientLeaves ==
    ASSUME NEW lines \in Seq(Line), NEW v \in Variants, Sufficient(lines),
           \A i, j \in DOMAIN lines : lines[i].variant = lines[j].variant => i = j
    PROVE  Taken(lines, v) = 0 \/ ledger[v] >= Taken(lines, v)
  <1>1. CASE Taken(lines, v) = 0
    BY <1>1
  <1>2. ASSUME NEW i \in DOMAIN lines, lines[i].variant = v, lines[i].quantity = Taken(lines, v)
        PROVE  ledger[v] >= Taken(lines, v)
    <2>1. ledger[lines[i].variant] >= lines[i].quantity
      BY DEF Sufficient
    <2> QED
      BY <1>2, <2>1
  <1> QED
    BY <1>1, <1>2, TakenFacts

\* Who moves, and that nobody else's promise changes.
LEMMA WorkerMoves ==
    ASSUME NEW w \in Workers, Work(w) \/ Crash(w)
    PROVE  \E x : pc' = [pc EXCEPT ![w] = x]
  <1>1. CASE Poll(w) \/ Mark(w) \/ CheckOrder(w)
    BY <1>1 DEF Poll, Mark, CheckOrder
  <1>2. CASE AppendOrder(w)
    BY <1>2 DEF AppendOrder
  <1>3. CASE CommitOrder(w)
    BY <1>3 DEF CommitOrder
  <1>4. CASE FailOrder(w) \/ FailCommit(w)
    BY <1>4 DEF FailOrder, FailCommit
  <1>5. CASE RecordFailure(w)
    BY <1>5 DEF RecordFailure
  <1>6. CASE Finish(w)
    BY <1>6 DEF Finish
  <1>7. CASE Crash(w)
    BY <1>7 DEF Crash
  <1> QED
    BY <1>1, <1>2, <1>3, <1>4, <1>5, <1>6, <1>7 DEF Work

LEMMA OwesElsewhere ==
    ASSUME TypeOK, NEW v, NEW s \in Sellers,
           \/ s \in Workers /\ (Work(s) \/ Crash(s))
           \/ s \in Kits /\ (CheckKit(s) \/ AppendKit(s))
    PROVE  \A x \in Sellers : x # s => Owes(v)'[x] = Owes(v)[x]
  <1> SUFFICES ASSUME NEW x \in Sellers, x # s PROVE Owes(v)'[x] = Owes(v)[x]
    OBVIOUS
  <1>1. pc'[x] = pc[x]
    <2>1. \E y : pc' = [pc EXCEPT ![s] = y]
      BY WorkerMoves DEF CheckKit, AppendKit
    <2> QED
      BY <2>1 DEF TypeOK
  <1>2. x \in Workers => batch'[x] = batch[x]
    <2>1. CASE s \in Workers /\ (Work(s) \/ Crash(s))
      BY <2>1, OthersKeep
    <2>2. CASE s \in Kits /\ (CheckKit(s) \/ AppendKit(s))
      BY <2>2 DEF CheckKit, AppendKit, worker
    <2> QED
      BY <2>1, <2>2
  <1>3. SaleOf(x)' = SaleOf(x)
    BY <1>2 DEF SaleOf, Sellers
  <1> QED
    BY <1>1, <1>3 DEF Owes

\* A step after which no more is owed, of a stock that is no less.
LEMMA CoveredStays ==
    ASSUME Owing, Owing', NEW v \in Variants, Covered(v), Left(v) <= Left(v)'
    PROVE  Covered(v)'
  <1>1. Left(v) \in Int /\ Left(v)' \in Int
    BY DEF Owing
  <1>2. CASE Left(v) >= 0
    BY <1>1, <1>2 DEF Covered
  <1>3. ASSUME NEW last \in Sellers, Appetite(last, v) > 0,
               Left(v) + SumFunctionOnSet(Appetites(v), Sellers \ {last}) >= 0
        PROVE  Covered(v)'
    <2>1. SumFunctionOnSet(Appetites(v), Sellers \ {last}) \in Nat
      BY AppetitesType
    <2>2. Left(v)' + SumFunctionOnSet(Appetites(v), Sellers \ {last}) >= 0
      BY <1>1, <1>3, <2>1
    <2>3. Appetites(v)' = Appetites(v) /\ Appetite(last, v)' = Appetite(last, v)
      BY DEF Appetites
    <2> QED
      BY <1>3, <2>2, <2>3 DEF Covered
  <1> QED
    BY <1>2, <1>3 DEF Covered

\* One seller moves who does not owe more than before.
LEMMA OwingLess ==
    ASSUME Owing, Owing', NEW v \in Variants, NEW s \in Sellers, ledger' = ledger,
           \A x \in Sellers : x # s => Owes(v)'[x] = Owes(v)[x],
           Owes(v)'[s] <= Owes(v)[s]
    PROVE  Left(v) <= Left(v)'
  <1>1. Summable(Owes(v), Sellers) /\ Summable(Owes(v)', Sellers)
    BY DEF Owing, Summable
  <1>2. \A x \in Sellers : Owes(v)[x] \in Nat /\ Owes(v)'[x] \in Nat /\ Owes(v)'[x] <= Owes(v)[x]
    BY DEF Owing
  <1>3. SumFunctionOnSet(Owes(v)', Sellers) <= SumFunctionOnSet(Owes(v), Sellers)
    BY <1>1, <1>2, SumGrows
  <1>4. /\ SumFunctionOnSet(Owes(v), Sellers) \in Int
        /\ SumFunctionOnSet(Owes(v)', Sellers) \in Int
        /\ ledger[v] \in Int
    BY <1>1, SumType DEF Owing
  <1>5. /\ Left(v) = ledger[v] - SumFunctionOnSet(Owes(v), Sellers)
        /\ Left(v)' = ledger[v] - SumFunctionOnSet(Owes(v)', Sellers)
    BY DEF Left
  <1> QED
    BY <1>3, <1>4, <1>5

\* A seller who has checked: what he is about to take is there, so that what
\* the others are about to take is all that can be missing.
LEMMA CheckCovers ==
    ASSUME DistinctLines, Owing, Owing', NEW v \in Variants, NEW s \in Sellers,
           Covered(v), ledger' = ledger, pc[s] # "append", pc'[s] = "append",
           \A x \in Sellers : x # s => Owes(v)'[x] = Owes(v)[x],
           SaleOf(s)' = SaleOf(s), Sufficient(SaleOf(s)),
           SaleOf(s) \in Range(Lines) \cup Range(Components)
    PROVE  Covered(v)'
  <1> DEFINE T == Taken(SaleOf(s), v)
  <1>1. /\ SaleOf(s) \in Seq(Line)
        /\ T \in Nat /\ T <= Appetite(s, v)
        /\ Appetite(s, v) \in Nat
    <2>1. /\ SaleOf(s)' \in Seq(Line)
          /\ Taken(SaleOf(s)', v) \in Nat
          /\ Taken(SaleOf(s)', v) <= Appetite(s, v)
      BY DEF Owing
    <2> QED
      BY <2>1, AppetiteIsLargest
  <1>2. T = 0 \/ ledger[v] >= T
    <2>1. \A i, j \in DOMAIN SaleOf(s) : SaleOf(s)[i].variant = SaleOf(s)[j].variant => i = j
      BY DEF DistinctLines
    <2> QED
      BY <1>1, <2>1, SufficientLeaves
  <1>3. Owes(v)'[s] = T
    BY DEF Owes
  <1>4. Owes(v)[s] = 0
    BY DEF Owes
  <1>5. CASE T = 0
    <2>1. Left(v) <= Left(v)'
      BY <1>3, <1>4, <1>5, OwingLess
    <2> QED
      BY <2>1, CoveredStays
  <1>6. CASE T # 0
    <2> DEFINE others == Sellers \ {s}
               owed == SumFunctionOnSet(Owes(v)', others)
               most == SumFunctionOnSet(Appetites(v), others)
    <2>1. Summable(Owes(v)', Sellers) /\ Summable(Appetites(v), Sellers)
      BY AppetitesType DEF Owing, Summable
    <2>2. Summable(Owes(v)', others) /\ Summable(Appetites(v), others)
      BY <2>1, FS_RemoveElement DEF Summable
    <2>3. \A x \in others : Owes(v)'[x] <= Appetites(v)[x]
      BY DEF Owing, Appetites
    <2>4. owed <= most /\ owed \in Int /\ most \in Int
      BY <2>2, <2>3, SumGrows, SumType
    <2>5. SumFunctionOnSet(Owes(v)', Sellers) = Owes(v)'[s] + owed
      BY <2>1, SumTakeOut
    <2>6. ledger[v] \in Int
      BY DEF Owing
    <2>7. Left(v)' = ledger[v] - SumFunctionOnSet(Owes(v)', Sellers)
      BY DEF Left
    <2>8. Left(v)' + most >= 0
      <3> HIDE DEF owed, most, T
      <3> QED
        BY <1>1, <1>2, <1>3, <1>6, <2>4, <2>5, <2>6, <2>7
    <2>9. Appetite(s, v) > 0
      BY <1>1, <1>6
    <2>10. Appetites(v)' = Appetites(v) /\ Appetite(s, v)' = Appetite(s, v)
      BY DEF Appetites
    <2> QED
      BY <2>8, <2>9, <2>10 DEF Covered
  <1> QED
    BY <1>5, <1>6

\* A seller who appends takes what he owed.
LEMMA AppendPays ==
    ASSUME Owing, Owing', NEW v \in Variants, NEW s \in Sellers,
           pc[s] = "append", pc'[s] # "append", ledger' = Appended(SaleOf(s)),
           \A x \in Sellers : x # s => Owes(v)'[x] = Owes(v)[x]
    PROVE  Left(v)' = Left(v)
  <1> DEFINE T == Taken(SaleOf(s), v)
  <1>1. T \in Nat
    BY DEF Owing
  <1>2. ledger'[v] = ledger[v] - T /\ ledger[v] \in Int
    BY DEF Appended, Owing
  <1>3. Owes(v)[s] = T
    BY DEF Owes
  <1>4. Owes(v)'[s] = 0
    BY DEF Owes
  <1>5. Summable(Owes(v), Sellers) /\ Summable(Owes(v)', Sellers)
    BY DEF Owing, Summable
  <1>6. SumFunctionOnSet(Owes(v)', Sellers)
            = SumFunctionOnSet(Owes(v), Sellers) + (Owes(v)'[s] - Owes(v)[s])
    BY <1>5, SumUpdate
  <1>7. /\ SumFunctionOnSet(Owes(v), Sellers) \in Int
        /\ SumFunctionOnSet(Owes(v)', Sellers) \in Int
    BY <1>5, SumType
  <1>8. /\ Left(v) = ledger[v] - SumFunctionOnSet(Owes(v), Sellers)
        /\ Left(v)' = ledger'[v] - SumFunctionOnSet(Owes(v)', Sellers)
    BY DEF Left
  <1> HIDE DEF T
  <1> QED
    BY <1>1, <1>2, <1>3, <1>4, <1>6, <1>7, <1>8

LEMMA NextCovered ==
    ASSUME DistinctLines, InHand, [Next]_vars, Owing, Owing', NEW v \in Variants, Covered(v)
    PROVE  Covered(v)'
  <1> USE DEF InHand
  <1>0. ASSUME ledger' = ledger, \A s \in Sellers : Owes(v)'[s] = Owes(v)[s]
        PROVE  Covered(v)'
    <2>1. CASE Sellers = {}
      <3>1. Left(v)' = Left(v)
        BY <1>0, <2>1, SumEmpty DEF Left
      <3>2. Left(v) \in Int
        BY DEF Owing
      <3> QED
        BY <3>1, <3>2, CoveredStays
    <2>2. ASSUME NEW s \in Sellers PROVE Covered(v)'
      <3>1. Owes(v)'[s] <= Owes(v)[s]
        BY <1>0 DEF Owing
      <3>2. Left(v) <= Left(v)'
        BY <1>0, <3>1, OwingLess
      <3> QED
        BY <3>2, CoveredStays
    <2> QED
      BY <2>1, <2>2
  <1>1. ASSUME NEW m \in Messages, Stage(m) PROVE Covered(v)'
    <2>1. UNCHANGED <<ledger, pc, batch>>
      BY <1>1 DEF Stage, worker
    <2> QED
      BY <1>0, <2>1 DEF Owes, SaleOf
  <1>2. CASE UNCHANGED vars
    <2>1. UNCHANGED <<ledger, pc, batch>>
      BY <1>2 DEF vars, worker
    <2> QED
      BY <1>0, <2>1 DEF Owes, SaleOf
  <1>3. ASSUME NEW k \in Kits, CheckKit(k) PROVE Covered(v)'
    <2>1. k \in Sellers /\ SaleOf(k) = Components[k] /\ SaleOf(k)' = SaleOf(k)
      BY SellerTypes DEF SaleOf
    <2>2. \A x \in Sellers : x # k => Owes(v)'[x] = Owes(v)[x]
      BY <1>3, <2>1, OwesElsewhere
    <2>3. /\ pc[k] = "check" /\ ledger' = ledger
          /\ pc'[k] = IF Sufficient(Components[k]) THEN "append" ELSE "refused"
      BY <1>3, <2>1 DEF CheckKit, TypeOK
    <2>4. CASE Sufficient(Components[k])
      <3>1. Components[k] \in Range(Components)
        BY SalesAssumption DEF Range
      <3> QED
        BY <2>1, <2>2, <2>3, <2>4, <3>1, CheckCovers
    <2>5. CASE ~Sufficient(Components[k])
      <3>1. Owes(v)'[k] = 0 /\ Owes(v)[k] = 0
        BY <2>1, <2>3, <2>5 DEF Owes
      <3> QED
        BY <1>0, <2>2, <2>3, <3>1
    <2> QED
      BY <2>4, <2>5
  <1>4. ASSUME NEW k \in Kits, AppendKit(k) PROVE Covered(v)'
    <2>1. k \in Sellers /\ SaleOf(k) = Components[k]
      BY SellerTypes DEF SaleOf
    <2>2. \A x \in Sellers : x # k => Owes(v)'[x] = Owes(v)[x]
      BY <1>4, <2>1, OwesElsewhere
    <2>3. /\ pc[k] = "append" /\ pc'[k] = "sold"
          /\ ledger' = Appended(SaleOf(k))
      BY <1>4, <2>1 DEF AppendKit, TypeOK
    <2>4. Left(v)' = Left(v)
      BY <2>1, <2>2, <2>3, AppendPays
    <2>5. Left(v) \in Int
      BY DEF Owing
    <2> QED
      BY <2>4, <2>5, CoveredStays
  <1>5. ASSUME NEW w \in Workers, Work(w) \/ Crash(w)
        PROVE  w \in Sellers /\ \A x \in Sellers : x # w => Owes(v)'[x] = Owes(v)[x]
    <2>1. w \in Sellers
      BY SellerTypes
    <2> QED
      BY <1>5, <2>1, OwesElsewhere
  <1>6. ASSUME NEW w \in Workers, CheckOrder(w) PROVE Covered(v)'
    <2>1. w \in Sellers /\ \A x \in Sellers : x # w => Owes(v)'[x] = Owes(v)[x]
      BY <1>5, <1>6 DEF Work
    <2>2. /\ pc[w] = "event" /\ pc'[w] = "append" /\ batch[w] # <<>>
          /\ Sufficient(Lines[Head(batch[w])])
          /\ ledger' = ledger /\ batch' = batch
      BY <1>6, <2>1 DEF CheckOrder, TypeOK, worker
    <2>3. SaleOf(w) = Lines[Head(batch[w])] /\ SaleOf(w)' = SaleOf(w)
      BY <2>2, SellerTypes DEF SaleOf
    <2>4. Head(batch[w]) \in Messages
      BY <2>2, HeadType
    <2>5. Lines[Head(batch[w])] \in Range(Lines)
      BY <2>4, SalesAssumption DEF Range
    <2> QED
      BY <2>1, <2>2, <2>3, <2>5, CheckCovers
  <1>7. ASSUME NEW w \in Workers, AppendOrder(w) PROVE Covered(v)'
    <2>1. w \in Sellers /\ \A x \in Sellers : x # w => Owes(v)'[x] = Owes(v)[x]
      BY <1>5, <1>7 DEF Work
    <2>2. /\ pc[w] = "append" /\ pc'[w] = "commit"
          /\ ledger' = Appended(SaleOf(w))
      BY <1>7, <2>1, SellerTypes DEF AppendOrder, TypeOK, SaleOf
    <2>3. Left(v)' = Left(v)
      BY <2>1, <2>2, AppendPays
    <2>4. Left(v) \in Int
      BY DEF Owing
    <2> QED
      BY <2>3, <2>4, CoveredStays
  <1>8. ASSUME NEW w \in Workers,
               \/ Poll(w) \/ Mark(w) \/ CommitOrder(w) \/ FailOrder(w) \/ FailCommit(w)
               \/ RecordFailure(w) \/ Finish(w) \/ Crash(w)
        PROVE  Covered(v)'
    <2>1. w \in Sellers /\ \A x \in Sellers : x # w => Owes(v)'[x] = Owes(v)[x]
      BY <1>5, <1>8 DEF Work
    <2>2. ledger' = ledger
      BY <1>8 DEF Poll, Mark, CommitOrder, FailOrder, FailCommit, RecordFailure, Finish, Crash
    <2>3. pc'[w] # "append"
      <3>1. \E x \in {"mark", "event", "failing", "idle"} : pc' = [pc EXCEPT ![w] = x]
        BY <1>8 DEF Poll, Mark, CommitOrder, FailOrder, FailCommit, RecordFailure, Finish, Crash
      <3> QED
        BY <2>1, <3>1 DEF TypeOK
    <2>4. Owes(v)'[w] = 0 /\ Owes(v)[w] \in Nat
      BY <2>1, <2>3 DEF Owes, Owing
    <2>5. Owes(v)'[w] <= Owes(v)[w]
      BY <2>4
    <2>6. Left(v) <= Left(v)'
      BY <2>1, <2>2, <2>5, OwingLess
    <2> QED
      BY <2>6, CoveredStays
  <1> QED
    BY <1>1, <1>2, <1>3, <1>4, <1>6, <1>7, <1>8 DEF Next, Work

\* Sellers who check first and append later can leave a variant short by no
\* more than one sale of each of them but one, however many they are.
THEOREM Overselling ==
    ASSUME DistinctLines
    PROVE  Spec => []OversellBounded
  <1> DEFINE AllCovered == \A v \in Variants : Covered(v)
  <1>1. Init => InHand /\ AllCovered
    <2> SUFFICES ASSUME Init, NEW v \in Variants PROVE Covered(v)
      BY InitInHand
    <2>1. \A s \in Sellers : Owes(v)[s] = 0
      BY DEF Init, Owes
    <2>2. SumFunctionOnSet(Owes(v), Sellers) = 0
      BY <2>1, SumZero, SalesAssumption
    <2>3. ledger[v] \in Nat
      BY SalesAssumption DEF Init
    <2> QED
      BY <2>2, <2>3 DEF Covered, Left
  <1>2. InHand => Owing
    BY OwingFollows DEF InHand
  <1>3. InHand /\ Owing /\ Owing' /\ AllCovered /\ [Next]_vars => AllCovered'
    BY NextCovered
  <1>4. Owing /\ AllCovered => OversellBounded
    <2> SUFFICES ASSUME Owing, NEW v \in Variants, Covered(v), ledger[v] < 0
                 PROVE  \E last \in Sellers :
                            /\ Appetite(last, v) > 0
                            /\ ledger[v] + SumFunctionOnSet([s \in Sellers |-> Appetite(s, v)],
                                                           Sellers \ {last}) >= 0
      BY DEF OversellBounded
    <2>1. ledger[v] \in Int /\ Left(v) \in Int /\ Left(v) <= ledger[v]
      BY DEF Owing
    <2>2. PICK last \in Sellers :
              /\ Appetite(last, v) > 0
              /\ Left(v) + SumFunctionOnSet(Appetites(v), Sellers \ {last}) >= 0
      <3>1. ~ (Left(v) >= 0)
        BY <2>1
      <3> QED
        BY <3>1 DEF Covered
    <2>3. SumFunctionOnSet(Appetites(v), Sellers \ {last}) \in Nat
      BY AppetitesType
    <2>4. ledger[v] + SumFunctionOnSet(Appetites(v), Sellers \ {last}) >= 0
      BY <2>1, <2>2, <2>3
    <2> QED
      BY <2>2, <2>4 DEF Appetites
  <1> QED
    BY <1>1, <1>2, <1>3, <1>4, NextInHand, PTL DEF Spec

=============================================================================
