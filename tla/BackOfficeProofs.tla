--------------------------- MODULE BackOfficeProofs ---------------------------
(***************************************************************************)
(* The parts of the back office, which share nothing: the replicated       *)
(* counter, the registry of tenants, opening balances, units, roles, the   *)
(* external books, barcodes, serial numbers, lots, the connection pool and *)
(* the approvals, each for any constants.  Counter, registry and approvals *)
(* are extended; of the others there is an instance each, over variables   *)
(* of its own.  A comment says what each inductive invariant is made of.   *)
(*                                                                         *)
(* The replicated counter agrees: a node is the only one to change its own *)
(* numbers, and they only grow; so whatever is said of a node, by a state  *)
(* that another node has or by one on its way, however old, says at most   *)
(* what the node says of itself, and the larger of two such numbers does   *)
(* too.  A node that has heard everything therefore has the same numbers   *)
(* as all the nodes have of themselves, and their sums are the same.       *)
(*                                                                         *)
(* The registry tells the truth: of a tenant on which calls have not       *)
(* overlapped, one call at most is in work, so what that call has done to  *)
(* the database is still so when it activates the tenant; and a call that  *)
(* has listed a tenant as being provisioned is there until it lists it as  *)
(* something else.                                                         *)
(***************************************************************************)
EXTENDS StockCounter, TenantRegistry, Approvals, CommonTheorems

\* No state on its way tells more of a node than the node itself.
SentIsKnown == \A s \in sent : \A n \in Nodes : NoMore(s, n)

CounterInv == TypeOK /\ NothingInvented /\ SentIsKnown

\* What a node says of itself only grows.
OwnNumbersGrow ==
    \A n \in Nodes : /\ state[n].increments[n] <= state'[n].increments[n]
                     /\ state[n].decrements[n] <= state'[n].decrements[n]

-----------------------------------------------------------------------------
\* The larger of two numbers is one of them, and a bound of both.
LEMMA LargerFacts ==
    ASSUME NEW a \in Nat, NEW b \in Nat
    PROVE  /\ Larger(a, b) \in Nat
           /\ a <= Larger(a, b)
           /\ \A c \in Nat : a <= c /\ b <= c => Larger(a, b) <= c
BY DEF Larger

\* The merge of two states is a state, whose numbers are those of either.
LEMMA MergeFacts ==
    ASSUME NEW a \in CounterStates, NEW b \in CounterStates
    PROVE  /\ merge(a, b) \in CounterStates
           /\ \A n \in Nodes :
                /\ merge(a, b).increments[n] = Larger(a.increments[n], b.increments[n])
                /\ merge(a, b).decrements[n] = Larger(a.decrements[n], b.decrements[n])
  <1>1. /\ a.increments \in Counts /\ b.increments \in Counts
        /\ a.decrements \in Counts /\ b.decrements \in Counts
    BY DEF CounterStates
  <1>2. Merged(a.increments, b.increments) \in Counts /\ Merged(a.decrements, b.decrements) \in Counts
    BY <1>1, LargerFacts DEF Merged, Counts
  <1>3. merge(a, b) \in CounterStates
    BY <1>2 DEF merge, CounterStates
  <1>4. \A n \in Nodes : /\ merge(a, b).increments[n] = Larger(a.increments[n], b.increments[n])
                         /\ merge(a, b).decrements[n] = Larger(a.decrements[n], b.decrements[n])
    BY DEF merge, Merged
  <1> QED
    BY <1>3, <1>4

\* The numbers of a state are natural numbers.
LEMMA NumbersAreNat ==
    ASSUME NEW s \in CounterStates, NEW n \in Nodes
    PROVE  s.increments[n] \in Nat /\ s.decrements[n] \in Nat
BY DEF CounterStates, Counts

\* What a state tells of a node stays within what the node tells, as that grows.
LEMMA KnownStays ==
    ASSUME TypeOK, TypeOK', OwnNumbersGrow,
           NEW s \in CounterStates, NEW n \in Nodes, NoMore(s, n)
    PROVE  NoMore(s, n)'
  <1>1. state[n] \in CounterStates /\ state'[n] \in CounterStates
    BY DEF TypeOK
  <1>2. /\ s.increments[n] \in Nat /\ state[n].increments[n] \in Nat /\ state'[n].increments[n] \in Nat
        /\ s.decrements[n] \in Nat /\ state[n].decrements[n] \in Nat /\ state'[n].decrements[n] \in Nat
    BY <1>1, NumbersAreNat
  <1>3. /\ s.increments[n] <= state[n].increments[n] /\ s.decrements[n] <= state[n].decrements[n]
        /\ state[n].increments[n] <= state'[n].increments[n]
        /\ state[n].decrements[n] <= state'[n].decrements[n]
    BY DEF NoMore, OwnNumbersGrow
  <1>4. s.increments[n] <= state'[n].increments[n] /\ s.decrements[n] <= state'[n].decrements[n]
    BY <1>2, <1>3
  <1> QED
    BY <1>4 DEF NoMore

\* A merge of two states that are known is known.
LEMMA MergeIsKnown ==
    ASSUME TypeOK, NEW a \in CounterStates, NEW b \in CounterStates, NEW n \in Nodes,
           NoMore(a, n), NoMore(b, n)
    PROVE  NoMore(merge(a, b), n)
  <1>1. state[n] \in CounterStates
    BY DEF TypeOK
  <1>2. /\ a.increments[n] \in Nat /\ b.increments[n] \in Nat /\ state[n].increments[n] \in Nat
        /\ a.decrements[n] \in Nat /\ b.decrements[n] \in Nat /\ state[n].decrements[n] \in Nat
    BY <1>1, NumbersAreNat
  <1>3. /\ a.increments[n] <= state[n].increments[n] /\ b.increments[n] <= state[n].increments[n]
        /\ a.decrements[n] <= state[n].decrements[n] /\ b.decrements[n] <= state[n].decrements[n]
    BY DEF NoMore
  <1>4. /\ Larger(a.increments[n], b.increments[n]) <= state[n].increments[n]
        /\ Larger(a.decrements[n], b.decrements[n]) <= state[n].decrements[n]
    BY <1>2, <1>3, LargerFacts
  <1> QED
    BY <1>4, MergeFacts DEF NoMore

-----------------------------------------------------------------------------
\* What each operation does to the state of the node that runs it.
LEMMA OperationFacts ==
    ASSUME TypeOK, NEW m \in Nodes, NEW amount \in Amounts, Increment(m, amount) \/ Decrement(m, amount)
    PROVE  /\ TypeOK' /\ sent' = sent /\ OwnNumbersGrow
           /\ \A k, n \in Nodes : k # n =>
                /\ state'[k].increments[n] = state[k].increments[n]
                /\ state'[k].decrements[n] = state[k].decrements[n]
  <1>1. /\ state \in [Nodes -> CounterStates] /\ sent \subseteq CounterStates
        /\ amount \in Nat /\ state[m] \in CounterStates
        /\ state[m].increments \in [Nodes -> Nat] /\ state[m].decrements \in [Nodes -> Nat]
        /\ state[m].increments[m] \in Nat /\ state[m].decrements[m] \in Nat
    BY CounterAssumption DEF TypeOK, CounterStates, Counts
  <1>2. CASE Increment(m, amount)
    <2> DEFINE new == [state[m].increments EXCEPT ![m] = state[m].increments[m] + amount]
               s == [state[m] EXCEPT !.increments = new]
    <2>1. new \in [Nodes -> Nat] /\ new[m] = state[m].increments[m] + amount
          /\ \A n \in Nodes : n # m => new[n] = state[m].increments[n]
      BY <1>1
    <2>2. s \in CounterStates /\ s.increments = new /\ s.decrements = state[m].decrements
      BY <1>1, <2>1 DEF CounterStates, Counts
    <2>3. state' = [state EXCEPT ![m] = s] /\ sent' = sent
      BY <1>2, <1>1 DEF Increment
    <2>4. TypeOK'
      BY <1>1, <2>2, <2>3 DEF TypeOK
    <2>5. state'[m] = s /\ \A n \in Nodes : n # m => state'[n] = state[n]
      BY <1>1, <2>3
    <2> HIDE DEF new, s
    <2>6. ASSUME NEW k \in Nodes, NEW n \in Nodes, k # n
          PROVE  /\ state'[k].increments[n] = state[k].increments[n]
                 /\ state'[k].decrements[n] = state[k].decrements[n]
      BY <2>1, <2>2, <2>5, <2>6
    <2>7. ASSUME NEW n \in Nodes
          PROVE  /\ state[n].increments[n] <= state'[n].increments[n]
                 /\ state[n].decrements[n] <= state'[n].decrements[n]
      <3>1. /\ state[n].increments[n] \in Nat /\ state[n].decrements[n] \in Nat
        BY <1>1, NumbersAreNat
      <3>2. CASE n = m
        BY <3>1, <3>2, <1>1, <2>1, <2>2, <2>5
      <3>3. CASE n # m
        BY <3>1, <3>3, <2>5
      <3> QED
        BY <3>2, <3>3
    <2> QED
      BY <2>3, <2>4, <2>6, <2>7 DEF OwnNumbersGrow
  <1>3. CASE Decrement(m, amount)
    <2> DEFINE new == [state[m].decrements EXCEPT ![m] = state[m].decrements[m] + amount]
               s == [state[m] EXCEPT !.decrements = new]
    <2>1. new \in [Nodes -> Nat] /\ new[m] = state[m].decrements[m] + amount
          /\ \A n \in Nodes : n # m => new[n] = state[m].decrements[n]
      BY <1>1
    <2>2. s \in CounterStates /\ s.decrements = new /\ s.increments = state[m].increments
      BY <1>1, <2>1 DEF CounterStates, Counts
    <2>3. state' = [state EXCEPT ![m] = s] /\ sent' = sent
      BY <1>3, <1>1 DEF Decrement
    <2>4. TypeOK'
      BY <1>1, <2>2, <2>3 DEF TypeOK
    <2>5. state'[m] = s /\ \A n \in Nodes : n # m => state'[n] = state[n]
      BY <1>1, <2>3
    <2> HIDE DEF new, s
    <2>6. ASSUME NEW k \in Nodes, NEW n \in Nodes, k # n
          PROVE  /\ state'[k].increments[n] = state[k].increments[n]
                 /\ state'[k].decrements[n] = state[k].decrements[n]
      BY <2>1, <2>2, <2>5, <2>6
    <2>7. ASSUME NEW n \in Nodes
          PROVE  /\ state[n].increments[n] <= state'[n].increments[n]
                 /\ state[n].decrements[n] <= state'[n].decrements[n]
      <3>1. /\ state[n].increments[n] \in Nat /\ state[n].decrements[n] \in Nat
        BY <1>1, NumbersAreNat
      <3>2. CASE n = m
        BY <3>1, <3>2, <1>1, <2>1, <2>2, <2>5
      <3>3. CASE n # m
        BY <3>1, <3>3, <2>5
      <3> QED
        BY <3>2, <3>3
    <2> QED
      BY <2>3, <2>4, <2>6, <2>7 DEF OwnNumbersGrow
  <1> QED
    BY <1>2, <1>3

\* Adding and taking preserve the invariant: they raise only a node's own
\* numbers in its own state.
LEMMA OperationKeeps ==
    ASSUME CounterInv, NEW m \in Nodes, NEW amount \in Amounts, Increment(m, amount) \/ Decrement(m, amount)
    PROVE  CounterInv'
  <1>1. /\ TypeOK /\ TypeOK' /\ sent' = sent /\ OwnNumbersGrow /\ sent \subseteq CounterStates
        /\ \A k, n \in Nodes : k # n =>
             /\ state'[k].increments[n] = state[k].increments[n]
             /\ state'[k].decrements[n] = state[k].decrements[n]
    BY OperationFacts DEF CounterInv, TypeOK
  <1>2. SentIsKnown'
    BY <1>1, KnownStays DEF CounterInv, SentIsKnown
  <1>3. ASSUME NEW k \in Nodes, NEW n \in Nodes
        PROVE  NoMore(state[k], n)'
    <2>0. state[k] \in CounterStates /\ state'[k] \in CounterStates /\ state'[n] \in CounterStates
      BY <1>1 DEF TypeOK
    <2>1. CASE k = n
      <3>1. state'[n].increments[n] \in Nat /\ state'[n].decrements[n] \in Nat
        BY <2>0, NumbersAreNat
      <3> QED
        BY <2>1, <3>1 DEF NoMore
    <2>2. CASE k # n
      <3>1. NoMore(state[k], n)
        BY DEF CounterInv, NothingInvented
      <3>2. /\ state[k].increments[n] <= state'[n].increments[n]
            /\ state[k].decrements[n] <= state'[n].decrements[n]
        <4>1. /\ state[n] \in CounterStates
              /\ state[k].increments[n] \in Nat /\ state[n].increments[n] \in Nat
              /\ state'[n].increments[n] \in Nat
              /\ state[k].decrements[n] \in Nat /\ state[n].decrements[n] \in Nat
              /\ state'[n].decrements[n] \in Nat
          BY <1>1, <2>0, NumbersAreNat DEF TypeOK
        <4> QED
          BY <3>1, <4>1, <1>1 DEF NoMore, OwnNumbersGrow
      <3> QED
        BY <1>1, <2>2, <3>2 DEF NoMore
    <2> QED
      BY <2>1, <2>2
  <1>4. NothingInvented'
    BY <1>3 DEF NothingInvented
  <1> QED
    BY <1>1, <1>2, <1>4 DEF CounterInv

\* Sending preserves the invariant: what is sent is what a node has.
LEMMA SendKeeps ==
    ASSUME CounterInv, NEW m \in Nodes, Send(m)
    PROVE  CounterInv'
  <1>1. sent' = sent \union {state[m]} /\ state' = state
    BY DEF Send
  <1>2. TypeOK'
    BY <1>1 DEF CounterInv, TypeOK
  <1>3. NothingInvented'
    BY <1>1 DEF CounterInv, NothingInvented, NoMore
  <1>4. SentIsKnown'
    BY <1>1 DEF CounterInv, NothingInvented, SentIsKnown, NoMore
  <1> QED
    BY <1>2, <1>3, <1>4 DEF CounterInv

\* Merging preserves the invariant: both states merged are known, and a node's
\* own numbers are at least what any state says of them, so they stay.
LEMMA MergeKeeps ==
    ASSUME CounterInv, NEW m \in Nodes, NEW s \in sent, Merge(m, s)
    PROVE  CounterInv'
  <1>1. /\ TypeOK /\ state \in [Nodes -> CounterStates] /\ sent \subseteq CounterStates
        /\ state[m] \in CounterStates /\ s \in CounterStates
    BY DEF CounterInv, TypeOK
  <1>2. state' = [state EXCEPT ![m] = merge(state[m], s)] /\ sent' = sent
    BY DEF Merge
  <1>3. state'[m] = merge(state[m], s) /\ \A n \in Nodes : n # m => state'[n] = state[n]
    BY <1>1, <1>2
  <1>4. TypeOK'
    BY <1>1, <1>2, MergeFacts DEF TypeOK
  <1>5. \A n \in Nodes : NoMore(merge(state[m], s), n)
    BY <1>1, MergeIsKnown DEF CounterInv, NothingInvented, SentIsKnown
  <1>6. OwnNumbersGrow
    <2> SUFFICES ASSUME NEW n \in Nodes
                 PROVE  /\ state[n].increments[n] <= state'[n].increments[n]
                        /\ state[n].decrements[n] <= state'[n].decrements[n]
      BY DEF OwnNumbersGrow
    <2>1. /\ state[n].increments[n] \in Nat /\ state[n].decrements[n] \in Nat
          /\ s.increments[n] \in Nat /\ s.decrements[n] \in Nat
      BY <1>1, NumbersAreNat
    <2>2. CASE n = m
      <3>1. /\ merge(state[m], s).increments[n] = Larger(state[m].increments[n], s.increments[n])
            /\ merge(state[m], s).decrements[n] = Larger(state[m].decrements[n], s.decrements[n])
        BY <1>1, MergeFacts
      <3>2. /\ state[n].increments[n] <= Larger(state[n].increments[n], s.increments[n])
            /\ state[n].decrements[n] <= Larger(state[n].decrements[n], s.decrements[n])
        BY <2>1, LargerFacts
      <3> QED
        BY <1>3, <2>2, <3>1, <3>2
    <2>3. CASE n # m
      BY <1>3, <2>1, <2>3
    <2> QED
      BY <2>2, <2>3
  <1>7. SentIsKnown'
    BY <1>1, <1>2, <1>4, <1>6, KnownStays DEF CounterInv, SentIsKnown
  <1>8. ASSUME NEW k \in Nodes, NEW n \in Nodes
        PROVE  NoMore(state[k], n)'
    <2>1. CASE k = m
      <3>1. merge(state[m], s) \in CounterStates
        BY <1>1, MergeFacts
      <3> DEFINE merged == merge(state[m], s)
      <3>2. NoMore(merged, n)
        BY <1>5
      <3>3. /\ merged.increments[n] <= state'[n].increments[n]
            /\ merged.decrements[n] <= state'[n].decrements[n]
        <4>1. state[n] \in CounterStates /\ state'[n] \in CounterStates
          BY <1>1, <1>4 DEF TypeOK
        <4>2. /\ merged.increments[n] \in Nat /\ merged.decrements[n] \in Nat
              /\ state[n].increments[n] \in Nat /\ state[n].decrements[n] \in Nat
              /\ state'[n].increments[n] \in Nat /\ state'[n].decrements[n] \in Nat
          BY <3>1, <4>1, NumbersAreNat
        <4> HIDE DEF merged
        <4> QED
          BY <3>2, <4>2, <1>6 DEF NoMore, OwnNumbersGrow
      <3> QED
        BY <1>3, <2>1, <3>3 DEF NoMore
    <2>2. CASE k # m
      <3>1. state[k] \in CounterStates /\ NoMore(state[k], n)
        BY <1>1 DEF CounterInv, NothingInvented
      <3>2. state'[k] = state[k]
        BY <1>3, <2>2
      <3>3. /\ state[k].increments[n] <= state'[n].increments[n]
            /\ state[k].decrements[n] <= state'[n].decrements[n]
        <4>1. state[n] \in CounterStates /\ state'[n] \in CounterStates
          BY <1>1, <1>4 DEF TypeOK
        <4>2. /\ state[k].increments[n] \in Nat /\ state[k].decrements[n] \in Nat
              /\ state[n].increments[n] \in Nat /\ state[n].decrements[n] \in Nat
              /\ state'[n].increments[n] \in Nat /\ state'[n].decrements[n] \in Nat
          BY <3>1, <4>1, NumbersAreNat
        <4> QED
          BY <3>1, <4>2, <1>6 DEF NoMore, OwnNumbersGrow
      <3> QED
        BY <3>2, <3>3 DEF NoMore
    <2> QED
      BY <2>1, <2>2
  <1>9. NothingInvented'
    BY <1>8 DEF NothingInvented
  <1> QED
    BY <1>4, <1>7, <1>9 DEF CounterInv

\* A node that has heard everything has, of every node, the node's own numbers.
LEMMA CounterInvIsEnough == CounterInv => CountsAgree
  <1> SUFFICES ASSUME CounterInv PROVE CountsAgree
    OBVIOUS
  <1>1. ASSUME NEW m \in Nodes, Informed(m)
        PROVE  getValue(state[m]) = Larger(0, Total(Added) - Total(Taken))
    <2>1. state[m] \in CounterStates /\ \A n \in Nodes : state[n] \in CounterStates
      BY DEF CounterInv, TypeOK
    <2>2. ASSUME NEW n \in Nodes
          PROVE  state[m].increments[n] = Added[n] /\ state[m].decrements[n] = Taken[n]
      <3>1. Added[n] = state[n].increments[n] /\ Taken[n] = state[n].decrements[n]
        BY DEF Added, Taken
      <3>2. /\ state[m].increments[n] \in Nat /\ state[m].decrements[n] \in Nat
            /\ state[n].increments[n] \in Nat /\ state[n].decrements[n] \in Nat
        BY <2>1, NumbersAreNat
      <3>3. NoMore(state[m], n)
        BY DEF CounterInv, NothingInvented
      <3> QED
        BY <1>1, <3>1, <3>2, <3>3 DEF Informed, NoMore
    <2>3. state[m].increments \in [Nodes -> Nat] /\ state[m].decrements \in [Nodes -> Nat]
      BY <2>1 DEF CounterStates, Counts
    <2>4. state[m].increments = Added /\ state[m].decrements = Taken
      BY <2>2, <2>3 DEF Added, Taken
    <2> QED
      BY <2>4 DEF getValue
  <1> QED
    BY <1>1 DEF CounterInv, CountsAgree, InformedAreRight

-----------------------------------------------------------------------------
\* Initially nobody has counted anything and nothing is on its way.
LEMMA CounterInit == Init => CounterInv
  <1> SUFFICES ASSUME Init PROVE CounterInv
    OBVIOUS
  <1>1. createStockCounter \in CounterStates
    BY DEF createStockCounter, CounterStates, Counts
  <1>2. state = [n \in Nodes |-> createStockCounter] /\ sent = {}
    BY DEF Init
  <1>3. TypeOK
    BY <1>1, <1>2 DEF TypeOK
  <1>4. NothingInvented
    BY <1>2 DEF NothingInvented, NoMore, createStockCounter
  <1> QED
    BY <1>2, <1>3, <1>4 DEF CounterInv, SentIsKnown

\* Every step preserves the invariant.
LEMMA CounterNext == CounterInv /\ [Next]_vars => CounterInv'
  <1> SUFFICES ASSUME CounterInv, [Next]_vars PROVE CounterInv'
    OBVIOUS
  <1>1. CASE Next
    <2>1. ASSUME NEW n \in Nodes, NEW amount \in Amounts, Increment(n, amount) \/ Decrement(n, amount)
          PROVE  CounterInv'
      BY <2>1, OperationKeeps
    <2>2. ASSUME NEW n \in Nodes, Send(n)
          PROVE  CounterInv'
      BY <2>2, SendKeeps
    <2>3. ASSUME NEW n \in Nodes, NEW s \in sent, Merge(n, s)
          PROVE  CounterInv'
      BY <2>3, MergeKeeps
    <2> QED
      BY <1>1, <2>1, <2>2, <2>3 DEF Next
  <1>2. CASE UNCHANGED vars
    <2>1. state' = state /\ sent' = sent
      BY <1>2 DEF vars
    <2> QED
      BY <2>1 DEF CounterInv, TypeOK, NothingInvented, SentIsKnown, NoMore
  <1> QED
    BY <1>1, <1>2

\* However states are merged, repeated or delayed, nothing is counted that no
\* node has counted, and a node that has heard everything tells the stock
\* (CRDTStockResolver.ts, merge and getValue).
THEOREM CountersAgree == Spec => []CountsAgree
  <1>1. Spec => []CounterInv
    BY CounterInit, CounterNext, PTL DEF Spec
  <1> QED
    BY <1>1, CounterInvIsEnough, PTL

-----------------------------------------------------------------------------
\* The registry of tenants.
RegistrySteps == {"idle", "lookup", "insert", "create", "migrate", "tables", "seed", "activate",
          "version", "drop", "mark", "done"}
CallRecords == [op : {"none", "provision", "deprovision"}, tenant : Tenants \cup {"none"}, pc : RegistrySteps]

RegistryTypes ==
    /\ registry \in [Tenants -> Statuses]
    /\ database \in [Tenants -> Stages]
    /\ call \in [Calls -> CallRecords]
    /\ halted \subseteq Calls
    /\ raced \subseteq Tenants
    /\ astray \subseteq Tenants

\* Only provisionings take the steps of a provisioning, and a call that has
\* begun has a tenant.
Begun ==
    \A c \in Calls :
        /\ call[c].pc # "idle" => call[c].tenant \in Tenants
        /\ call[c].pc \in {"insert", "create", "migrate", "tables", "seed", "activate", "version"}
               => call[c].op = "provision"

\* Of a tenant that is not raced one call is in work.
AloneInWork ==
    \A c, d \in InWork : call[c].tenant = call[d].tenant /\ call[c].tenant \notin raced => c = d

\* What it activates has been seeded.
SeededBefore ==
    \A c \in InWork :
        call[c].pc \in {"activate", "version"} /\ call[c].tenant \notin raced
            => database[call[c].tenant] = "seeded"

\* A tenant listed as being provisioned is in the hands of a provisioning, or
\* astray.
Provisioned ==
    \A t \in Tenants \ astray : registry[t] = "PROVISIONING" =>
        \E c \in Calls :
            /\ Works(c, t, {"create", "migrate", "tables", "seed", "activate", "drop", "mark"})
            /\ call[c].op = "provision"

RegistryInv == RegistryTypes /\ Begun /\ AloneInWork /\ SeededBefore /\ Provisioned /\ ActiveHasData

-----------------------------------------------------------------------------
\* What a step of a call that has begun does to the calls: it changes its pc.
LEMMA GoToFacts ==
    ASSUME RegistryTypes, NEW c \in Calls, NEW stage \in RegistrySteps, GoTo(c, stage)
    PROVE  /\ call' \in [Calls -> CallRecords]
           /\ call'[c].pc = stage /\ call'[c].tenant = call[c].tenant /\ call'[c].op = call[c].op
           /\ \A d \in Calls : d # c => call'[d] = call[d]
BY DEF RegistryTypes, CallRecords, GoTo

\* A step of a call in work makes no other call be in work, and so keeps calls apart.
LEMMA StaysAlone ==
    ASSUME RegistryInv, NEW c \in Calls \ halted, call[c].pc \notin {"idle", "done"},
           NEW stage \in RegistrySteps, GoTo(c, stage), UNCHANGED <<halted, raced>>
    PROVE  InWork' \subseteq InWork /\ AloneInWork'
  <1>1. /\ call'[c].tenant = call[c].tenant
        /\ \A d \in Calls : d # c => call'[d] = call[d]
    BY GoToFacts DEF RegistryInv
  <1>2. InWork' \subseteq InWork
    BY <1>1 DEF InWork
  <1>3. ASSUME NEW d \in InWork', NEW e \in InWork',
               call'[d].tenant = call'[e].tenant, call'[d].tenant \notin raced'
        PROVE  d = e
    <2>1. d \in InWork /\ e \in InWork /\ d \in Calls /\ e \in Calls
      BY <1>2 DEF InWork
    <2>2. call[d].tenant = call'[d].tenant /\ call[e].tenant = call'[e].tenant
      BY <1>1, <2>1
    <2> QED
      BY <1>3, <2>1, <2>2 DEF RegistryInv, AloneInWork
  <1> QED
    BY <1>2, <1>3 DEF AloneInWork

\* A step within a provisioning, which may build up the database: what is
\* seeded stays so, and it goes on to activate only what is seeded.
LEMMA Builds ==
    ASSUME RegistryInv, NEW c \in Calls \ halted, NEW stage \in RegistrySteps, NEW t \in Tenants, t = call[c].tenant,
           call[c].pc \in {"create", "migrate", "tables", "seed", "activate", "version"},
           GoTo(c, stage),
           call[c].pc = "version" => stage \in {"done", "drop"},
           call[c].pc # "version" =>
               stage \in {"migrate", "tables", "seed", "activate", "drop"},
           UNCHANGED <<registry, halted, raced, astray>>,
           database' \in [Tenants -> Stages],
           \A u \in Tenants : u # t => database'[u] = database[u],
           database[t] = "seeded" => database'[t] = "seeded",
           stage = "activate" => database'[t] = "seeded",
           call[c].pc = "version" /\ stage = "done" => UNCHANGED database
    PROVE  RegistryInv'
  <1>1. /\ call' \in [Calls -> CallRecords]
        /\ call'[c].pc = stage /\ call'[c].tenant = t /\ call'[c].op = call[c].op
        /\ \A d \in Calls : d # c => call'[d] = call[d]
    BY GoToFacts DEF RegistryInv
  <1>2. RegistryTypes'
    BY <1>1 DEF RegistryInv, RegistryTypes
  <1>3. c \in InWork /\ InWork' \subseteq InWork /\ AloneInWork'
    BY StaysAlone DEF InWork
  <1>4. Begun'
    BY <1>1 DEF RegistryInv, Begun
  <1>5. SeededBefore'
    <2> SUFFICES ASSUME NEW d \in InWork', call'[d].pc \in {"activate", "version"},
                        call'[d].tenant \notin raced
                 PROVE  database'[call'[d].tenant] = "seeded"
      BY DEF SeededBefore
    <2>1. d \in Calls /\ d \in InWork
      BY <1>3 DEF InWork
    <2>2. CASE d = c
      BY <1>1, <2>2
    <2>3. CASE d # c
      <3>1. call'[d] = call[d] /\ database[call[d].tenant] = "seeded" /\ call[d].tenant \in Tenants
        BY <1>1, <2>1, <2>3 DEF RegistryInv, SeededBefore, Begun
      <3> QED
        BY <3>1
    <2> QED
      BY <2>2, <2>3
  <1>6. Provisioned'
    <2> SUFFICES ASSUME NEW u \in Tenants \ astray, registry[u] = "PROVISIONING"
                 PROVE  \E d \in Calls :
                          /\ Works(d, u, {"create", "migrate", "tables", "seed", "activate", "drop", "mark"})'
                          /\ call'[d].op = "provision"
      BY DEF Provisioned
    <2>1. PICK d \in Calls :
            /\ Works(d, u, {"create", "migrate", "tables", "seed", "activate", "drop", "mark"})
            /\ call[d].op = "provision"
      BY DEF RegistryInv, Provisioned
    <2>2. Works(d, u, {"create", "migrate", "tables", "seed", "activate", "drop", "mark"})'
      BY <1>1, <2>1 DEF Works
    <2> QED
      BY <1>1, <2>1, <2>2
  <1>7. ActiveHasData'
    <2> SUFFICES ASSUME NEW u \in Tenants \ (raced \cup astray), registry[u] = "ACTIVE"
                 PROVE  database'[u] = "seeded" \/ \E d \in Calls : Works(d, u, {"mark"})'
      BY DEF ActiveHasData
    <2>1. CASE database[u] = "seeded"
      BY <2>1
    <2>2. CASE \E d \in Calls : Works(d, u, {"mark"})
      BY <1>1, <2>2 DEF Works
    <2> QED
      BY <2>1, <2>2 DEF RegistryInv, ActiveHasData
  <1> QED
    BY <1>2, <1>3, <1>4, <1>5, <1>6, <1>7 DEF RegistryInv

\* Listing a tenant, as being provisioned, active or gone: a call that lists it
\* as being provisioned is in the hands of a provisioning from then on, one that
\* lists it as active has seeded it.
LEMMA Lists ==
    ASSUME RegistryInv, NEW c \in Calls \ halted, NEW stage \in RegistrySteps, NEW t \in Tenants, t = call[c].tenant,
           call[c].pc \in {"insert", "activate", "mark"}, GoTo(c, stage),
           NEW listed \in Statuses, registry' = [registry EXCEPT ![t] = listed],
           UNCHANGED <<database, halted, raced>>, astray' = astray \ {t},
           <<call[c].pc, stage, listed>> \in {<<"insert", "create", "PROVISIONING">>,
               <<"activate", "version", "ACTIVE">>, <<"mark", "done", "DEPROVISIONED">>}
    PROVE  RegistryInv'
  <1>1. /\ call' \in [Calls -> CallRecords]
        /\ call'[c].pc = stage /\ call'[c].tenant = t /\ call'[c].op = call[c].op
        /\ \A d \in Calls : d # c => call'[d] = call[d]
    BY GoToFacts DEF RegistryInv
  <1>2. /\ registry'[t] = listed
        /\ \A u \in Tenants : u # t => registry'[u] = registry[u]
    BY DEF RegistryInv, RegistryTypes
  <1>3. RegistryTypes'
    BY <1>1 DEF RegistryInv, RegistryTypes
  <1>4. c \in InWork /\ InWork' \subseteq InWork /\ AloneInWork'
    BY StaysAlone DEF InWork
  <1>5. Begun'
    BY <1>1 DEF RegistryInv, Begun
  <1>6. SeededBefore'
    <2> SUFFICES ASSUME NEW d \in InWork', call'[d].pc \in {"activate", "version"},
                        call'[d].tenant \notin raced
                 PROVE  database[call'[d].tenant] = "seeded"
      BY DEF SeededBefore
    <2>1. d \in Calls /\ d \in InWork
      BY <1>4 DEF InWork
    <2>2. CASE d = c
      BY <1>1, <1>4, <2>2 DEF RegistryInv, SeededBefore
    <2>3. CASE d # c
      BY <1>1, <2>1, <2>3 DEF RegistryInv, SeededBefore
    <2> QED
      BY <2>2, <2>3
  <1>7. Provisioned'
    <2> SUFFICES ASSUME NEW u \in Tenants \ astray', registry'[u] = "PROVISIONING"
                 PROVE  \E d \in Calls :
                          /\ Works(d, u, {"create", "migrate", "tables", "seed", "activate", "drop", "mark"})'
                          /\ call'[d].op = "provision"
      BY DEF Provisioned
    <2>1. CASE u = t
      <3>1. call[c].pc = "insert" /\ stage = "create"
        BY <1>2, <2>1
      <3>2. call'[c].op = "provision"
        BY <1>1, <3>1 DEF RegistryInv, Begun
      <3> QED
        BY <1>1, <2>1, <3>1, <3>2 DEF Works
    <2>2. CASE u # t
      <3>1. PICK d \in Calls :
              /\ Works(d, u, {"create", "migrate", "tables", "seed", "activate", "drop", "mark"})
              /\ call[d].op = "provision"
        BY <1>2, <2>2 DEF RegistryInv, Provisioned
      <3>2. d # c
        BY <2>2, <3>1 DEF Works
      <3> QED
        BY <1>1, <3>1, <3>2 DEF Works
    <2> QED
      BY <2>1, <2>2
  <1>8. ActiveHasData'
    <2> SUFFICES ASSUME NEW u \in Tenants \ (raced \cup astray'), registry'[u] = "ACTIVE"
                 PROVE  database[u] = "seeded" \/ \E d \in Calls : Works(d, u, {"mark"})'
      BY DEF ActiveHasData
    <2>1. CASE u = t
      <3>1. call[c].pc = "activate"
        BY <1>2, <2>1
      <3> QED
        BY <1>4, <2>1, <3>1 DEF RegistryInv, SeededBefore
    <2>2. CASE u # t /\ database[u] = "seeded"
      BY <2>2
    <2>3. CASE u # t /\ database[u] # "seeded"
      <3>1. PICK d \in Calls : Works(d, u, {"mark"})
        BY <1>2, <2>3 DEF RegistryInv, ActiveHasData
      <3>2. d # c
        BY <2>3, <3>1 DEF Works
      <3> QED
        BY <1>1, <3>1, <3>2 DEF Works
    <2> QED
      BY <2>1, <2>2, <2>3
  <1> QED
    BY <1>3, <1>4, <1>5, <1>6, <1>7, <1>8 DEF RegistryInv

\* Dropping a database, or failing to: the call goes on to mark the tenant, if
\* the database is gone or the call was a provisioning.
LEMMA Drops ==
    ASSUME RegistryInv, NEW c \in Calls \ halted, NEW t \in Tenants, t = call[c].tenant,
           call[c].pc = "drop", DropDatabase(c) \/ DropFails(c)
    PROVE  RegistryInv'
  <1>1. PICK s \in {"mark", "done"} :
          /\ GoTo(c, s) /\ UNCHANGED <<registry, halted, raced, astray>>
          /\ s = "done" => call[c].op # "provision"
          /\ database' # database => s = "mark"
          /\ database' \in [Tenants -> Stages]
          /\ \A u \in Tenants : u # t => database'[u] = database[u]
    BY DEF DropDatabase, DropFails, RegistryInv, RegistryTypes, Stages
  <1>2. /\ call' \in [Calls -> CallRecords]
        /\ call'[c].pc = s /\ call'[c].tenant = t /\ call'[c].op = call[c].op
        /\ \A d \in Calls : d # c => call'[d] = call[d]
    BY <1>1, GoToFacts DEF RegistryInv, RegistrySteps
  <1>3. RegistryTypes'
    BY <1>1, <1>2 DEF RegistryInv, RegistryTypes
  <1>4. c \in InWork /\ InWork' \subseteq InWork /\ AloneInWork'
    BY <1>1, StaysAlone DEF InWork, RegistrySteps
  <1>5. Begun'
    BY <1>2 DEF RegistryInv, Begun
  <1>6. SeededBefore'
    <2> SUFFICES ASSUME NEW d \in InWork', call'[d].pc \in {"activate", "version"},
                        call'[d].tenant \notin raced'
                 PROVE  database'[call'[d].tenant] = "seeded"
      BY DEF SeededBefore
    <2>1. d \in Calls /\ d \in InWork /\ d # c
      BY <1>2, <1>4 DEF InWork
    <2>2. call'[d] = call[d] /\ call[d].tenant \in Tenants /\ call[d].tenant \notin raced
      BY <1>1, <1>2, <2>1 DEF RegistryInv, Begun
    <2>3. call[d].tenant # t
      BY <1>4, <2>1, <2>2 DEF RegistryInv, AloneInWork
    <2> QED
      BY <1>1, <2>1, <2>2, <2>3 DEF RegistryInv, SeededBefore
  <1>7. Provisioned'
    <2> SUFFICES ASSUME NEW u \in Tenants \ astray, registry[u] = "PROVISIONING"
                 PROVE  \E d \in Calls :
                          /\ Works(d, u, {"create", "migrate", "tables", "seed", "activate", "drop", "mark"})'
                          /\ call'[d].op = "provision"
      BY <1>1 DEF Provisioned
    <2>1. PICK d \in Calls :
            /\ Works(d, u, {"create", "migrate", "tables", "seed", "activate", "drop", "mark"})
            /\ call[d].op = "provision"
      BY DEF RegistryInv, Provisioned
    <2>2. Works(d, u, {"create", "migrate", "tables", "seed", "activate", "drop", "mark"})'
      BY <1>1, <1>2, <2>1 DEF Works
    <2> QED
      BY <1>2, <2>1, <2>2
  <1>8. ActiveHasData'
    <2> SUFFICES ASSUME NEW u \in Tenants \ (raced \cup astray), registry[u] = "ACTIVE"
                 PROVE  database'[u] = "seeded" \/ \E d \in Calls : Works(d, u, {"mark"})'
      BY <1>1 DEF ActiveHasData
    <2>1. CASE database[u] = "seeded" /\ database'[u] = "seeded"
      BY <2>1
    <2>2. CASE database[u] = "seeded" /\ database'[u] # "seeded"
      <3>1. u = t /\ s = "mark"
        BY <1>1, <2>2
      <3> QED
        BY <1>2, <3>1 DEF Works
    <2>3. CASE database[u] # "seeded"
      <3>1. PICK d \in Calls : Works(d, u, {"mark"})
        BY <2>3 DEF RegistryInv, ActiveHasData
      <3>2. d # c
        BY <3>1 DEF Works
      <3> QED
        BY <1>2, <3>1, <3>2 DEF Works
    <2> QED
      BY <2>1, <2>2, <2>3
  <1> QED
    BY <1>3, <1>4, <1>5, <1>6, <1>7, <1>8 DEF RegistryInv

\* A call that throws where it should have written the row, or learnt that it
\* had: its tenant is astray, and nothing is said of it but its type.
LEMMA Strays ==
    ASSUME RegistryInv, NEW c \in Calls \ halted, NEW t \in Tenants, t = call[c].tenant,
           call[c].pc \in {"insert", "drop", "mark"}, GoTo(c, "done"),
           astray' = astray \cup {t}, UNCHANGED <<halted, raced>>,
           registry' \in [Tenants -> Statuses], database' \in [Tenants -> Stages],
           \A u \in Tenants : u # t => registry'[u] = registry[u] /\ database'[u] = database[u]
    PROVE  RegistryInv'
  <1>1. /\ call' \in [Calls -> CallRecords]
        /\ call'[c].pc = "done" /\ call'[c].tenant = t /\ call'[c].op = call[c].op
        /\ \A d \in Calls : d # c => call'[d] = call[d]
    BY GoToFacts DEF RegistryInv, RegistrySteps
  <1>2. RegistryTypes'
    BY <1>1 DEF RegistryInv, RegistryTypes
  <1>3. c \in InWork /\ InWork' \subseteq InWork /\ AloneInWork'
    BY StaysAlone DEF InWork, RegistrySteps
  <1>4. Begun'
    BY <1>1 DEF RegistryInv, Begun
  <1>5. SeededBefore'
    <2> SUFFICES ASSUME NEW d \in InWork', call'[d].pc \in {"activate", "version"},
                        call'[d].tenant \notin raced'
                 PROVE  database'[call'[d].tenant] = "seeded"
      BY DEF SeededBefore
    <2>1. d \in Calls /\ d \in InWork /\ d # c
      BY <1>1, <1>3 DEF InWork
    <2>2. call'[d] = call[d] /\ call[d].tenant \in Tenants /\ call[d].tenant \notin raced
      BY <1>1, <2>1 DEF RegistryInv, Begun
    <2>3. call[d].tenant # t
      BY <1>3, <2>1, <2>2 DEF RegistryInv, AloneInWork
    <2> QED
      BY <2>1, <2>2, <2>3 DEF RegistryInv, SeededBefore
  <1>6. Provisioned'
    <2> SUFFICES ASSUME NEW u \in Tenants \ astray', registry'[u] = "PROVISIONING"
                 PROVE  \E d \in Calls :
                          /\ Works(d, u, {"create", "migrate", "tables", "seed", "activate", "drop", "mark"})'
                          /\ call'[d].op = "provision"
      BY DEF Provisioned
    <2>1. u # t /\ u \notin astray /\ registry[u] = "PROVISIONING"
      OBVIOUS
    <2>2. PICK d \in Calls :
            /\ Works(d, u, {"create", "migrate", "tables", "seed", "activate", "drop", "mark"})
            /\ call[d].op = "provision"
      BY <2>1 DEF RegistryInv, Provisioned
    <2>3. d # c
      BY <2>1, <2>2 DEF Works
    <2> QED
      BY <1>1, <2>2, <2>3 DEF Works
  <1>7. ActiveHasData'
    <2> SUFFICES ASSUME NEW u \in Tenants \ (raced \cup astray'), registry'[u] = "ACTIVE"
                 PROVE  database'[u] = "seeded" \/ \E d \in Calls : Works(d, u, {"mark"})'
      BY DEF ActiveHasData
    <2>1. u # t /\ registry[u] = "ACTIVE" /\ database'[u] = database[u]
      OBVIOUS
    <2>2. database[u] = "seeded" \/ \E d \in Calls : Works(d, u, {"mark"})
      BY <2>1 DEF RegistryInv, ActiveHasData
    <2>3. ASSUME NEW d \in Calls, Works(d, u, {"mark"}) PROVE Works(d, u, {"mark"})'
      BY <1>1, <2>1, <2>3 DEF Works
    <2> QED
      BY <2>1, <2>2, <2>3
  <1> QED
    BY <1>2, <1>3, <1>4, <1>5, <1>6, <1>7 DEF RegistryInv

\* Looking the tenant up, or failing to list it, changes nothing but the step
\* the call is at.
LEMMA Looks ==
    ASSUME RegistryInv, NEW c \in Calls \ halted, call[c].pc \in {"lookup", "insert"},
           NEW s \in {"insert", "done", "drop"}, GoTo(c, s),
           s = "insert" => call[c].op = "provision",
           UNCHANGED <<registry, database, halted, raced, astray>>
    PROVE  RegistryInv'
  <1>1. GoTo(c, s) /\ (s = "insert" => call[c].op = "provision")
    OBVIOUS
  <1>2. /\ call[c].pc \in {"lookup", "insert"}
        /\ UNCHANGED <<registry, database, halted, raced, astray>>
    OBVIOUS
  <1>3. /\ call' \in [Calls -> CallRecords]
        /\ call'[c].pc = s /\ call'[c].tenant = call[c].tenant /\ call'[c].op = call[c].op
        /\ \A d \in Calls : d # c => call'[d] = call[d]
    BY <1>1, GoToFacts DEF RegistryInv, RegistrySteps
  <1>4. RegistryTypes'
    BY <1>2, <1>3 DEF RegistryInv, RegistryTypes
  <1>5. InWork' \subseteq InWork /\ AloneInWork'
    BY <1>1, <1>2, StaysAlone DEF RegistrySteps
  <1>6. Begun'
    BY <1>1, <1>2, <1>3 DEF RegistryInv, Begun
  <1>7. SeededBefore'
    <2> SUFFICES ASSUME NEW d \in InWork', call'[d].pc \in {"activate", "version"},
                        call'[d].tenant \notin raced
                 PROVE  database[call'[d].tenant] = "seeded"
      BY <1>2 DEF SeededBefore
    <2>1. d \in Calls /\ d \in InWork /\ d # c
      BY <1>1, <1>3, <1>5 DEF InWork
    <2> QED
      BY <1>3, <2>1 DEF RegistryInv, SeededBefore
  <1>8. Provisioned'
    BY <1>2, <1>3 DEF RegistryInv, Provisioned, Works
  <1>9. ActiveHasData'
    BY <1>2, <1>3 DEF RegistryInv, ActiveHasData, Works
  <1> QED
    BY <1>4, <1>5, <1>6, <1>7, <1>8, <1>9 DEF RegistryInv

\* A call that starts beside another on its tenant makes the tenant raced.
LEMMA Starts ==
    ASSUME RegistryInv, NEW c \in Calls \ halted, NEW op \in {"provision", "deprovision"},
           NEW t \in Tenants, Start(c, op, t)
    PROVE  RegistryInv'
  <1>1. /\ call[c].pc = "idle" /\ UNCHANGED <<registry, database, halted, astray>>
        /\ raced \subseteq raced' /\ raced' \subseteq raced \cup {t}
        /\ t \notin raced' => \A d \in InWork : call[d].tenant # t
    BY DEF Start
  <1>2. /\ call' \in [Calls -> CallRecords]
        /\ call'[c] = [op |-> op, tenant |-> t, pc |-> "lookup"]
        /\ \A d \in Calls : d # c => call'[d] = call[d]
    BY DEF Start, RegistryInv, RegistryTypes, CallRecords, RegistrySteps
  <1>3. RegistryTypes'
    BY <1>1, <1>2 DEF RegistryInv, RegistryTypes
  <1>4. InWork' \subseteq InWork \cup {c}
    BY <1>1, <1>2 DEF InWork
  <1>5. AloneInWork'
    <2> SUFFICES ASSUME NEW d \in InWork', NEW e \in InWork',
                        call'[d].tenant = call'[e].tenant, call'[d].tenant \notin raced'
                 PROVE  d = e
      BY DEF AloneInWork
    <2>1. d \in Calls /\ e \in Calls
      BY DEF InWork
    <2>2. CASE d # c /\ e # c
      BY <1>1, <1>2, <1>4, <2>1, <2>2 DEF RegistryInv, AloneInWork
    <2>3. CASE d = c \/ e = c
      BY <1>1, <1>2, <1>4, <2>1, <2>3
    <2> QED
      BY <2>2, <2>3
  <1>6. Begun'
    BY <1>2 DEF RegistryInv, Begun
  <1>7. SeededBefore'
    <2> SUFFICES ASSUME NEW d \in InWork', call'[d].pc \in {"activate", "version"},
                        call'[d].tenant \notin raced'
                 PROVE  database[call'[d].tenant] = "seeded"
      BY <1>1 DEF SeededBefore
    <2>1. d \in Calls /\ d \in InWork /\ d # c
      BY <1>2, <1>4 DEF InWork
    <2> QED
      BY <1>1, <1>2, <2>1 DEF RegistryInv, SeededBefore
  <1>8. Provisioned'
    BY <1>1, <1>2 DEF RegistryInv, Provisioned, Works
  <1>9. ActiveHasData'
    BY <1>1, <1>2 DEF RegistryInv, ActiveHasData, Works
  <1> QED
    BY <1>3, <1>5, <1>6, <1>7, <1>8, <1>9 DEF RegistryInv

\* A call whose process stops stays where it is.
LEMMA Halts ==
    ASSUME RegistryInv, NEW c \in Calls \ halted, Halt(c)
    PROVE  RegistryInv'
  <1>1. UNCHANGED <<registry, database, call, raced, astray>> /\ halted' = halted \cup {c}
    BY DEF Halt
  <1>2. InWork' \subseteq InWork
    BY <1>1 DEF InWork
  <1>3. RegistryTypes' /\ Begun'
    BY <1>1 DEF RegistryInv, RegistryTypes, Begun
  <1>4. AloneInWork' /\ SeededBefore'
    BY <1>1, <1>2 DEF RegistryInv, AloneInWork, SeededBefore
  <1>5. Provisioned' /\ ActiveHasData'
    BY <1>1 DEF RegistryInv, Provisioned, ActiveHasData, Works
  <1> QED
    BY <1>3, <1>4, <1>5 DEF RegistryInv

-----------------------------------------------------------------------------
\* Initially there are no tenants and no calls.
LEMMA RegistryStarts == RegistryInit => RegistryInv
  <1> SUFFICES ASSUME RegistryInit PROVE RegistryInv
    OBVIOUS
  <1>1. /\ registry = [t \in Tenants |-> "NONE"] /\ database = [t \in Tenants |-> "none"]
        /\ call = [c \in Calls |-> Idle] /\ halted = {} /\ raced = {} /\ astray = {}
    BY DEF RegistryInit
  <1>2. Idle \in CallRecords /\ Idle.pc = "idle"
    BY DEF Idle, CallRecords, RegistrySteps
  <1>3. RegistryTypes
    BY <1>1, <1>2 DEF RegistryTypes, Statuses, Stages
  <1>4. InWork = {} /\ Begun
    BY <1>1, <1>2 DEF InWork, Begun
  <1>5. Provisioned /\ ActiveHasData
    BY <1>1 DEF Provisioned, ActiveHasData
  <1> QED
    BY <1>3, <1>4, <1>5 DEF RegistryInv, AloneInWork, SeededBefore

\* Every step of a call preserves the invariant.
LEMMA RegistryStep ==
    ASSUME RegistryInv, NEW c \in Calls \ halted, Step(c)
    PROVE  RegistryInv'
  <1> DEFINE t == call[c].tenant
  <1>0. /\ database \in [Tenants -> Stages] /\ registry \in [Tenants -> Statuses]
        /\ call[c].pc # "idle" => t \in Tenants
    BY DEF RegistryInv, RegistryTypes, Begun
  <1>1. ASSUME NEW u \in Tenants, Start(c, "provision", u) \/ Start(c, "deprovision", u)
        PROVE  RegistryInv'
    BY <1>1, Starts
  <1>2. CASE Lookup(c)
    <2>1. PICK s \in {"insert", "done", "drop"} :
            GoTo(c, s) /\ (s = "insert" => call[c].op = "provision")
      BY <1>2 DEF Lookup
    <2>2. call[c].pc = "lookup" /\ UNCHANGED <<registry, database, halted, raced, astray>>
      BY <1>2 DEF Lookup
    <2> QED
      BY <2>1, <2>2, Looks
  <1>3. CASE Insert(c)
    <2>1. /\ call[c].pc = "insert" /\ GoTo(c, "create") /\ UNCHANGED <<database, halted, raced>>
          /\ registry' = [registry EXCEPT ![t] = "PROVISIONING"]
          /\ astray' = astray \ {t}
      BY <1>3 DEF Insert, UpdateStatus, Write
    <2> QED
      BY <1>0, <2>1, Lists DEF RegistrySteps, Statuses
  <1>4. CASE CreateDatabase(c)
    <2>1. /\ call[c].pc = "create" /\ GoTo(c, "migrate") /\ UNCHANGED <<registry, halted, raced, astray>>
          /\ database' = [database EXCEPT ![t] = IF @ = "none" THEN "empty" ELSE @]
      BY <1>4 DEF CreateDatabase
    <2>2. /\ database' \in [Tenants -> Stages] /\ \A u \in Tenants : u # t => database'[u] = database[u]
          /\ database[t] = "seeded" => database'[t] = "seeded"
      BY <1>0, <2>1 DEF Stages
    <2> QED
      BY <1>0, <2>1, <2>2, Builds DEF RegistrySteps
  <1>5. CASE CreateTables(c)
    <2>1. /\ call[c].pc = "migrate" /\ GoTo(c, "tables") /\ UNCHANGED <<registry, halted, raced, astray>>
          /\ database' = [database EXCEPT ![t] = IF @ = "empty" THEN "begun" ELSE @]
      BY <1>5 DEF CreateTables
    <2>2. /\ database' \in [Tenants -> Stages] /\ \A u \in Tenants : u # t => database'[u] = database[u]
          /\ database[t] = "seeded" => database'[t] = "seeded"
      BY <1>0, <2>1 DEF Stages
    <2> QED
      BY <1>0, <2>1, <2>2, Builds DEF RegistrySteps
  <1>6. CASE RunMigrations(c)
    <2>1. /\ call[c].pc = "tables" /\ GoTo(c, "seed") /\ UNCHANGED <<registry, halted, raced, astray>>
          /\ database' = [database EXCEPT ![t] = IF @ = "begun" THEN "migrated" ELSE @]
      BY <1>6 DEF RunMigrations
    <2>2. /\ database' \in [Tenants -> Stages] /\ \A u \in Tenants : u # t => database'[u] = database[u]
          /\ database[t] = "seeded" => database'[t] = "seeded"
      BY <1>0, <2>1 DEF Stages
    <2> QED
      BY <1>0, <2>1, <2>2, Builds DEF RegistrySteps
  <1>7. CASE SeedDefaults(c)
    <2>1. /\ call[c].pc = "seed" /\ GoTo(c, "activate") /\ UNCHANGED <<registry, halted, raced, astray>>
          /\ database' = [database EXCEPT ![t] = "seeded"]
      BY <1>7 DEF SeedDefaults
    <2>2. /\ database' \in [Tenants -> Stages] /\ \A u \in Tenants : u # t => database'[u] = database[u]
          /\ database'[t] = "seeded"
      BY <1>0, <2>1 DEF Stages
    <2> QED
      BY <1>0, <2>1, <2>2, Builds DEF RegistrySteps
  <1>8. CASE Activate(c)
    <2>1. /\ call[c].pc = "activate" /\ GoTo(c, "version") /\ UNCHANGED <<database, halted, raced>>
          /\ registry' = [registry EXCEPT ![t] = "ACTIVE"]
          /\ astray' = astray \ {t}
      BY <1>8 DEF Activate, UpdateStatus, Write
    <2> QED
      BY <1>0, <2>1, Lists DEF RegistrySteps, Statuses
  <1>9. CASE UpdateMigratedVersion(c)
    <2>1. /\ call[c].pc = "version" /\ GoTo(c, "done")
          /\ UNCHANGED <<registry, database, halted, raced, astray>>
      BY <1>9 DEF UpdateMigratedVersion
    <2> QED
      BY <1>0, <2>1, Builds DEF RegistrySteps
  <1>10. CASE Fail(c)
    <2>1. /\ call[c].pc \in {"create", "migrate", "tables", "seed", "activate", "version"}
          /\ GoTo(c, "drop") /\ UNCHANGED <<registry, database, halted, raced, astray>>
      BY <1>10 DEF Fail
    <2> QED
      BY <1>0, <2>1, Builds DEF RegistrySteps
  <1>11. CASE DropDatabase(c) \/ DropFails(c)
    <2>1. call[c].pc = "drop"
      BY <1>11 DEF DropDatabase, DropFails
    <2> QED
      BY <1>0, <1>11, <2>1, Drops
  <1>12. CASE MarkDeprovisioned(c)
    <2>1. /\ call[c].pc = "mark" /\ GoTo(c, "done") /\ UNCHANGED <<database, halted, raced>>
          /\ registry' = [registry EXCEPT ![t] = "DEPROVISIONED"]
          /\ astray' = astray \ {t}
      BY <1>12 DEF MarkDeprovisioned, UpdateStatus, Write
    <2> QED
      BY <1>0, <2>1, Lists DEF RegistrySteps, Statuses
  <1>13. CASE Halt(c)
    BY <1>13, Halts
  <1>14. CASE InsertFails(c)
    <2>1. call[c].pc = "insert" /\ GoTo(c, "done") /\ UNCHANGED <<database, halted, raced>>
      BY <1>14 DEF InsertFails
    <2>2. CASE UNCHANGED <<registry, astray>>
      BY <2>1, <2>2, Looks
    <2>3. CASE registry' = [registry EXCEPT ![t] = "PROVISIONING"] /\ astray' = astray \cup {t}
      <3>1. /\ registry' \in [Tenants -> Statuses]
            /\ \A u \in Tenants : u # t => registry'[u] = registry[u]
        BY <1>0, <2>3 DEF Statuses
      <3> QED
        BY <1>0, <2>1, <2>3, <3>1, Strays
    <2> QED
      BY <1>14, <2>2, <2>3 DEF InsertFails, Write, Fails
  <1>15. CASE DropUnanswered(c)
    <2>1. /\ call[c].pc = "drop" /\ GoTo(c, "done") /\ UNCHANGED <<registry, halted, raced>>
          /\ database' = [database EXCEPT ![t] = "none"]
          /\ astray' = astray \cup {t}
      BY <1>15 DEF DropUnanswered, Fails
    <2>2. /\ database' \in [Tenants -> Stages]
          /\ \A u \in Tenants : u # t => database'[u] = database[u]
      BY <1>0, <2>1 DEF Stages
    <2> QED
      BY <1>0, <2>1, <2>2, Strays
  <1>16. CASE MarkFails(c)
    <2>1. /\ call[c].pc = "mark" /\ GoTo(c, "done")
          /\ UNCHANGED <<registry, database, halted, raced>>
          /\ astray' = astray \cup {t}
      BY <1>16 DEF MarkFails, Fails
    <2> QED
      BY <1>0, <2>1, Strays
  <1> QED
    BY <1>1, <1>2, <1>3, <1>4, <1>5, <1>6, <1>7, <1>8, <1>9, <1>10, <1>11, <1>12, <1>13, <1>14, <1>15, <1>16 DEF Step

LEMMA RegistryGoesOn == RegistryInv /\ [RegistryNext]_registryVars => RegistryInv'
  <1> SUFFICES ASSUME RegistryInv, [RegistryNext]_registryVars PROVE RegistryInv'
    OBVIOUS
  <1>1. CASE RegistryNext
    BY <1>1, RegistryStep DEF RegistryNext
  <1>2. CASE UNCHANGED registryVars
    <2>1. UNCHANGED <<registry, database, call, halted, raced, astray>>
      BY <1>2 DEF registryVars
    <2>2. RegistryTypes' /\ Begun' /\ InWork' = InWork
      BY <2>1 DEF RegistryInv, RegistryTypes, Begun, InWork
    <2>3. Provisioned' /\ ActiveHasData'
      BY <2>1 DEF RegistryInv, Provisioned, ActiveHasData, Works
    <2> QED
      BY <2>1, <2>2, <2>3 DEF RegistryInv, AloneInWork, SeededBefore
  <1> QED
    BY <1>1, <1>2

\* Whatever fails, stops or overlaps, a tenant that reads as being provisioned is
\* in the hands of a call, and one that reads active has its data unless a call
\* that dropped them has yet to say so or calls were on it at once; or a call
\* ended with an error where it should have written the tenant's row, and none
\* has written it since (TenantProvisioner.ts, provisionTenant at 31 and 60,
\* deprovisionTenant at 86 and 88).
THEOREM RegistryIsTruthful == RegistrySpec => []RegistryTruthful
  <1>1. RegistrySpec => []RegistryInv
    BY RegistryStarts, RegistryGoesOn, PTL DEF RegistrySpec
  <1>2. RegistryInv => RegistryTruthful
    BY DEF RegistryInv, RegistryTruthful, Provisioned, ProvisioningIsInWork
  <1> QED
    BY <1>1, <1>2, PTL
-----------------------------------------------------------------------------
(***************************************************************************)
(* Opening balances.  While a call is about to append them, the variants   *)
(* of its onboarding have no entries, unless late says so; and what a call *)
(* has loaded is what the table says, unless two had it at once.           *)
(***************************************************************************)
CONSTANTS Onboardings, Variants, OpeningCalls, MaxEntries
VARIABLES onboarding, ledger, openingCall, late, overlapped

O == INSTANCE Onboarding WITH Calls <- OpeningCalls, call <- openingCall

Row == [status : {"absent", "draft", "submitted"}, items : [Variants -> O!Quantities]]

OpeningTypes ==
    /\ onboarding \in [Onboardings -> Row]
    /\ ledger \in [Variants -> Seq(Onboardings \cup {"other"})]
    /\ openingCall \in [OpeningCalls -> [pc : {"idle", "loaded", "check", "post"},
                                         of : Onboardings \cup {"none"}, copy : Row]]
    /\ \A c \in OpeningCalls : openingCall[c].pc # "idle" => openingCall[c].of \in Onboardings

\* A call that has passed the check still finds no entries.
Untouched ==
    \A c \in OpeningCalls : openingCall[c].pc = "post" =>
        \A v \in O!ItemsOf(openingCall[c].copy) \ late : ledger[v] = <<>>

\* What a call has in hand of an onboarding that no other has in hand.
Faithful(c) ==
    LET row == onboarding[openingCall[c].of]
        copy == openingCall[c].copy
    IN  /\ openingCall[c].pc = "loaded" => copy = row /\ row.status # "absent"
        /\ openingCall[c].pc \in {"check", "post"} =>
               /\ copy.status = "draft" /\ row = [copy EXCEPT !.status = "submitted"]
               /\ O!Opened(openingCall[c].of) = {}

Exclusive ==
    \A c \in OpeningCalls : openingCall[c].pc # "idle" /\ openingCall[c].of \notin overlapped =>
        /\ Faithful(c)
        /\ \A d \in OpeningCalls :
               openingCall[d].pc # "idle" /\ openingCall[d].of = openingCall[c].of => c = d

OpeningInv ==
    /\ OpeningTypes
    /\ O!OpeningIsFirst /\ Untouched
    /\ O!PostedIsLocked /\ Exclusive

\* What is in a sequence once something is appended.
LEMMA AppendHas ==
    ASSUME NEW S, NEW s \in Seq(S), NEW e \in S
    PROVE  /\ Append(s, e) \in Seq(S)
           /\ Append(s, e) # <<>>
           /\ \A x : (\E i \in DOMAIN Append(s, e) : Append(s, e)[i] = x)
                       <=> (\E i \in DOMAIN s : s[i] = x) \/ x = e
           /\ \A i \in DOMAIN Append(s, e) :
                  \/ i \in DOMAIN s /\ Append(s, e)[i] = s[i]
                  \/ i = Len(s) + 1 /\ Append(s, e)[i] = e
           /\ s = <<>> => \A i \in DOMAIN Append(s, e) : i = 1
  <1>1. /\ Append(s, e) \in Seq(S) /\ DOMAIN s = 1..Len(s) /\ Len(s) \in Nat
        /\ DOMAIN Append(s, e) = 1..(Len(s) + 1)
        /\ \A i \in 1..Len(s) : Append(s, e)[i] = s[i]
        /\ Append(s, e)[Len(s) + 1] = e
    OBVIOUS
  <1>2. \A i \in 1..(Len(s) + 1) : i \in 1..Len(s) \/ i = Len(s) + 1
    BY <1>1
  <1>3. 1..Len(s) \subseteq 1..(Len(s) + 1) /\ Len(s) + 1 \in 1..(Len(s) + 1)
    BY <1>1
  <1>4. ASSUME NEW x
        PROVE  (\E i \in DOMAIN Append(s, e) : Append(s, e)[i] = x)
                  <=> (\E i \in DOMAIN s : s[i] = x) \/ x = e
    BY <1>1, <1>2, <1>3
  <1>5. Append(s, e) # <<>>
    BY <1>1, <1>3
  <1>6. s = <<>> => \A i \in DOMAIN Append(s, e) : i = 1
    BY <1>1
  <1>7. ASSUME NEW i \in DOMAIN Append(s, e)
        PROVE  \/ i \in DOMAIN s /\ Append(s, e)[i] = s[i]
               \/ i = Len(s) + 1 /\ Append(s, e)[i] = e
    BY <1>1, <1>2
  <1>8. Append(s, e) \in Seq(S)
    OBVIOUS
  <1> QED
    BY <1>4, <1>5, <1>6, <1>7, <1>8

LEMMA OpeningStarts == O!Init => OpeningInv
  <1> SUFFICES ASSUME O!Init PROVE OpeningInv
    OBVIOUS
  <1>1. OpeningTypes
    BY DEF O!Init, OpeningTypes, Row, O!Absent, O!NoItems, O!Quantities, O!Idle
  <1>2. /\ \A c \in OpeningCalls : openingCall[c].pc = "idle"
        /\ \A v \in Variants : DOMAIN ledger[v] = {}
    BY DEF O!Init, O!Idle
  <1>3. \A o : O!Opened(o) = {}
    BY <1>2 DEF O!Opened
  <1> QED
    BY <1>1, <1>2, <1>3
    DEF OpeningInv, Untouched, Exclusive, O!OpeningIsFirst, O!PostedIsLocked

\* What an onboarding has opened can be told from the entries.
LEMMA OpenedSame == ledger' = ledger => \A o : O!Opened(o)' = O!Opened(o)
  BY DEF O!Opened

LEMMA OpeningTypesKept ==
    ASSUME "other" \notin Onboardings, OpeningTypes, [O!Next]_(O!vars)
    PROVE  OpeningTypes'
  <1>1. ASSUME NEW o \in Onboardings, O!Create(o) PROVE OpeningTypes'
    BY <1>1 DEF OpeningTypes, O!Create, O!Save, O!Absent, O!NoItems, Row, O!Quantities
  <1>2. ASSUME NEW v \in Variants, O!OtherEntry(v) PROVE OpeningTypes'
    <2>1. /\ ledger' = [ledger EXCEPT ![v] = Append(@, "other")]
          /\ UNCHANGED <<onboarding, openingCall>>
      BY <1>2 DEF O!OtherEntry
    <2>2. Append(ledger[v], "other") \in Seq(Onboardings \cup {"other"})
      BY AppendHas DEF OpeningTypes
    <2> QED
      BY <2>1, <2>2 DEF OpeningTypes
  <1>3. ASSUME NEW c \in OpeningCalls, NEW o \in Onboardings, O!FindById(c, o)
        PROVE  OpeningTypes'
    BY <1>3 DEF OpeningTypes, O!FindById
  <1>4. ASSUME NEW c \in OpeningCalls, NEW items \in [Variants -> O!Quantities],
               O!SaveItems(c, items)
        PROVE  OpeningTypes'
    <2> DEFINE copy == openingCall[c].copy
    <2> DEFINE row == [copy EXCEPT !.items =
                         [v \in Variants |-> IF items[v] = "none" THEN @[v] ELSE items[v]]]
    <2>1. /\ onboarding' = [onboarding EXCEPT ![openingCall[c].of] = row]
          /\ openingCall' = [openingCall EXCEPT ![c] = O!Idle]
          /\ ledger' = ledger
      BY <1>4 DEF O!SaveItems, O!Save
    <2>2. copy \in Row
      BY DEF OpeningTypes
    <2>3. row \in Row
      BY <2>2 DEF Row
    <2>4. O!Idle \in [pc : {"idle", "loaded", "check", "post"},
                      of : Onboardings \cup {"none"}, copy : Row] /\ O!Idle.pc = "idle"
      BY DEF O!Idle, O!Absent, O!NoItems, Row, O!Quantities
    <2> HIDE DEF row
    <2> QED
      BY <2>1, <2>3, <2>4 DEF OpeningTypes
  <1>5. ASSUME NEW c \in OpeningCalls, O!Submit(c) PROVE OpeningTypes'
    <2>1. /\ onboarding' = [onboarding EXCEPT ![openingCall[c].of] =
                                [openingCall[c].copy EXCEPT !.status = "submitted"]]
          /\ openingCall' = [openingCall EXCEPT ![c].pc = "check"]
          /\ ledger' = ledger /\ openingCall[c].pc = "loaded"
      BY <1>5 DEF O!Submit, O!Save, O!Goes
    <2>2. /\ openingCall[c].copy \in Row /\ openingCall[c].of \in Onboardings
      BY <2>1 DEF OpeningTypes
    <2>3. [openingCall[c].copy EXCEPT !.status = "submitted"] \in Row
      BY <2>2 DEF Row
    <2>4. onboarding' \in [Onboardings -> Row]
      BY <2>1, <2>3 DEF OpeningTypes
    <2>5. openingCall' \in [OpeningCalls -> [pc : {"idle", "loaded", "check", "post"},
                                            of : Onboardings \cup {"none"}, copy : Row]]
      BY <2>1 DEF OpeningTypes
    <2>6. \A d \in OpeningCalls : openingCall'[d].pc # "idle" => openingCall'[d].of \in Onboardings
      BY <2>1 DEF OpeningTypes
    <2> QED
      BY <2>1, <2>4, <2>5, <2>6 DEF OpeningTypes
  <1>6. ASSUME NEW c \in OpeningCalls, O!Check(c) \/ O!Stop(c) PROVE OpeningTypes'
    <2>1. /\ UNCHANGED <<onboarding, ledger>>
          /\ \/ openingCall' = [openingCall EXCEPT ![c] = O!Idle]
             \/ openingCall[c].pc # "idle" /\ openingCall' = [openingCall EXCEPT ![c].pc = "post"]
      BY <1>6 DEF O!Check, O!Stop, O!Goes
    <2>2. O!Idle \in [pc : {"idle", "loaded", "check", "post"},
                      of : Onboardings \cup {"none"}, copy : Row] /\ O!Idle.pc = "idle"
      BY DEF O!Idle, O!Absent, O!NoItems, Row, O!Quantities
    <2>4. CASE openingCall' = [openingCall EXCEPT ![c] = O!Idle]
      BY <2>1, <2>2, <2>4 DEF OpeningTypes
    <2>5. CASE openingCall[c].pc # "idle" /\ openingCall' = [openingCall EXCEPT ![c].pc = "post"]
      <3>1. openingCall' \in [OpeningCalls -> [pc : {"idle", "loaded", "check", "post"},
                                              of : Onboardings \cup {"none"}, copy : Row]]
        BY <2>5 DEF OpeningTypes
      <3>2. \A d \in OpeningCalls : openingCall'[d].pc # "idle" => openingCall'[d].of \in Onboardings
        BY <2>5 DEF OpeningTypes
      <3> QED
        BY <2>1, <3>1, <3>2 DEF OpeningTypes
    <2> QED
      BY <2>1, <2>4, <2>5
  <1>7. ASSUME NEW c \in OpeningCalls, O!Post(c) PROVE OpeningTypes'
    <2>1. /\ UNCHANGED onboarding /\ openingCall' = [openingCall EXCEPT ![c] = O!Idle]
          /\ openingCall[c].of \in Onboardings
          /\ \/ ledger' = ledger
             \/ ledger' = [v \in Variants |-> IF v \in O!ItemsOf(openingCall[c].copy)
                              THEN Append(ledger[v], openingCall[c].of) ELSE ledger[v]]
      BY <1>7 DEF O!Post, OpeningTypes
    <2>2. \A v \in Variants :
             /\ ledger[v] \in Seq(Onboardings \cup {"other"})
             /\ Append(ledger[v], openingCall[c].of) \in Seq(Onboardings \cup {"other"})
      BY <2>1, AppendHas DEF OpeningTypes
    <2>3. ledger' \in [Variants -> Seq(Onboardings \cup {"other"})]
      BY <2>1, <2>2 DEF OpeningTypes
    <2>4. O!Idle \in [pc : {"idle", "loaded", "check", "post"},
                      of : Onboardings \cup {"none"}, copy : Row] /\ O!Idle.pc = "idle"
      BY DEF O!Idle, O!Absent, O!NoItems, Row, O!Quantities
    <2> QED
      BY <2>1, <2>3, <2>4 DEF OpeningTypes
  <1>8. CASE UNCHANGED O!vars
    BY <1>8 DEF O!vars, OpeningTypes
  <1> QED
    BY <1>1, <1>2, <1>3, <1>4, <1>5, <1>6, <1>7, <1>8 DEF O!Next

\* Whoever puts entries into the ledger of a variant for which a call that has passed
\* the check is on its way makes the variant late.
LEMMA OpeningStaysFirst ==
    ASSUME "other" \notin Onboardings, OpeningTypes, O!OpeningIsFirst, Untouched,
           [O!Next]_(O!vars)
    PROVE  O!OpeningIsFirst' /\ Untouched'
  <1>1. ASSUME NEW v \in Variants, O!OtherEntry(v) PROVE O!OpeningIsFirst' /\ Untouched'
    <2>1. /\ ledger' = [ledger EXCEPT ![v] = Append(@, "other")]
          /\ late' = late \cup {w \in {v} : O!Awaited(w, {})}
          /\ openingCall' = openingCall
      BY <1>1 DEF O!OtherEntry, O!Late
    <2>2. /\ \A i \in DOMAIN Append(ledger[v], "other") :
                 \/ i \in DOMAIN ledger[v] /\ Append(ledger[v], "other")[i] = ledger[v][i]
                 \/ Append(ledger[v], "other")[i] = "other"
      BY AppendHas DEF OpeningTypes
    <2>3. O!OpeningIsFirst'
      BY <2>1, <2>2 DEF O!OpeningIsFirst, OpeningTypes
    <2>4. Untouched'
      BY <2>1 DEF Untouched, O!Awaited, O!ItemsOf, OpeningTypes
    <2> QED
      BY <2>3, <2>4
  <1>2. ASSUME NEW c \in OpeningCalls, O!Check(c) PROVE O!OpeningIsFirst' /\ Untouched'
    <2>1. UNCHANGED <<ledger, late>>
      BY <1>2 DEF O!Check
    <2>2. CASE \E v \in O!ItemsOf(openingCall[c].copy) : O!HasEntries(v)
      <3>1. openingCall' = [openingCall EXCEPT ![c] = O!Idle]
        BY <1>2, <2>2 DEF O!Check
      <3> QED
        BY <2>1, <3>1 DEF Untouched, O!OpeningIsFirst, O!ItemsOf, OpeningTypes, O!Idle
    <2>3. CASE \A v \in O!ItemsOf(openingCall[c].copy) : ledger[v] = <<>>
      <3>1. openingCall' = [openingCall EXCEPT ![c].pc = "post"]
        BY <1>2, <2>3 DEF O!Check, O!HasEntries, O!Goes
      <3> QED
        BY <2>1, <2>3, <3>1 DEF Untouched, O!OpeningIsFirst, O!ItemsOf, OpeningTypes
    <2> QED
      BY <2>2, <2>3 DEF O!HasEntries
  <1>3. ASSUME NEW c \in OpeningCalls, O!Post(c) PROVE O!OpeningIsFirst' /\ Untouched'
    <2> DEFINE items == O!ItemsOf(openingCall[c].copy)
               of == openingCall[c].of
    <2>1. /\ openingCall[c].pc = "post"
          /\ openingCall' = [openingCall EXCEPT ![c] = O!Idle]
      BY <1>3 DEF O!Post
    <2>2. CASE UNCHANGED <<ledger, late>>
      BY <2>1, <2>2 DEF Untouched, O!OpeningIsFirst, O!ItemsOf, OpeningTypes, O!Idle
    <2>3. CASE /\ ledger' = [v \in Variants |-> IF v \in items THEN Append(ledger[v], of)
                                                              ELSE ledger[v]]
               /\ late' = late \cup {v \in items : O!Awaited(v, {c})}
      <3>1. \A v \in items \ late : \A i \in DOMAIN Append(ledger[v], of) : i = 1
        <4>1. \A v \in items \ late : ledger[v] = <<>> /\ v \in Variants
          BY <2>1 DEF Untouched, O!ItemsOf
        <4> QED
          BY <4>1, AppendHas, <2>1 DEF OpeningTypes
      <3>2. O!OpeningIsFirst'
        BY <2>3, <3>1 DEF O!OpeningIsFirst, OpeningTypes
      <3>3. \A d \in OpeningCalls : openingCall'[d].pc = "post" =>
               d # c /\ openingCall'[d] = openingCall[d]
        BY <2>1 DEF OpeningTypes, O!Idle
      <3>4. ASSUME NEW d \in OpeningCalls, openingCall'[d].pc = "post",
                   NEW v \in O!ItemsOf(openingCall[d].copy) \ late'
            PROVE  ledger'[v] = <<>>
        <4>1. d # c /\ openingCall[d].pc = "post" /\ v \in Variants
          BY <3>3, <3>4 DEF O!ItemsOf
        <4>2. v \notin items
          BY <2>3, <3>4, <4>1 DEF O!Awaited
        <4> QED
          BY <2>3, <3>4, <4>1, <4>2 DEF Untouched, OpeningTypes
      <3>5. Untouched'
        BY <3>3, <3>4 DEF Untouched, O!ItemsOf
      <3> QED
        BY <3>2, <3>5
    <2> QED
      BY <1>3, <2>2, <2>3 DEF O!Post, O!Late
  <1> DEFINE Away == /\ UNCHANGED <<ledger, late>>
                     /\ \A c \in OpeningCalls : openingCall'[c].pc = "post" =>
                            openingCall'[c] = openingCall[c]
  <1>4. CASE Away
    BY <1>4 DEF Untouched, O!OpeningIsFirst, O!ItemsOf
  <1>5. ASSUME \/ \E o \in Onboardings : O!Create(o)
               \/ UNCHANGED O!vars
               \/ \E c \in OpeningCalls :
                    \/ \E o \in Onboardings : O!FindById(c, o)
                    \/ \E items \in [Variants -> O!Quantities] : O!SaveItems(c, items)
                    \/ O!Submit(c) \/ O!Stop(c)
        PROVE  Away
    <2>1. CASE \/ \E o \in Onboardings : O!Create(o)
               \/ UNCHANGED O!vars
      BY <2>1 DEF O!Create, O!vars
    <2>2. ASSUME NEW c \in OpeningCalls, NEW o \in Onboardings, O!FindById(c, o)
          PROVE Away
      BY <2>2 DEF O!FindById, OpeningTypes
    <2>3. ASSUME NEW c \in OpeningCalls, \E items \in [Variants -> O!Quantities] : O!SaveItems(c, items)
          PROVE Away
      BY <2>3 DEF O!SaveItems, OpeningTypes, O!Idle
    <2>4. ASSUME NEW c \in OpeningCalls, O!Submit(c) \/ O!Stop(c) PROVE Away
      BY <2>4 DEF O!Submit, O!Stop, O!Goes, OpeningTypes, O!Idle
    <2> QED
      BY <1>5, <2>1, <2>2, <2>3, <2>4
  <1> QED
    BY <1>1, <1>2, <1>3, <1>4, <1>5 DEF O!Next

\* What an onboarding has opened, once entries of one origin are appended.
LEMMA OpenedGrows ==
    ASSUME OpeningTypes, NEW e \in Onboardings \cup {"other"}, NEW X \in SUBSET Variants,
           ledger' = [v \in Variants |-> IF v \in X THEN Append(ledger[v], e) ELSE ledger[v]]
    PROVE  \A o : O!Opened(o)' = IF o = e THEN O!Opened(o) \cup X ELSE O!Opened(o)
  <1>1. \A v \in X : \A x : (\E i \in DOMAIN ledger'[v] : ledger'[v][i] = x)
                              <=> (\E i \in DOMAIN ledger[v] : ledger[v][i] = x) \/ x = e
    <2> SUFFICES ASSUME NEW v \in X
                 PROVE  \A x : (\E i \in DOMAIN ledger'[v] : ledger'[v][i] = x)
                                  <=> (\E i \in DOMAIN ledger[v] : ledger[v][i] = x) \/ x = e
      OBVIOUS
    <2>1. ledger[v] \in Seq(Onboardings \cup {"other"}) /\ ledger'[v] = Append(ledger[v], e)
      BY DEF OpeningTypes
    <2>2. \A x : (\E i \in DOMAIN Append(ledger[v], e) : Append(ledger[v], e)[i] = x)
                    <=> (\E i \in DOMAIN ledger[v] : ledger[v][i] = x) \/ x = e
      BY <2>1, AppendHas
    <2> QED
      BY <2>1, <2>2, Zenon
  <1>2. \A v \in Variants \ X : ledger'[v] = ledger[v]
    OBVIOUS
  <1> QED
    BY <1>1, <1>2 DEF O!Opened

\* What calls have in hand and what is posted, when only some calls go away.
LEMMA LettingGo ==
    ASSUME OpeningTypes, Exclusive, O!PostedIsLocked,
           UNCHANGED <<onboarding, ledger, overlapped>>,
           \A d \in OpeningCalls : openingCall'[d].pc # "idle" =>
               /\ openingCall'[d].of = openingCall[d].of
               /\ openingCall'[d].copy = openingCall[d].copy
               /\ \/ openingCall'[d].pc = openingCall[d].pc
                  \/ openingCall[d].pc = "check" /\ openingCall'[d].pc = "post"
    PROVE  Exclusive' /\ O!PostedIsLocked'
  <1>1. \A o : O!Opened(o)' = O!Opened(o)
    BY OpenedSame
  <1>2. O!PostedIsLocked'
    BY <1>1 DEF O!PostedIsLocked, O!ItemsOf
  <1>3. \A d \in OpeningCalls : openingCall'[d].pc # "idle" => openingCall[d].pc # "idle"
    OBVIOUS
  <1>4. Exclusive'
    BY <1>1, <1>3 DEF Exclusive, Faithful
  <1> QED
    BY <1>2, <1>4

\* Only one call can have done anything with an onboarding that calls do not overlap on:
\* the row is as that call has read or written it.
LEMMA OpeningStaysExclusive ==
    ASSUME "other" \notin Onboardings, OpeningTypes, Exclusive, O!PostedIsLocked,
           [O!Next]_(O!vars)
    PROVE  Exclusive' /\ O!PostedIsLocked'
  <1> DEFINE Kept == Exclusive' /\ O!PostedIsLocked'
  <1>1. ASSUME NEW o \in Onboardings, O!Create(o) PROVE Kept
    <2>1. /\ onboarding[o].status = "absent"
          /\ onboarding' = [onboarding EXCEPT ![o] = [O!Absent EXCEPT !.status = "draft"]]
          /\ UNCHANGED <<ledger, openingCall, overlapped>>
      BY <1>1 DEF O!Create, O!Save, O!Absent
    <2>2. \A p : O!Opened(p)' = O!Opened(p)
      BY <2>1, OpenedSame
    <2>3. O!PostedIsLocked'
      BY <2>1, <2>2 DEF O!PostedIsLocked, O!ItemsOf, OpeningTypes
    <2>4. \A c \in OpeningCalls : openingCall[c].pc # "idle" /\ openingCall[c].of \notin overlapped
             => openingCall[c].of # o
      <3> SUFFICES ASSUME NEW c \in OpeningCalls, openingCall[c].pc # "idle",
                          openingCall[c].of \notin overlapped, openingCall[c].of = o
                   PROVE  FALSE
        OBVIOUS
      <3>1. Faithful(c) /\ openingCall[c].pc \in {"loaded", "check", "post"}
            /\ openingCall[c].copy \in Row
        BY DEF Exclusive, OpeningTypes
      <3> QED
        BY <2>1, <3>1 DEF Faithful, Row
    <2>5. Exclusive'
      BY <2>1, <2>2, <2>4 DEF Exclusive, Faithful, OpeningTypes
    <2> QED
      BY <2>3, <2>5
  <1>2. ASSUME NEW v \in Variants, O!OtherEntry(v) PROVE Kept
    <2>1. /\ ledger' = [w \in Variants |-> IF w \in {v} THEN Append(ledger[w], "other")
                                                       ELSE ledger[w]]
          /\ UNCHANGED <<onboarding, openingCall, overlapped>>
      BY <1>2 DEF O!OtherEntry, OpeningTypes
    <2>2. \A o \in Onboardings : O!Opened(o)' = O!Opened(o)
      <3>1. {v} \in SUBSET Variants /\ "other" \in Onboardings \cup {"other"}
        OBVIOUS
      <3>2. \A o : O!Opened(o)' = IF o = "other" THEN O!Opened(o) \cup {v} ELSE O!Opened(o)
        BY <2>1, <3>1, OpenedGrows
      <3> QED
        BY <3>2
    <2>3. O!PostedIsLocked'
      BY <2>1, <2>2 DEF O!PostedIsLocked, O!ItemsOf
    <2>4. Exclusive'
      BY <2>1, <2>2 DEF Exclusive, Faithful, OpeningTypes
    <2> QED
      BY <2>3, <2>4
  <1>3. ASSUME NEW c \in OpeningCalls, NEW o \in Onboardings, O!FindById(c, o) PROVE Kept
    <2>1. /\ openingCall[c].pc = "idle" /\ onboarding[o].status # "absent"
          /\ openingCall' = [openingCall EXCEPT ![c] =
                               [pc |-> "loaded", of |-> o, copy |-> onboarding[o]]]
          /\ UNCHANGED <<onboarding, ledger>>
          /\ overlapped \subseteq overlapped'
          /\ o \notin overlapped' => \A d \in OpeningCalls : openingCall[d].of # o
      BY <1>3 DEF O!FindById, O!Loads
    <2>2. \A p : O!Opened(p)' = O!Opened(p)
      BY <2>1, OpenedSame
    <2>3. O!PostedIsLocked'
      BY <2>1, <2>2 DEF O!PostedIsLocked, O!ItemsOf
    <2>4. \A d \in OpeningCalls \ {c} : openingCall'[d] = openingCall[d]
      BY <2>1 DEF OpeningTypes
    <2>5. openingCall'[c] = [pc |-> "loaded", of |-> o, copy |-> onboarding[o]]
      BY <2>1 DEF OpeningTypes
    <2>6. Exclusive'
      BY <2>1, <2>2, <2>4, <2>5 DEF Exclusive, Faithful
    <2> QED
      BY <2>3, <2>6
  <1>4. ASSUME NEW c \in OpeningCalls, NEW items \in [Variants -> O!Quantities],
               O!SaveItems(c, items)
        PROVE  Kept
    <2> DEFINE of == openingCall[c].of
    <2>1. PICK row \in [status : {"draft"}, items : [Variants -> O!Quantities]] :
            /\ openingCall[c].pc = "loaded" /\ openingCall[c].copy.status = "draft"
            /\ onboarding' = [onboarding EXCEPT ![of] = row]
            /\ openingCall' = [openingCall EXCEPT ![c] = O!Idle]
            /\ UNCHANGED <<ledger, overlapped>>
      <3> DEFINE copy == openingCall[c].copy
      <3> DEFINE row == [copy EXCEPT !.items =
                           [v \in Variants |-> IF items[v] = "none" THEN @[v] ELSE items[v]]]
      <3>1. copy \in Row
        BY DEF OpeningTypes
      <3>2. row \in Row /\ row.status = copy.status
        BY <3>1 DEF Row
      <3>3. row.status = "draft" /\ openingCall[c].pc = "loaded"
            /\ onboarding' = [onboarding EXCEPT ![of] = row]
            /\ openingCall' = [openingCall EXCEPT ![c] = O!Idle]
            /\ UNCHANGED <<ledger, overlapped>>
        BY <1>4 DEF O!SaveItems, O!Save
      <3>4. row \in [status : {"draft"}, items : [Variants -> O!Quantities]]
        BY <3>2, <3>3 DEF Row
      <3> HIDE DEF row
      <3> QED
        BY <3>2, <3>3, <3>4
    <2>2. \A o : O!Opened(o)' = O!Opened(o)
      BY <2>1, OpenedSame
    <2>3. of \in Onboardings /\ (of \notin overlapped => O!Opened(of) = {})
      BY <2>1 DEF O!PostedIsLocked, Exclusive, Faithful, OpeningTypes
    <2>4. \A d \in OpeningCalls : openingCall'[d].pc # "idle" =>
             /\ openingCall'[d] = openingCall[d]
             /\ of \notin overlapped => openingCall[d].of # of
      BY <2>1 DEF OpeningTypes, O!Idle, Exclusive
    <2>5. O!PostedIsLocked'
      BY <2>1, <2>2, <2>3 DEF O!PostedIsLocked, O!ItemsOf, OpeningTypes
    <2>6. \A o \in Onboardings \ {of} : onboarding'[o] = onboarding[o]
      BY <2>1, <2>3 DEF OpeningTypes
    <2>7. \A d \in OpeningCalls : openingCall[d].pc # "idle" => openingCall[d].of \in Onboardings
      BY DEF OpeningTypes
    <2>8. \A d \in OpeningCalls : openingCall'[d].pc # "idle" /\ openingCall'[d].of \notin overlapped
             => openingCall[d].of # of /\ onboarding'[openingCall[d].of] = onboarding[openingCall[d].of]
      BY <2>4, <2>6, <2>7
    <2>9. Exclusive'
      <3> SUFFICES ASSUME NEW d \in OpeningCalls, openingCall'[d].pc # "idle",
                          openingCall'[d].of \notin overlapped
                   PROVE  /\ Faithful(d)'
                          /\ \A e \in OpeningCalls :
                                openingCall'[e].pc # "idle" /\ openingCall'[e].of = openingCall'[d].of
                                  => d = e
        BY <2>1 DEF Exclusive
      <3>1. openingCall'[d] = openingCall[d]
            /\ onboarding'[openingCall[d].of] = onboarding[openingCall[d].of]
        BY <2>4, <2>8
      <3>2. Faithful(d) /\ \A e \in OpeningCalls :
               openingCall[e].pc # "idle" /\ openingCall[e].of = openingCall[d].of => d = e
        BY <3>1 DEF Exclusive
      <3>3. Faithful(d)'
        BY <3>1, <3>2, <2>2 DEF Faithful
      <3> QED
        BY <3>1, <3>2, <3>3, <2>4
    <2> QED
      BY <2>5, <2>9
  <1>5. ASSUME NEW c \in OpeningCalls, O!Submit(c) PROVE Kept
    <2> DEFINE of == openingCall[c].of
               row == [openingCall[c].copy EXCEPT !.status = "submitted"]
    <2>1. /\ openingCall[c].pc = "loaded" /\ openingCall[c].copy.status = "draft"
          /\ onboarding' = [onboarding EXCEPT ![of] = row]
          /\ openingCall' = [openingCall EXCEPT ![c].pc = "check"]
          /\ UNCHANGED <<ledger, overlapped>>
      BY <1>5 DEF O!Submit, O!Save, O!Goes
    <2>2. \A o : O!Opened(o)' = O!Opened(o)
      BY <2>1, OpenedSame
    <2>3. of \in Onboardings /\ (of \notin overlapped => O!Opened(of) = {})
      BY <2>1 DEF O!PostedIsLocked, Exclusive, Faithful, OpeningTypes
    <2>4. /\ \A d \in OpeningCalls \ {c} : openingCall'[d] = openingCall[d]
          /\ openingCall'[c].pc = "check" /\ openingCall'[c].of = of
          /\ openingCall'[c].copy = openingCall[c].copy
      BY <2>1 DEF OpeningTypes
    <2>5. \A d \in OpeningCalls \ {c} :
             openingCall[d].pc # "idle" /\ of \notin overlapped => openingCall[d].of # of
      BY <2>1 DEF Exclusive
    <2>6. onboarding'[of] = row /\ \A o \in Onboardings \ {of} : onboarding'[o] = onboarding[o]
      BY <2>1, <2>3 DEF OpeningTypes
    <2> HIDE DEF row
    <2>7. O!PostedIsLocked'
      BY <2>1, <2>2, <2>3, <2>6 DEF O!PostedIsLocked, O!ItemsOf
    <2>8. \A d \in OpeningCalls \ {c} : openingCall[d].pc # "idle" => openingCall[d].of \in Onboardings
      BY DEF OpeningTypes
    <2> USE DEF row
    <2>9. Exclusive'
      <3> SUFFICES ASSUME NEW d \in OpeningCalls, openingCall'[d].pc # "idle",
                          openingCall'[d].of \notin overlapped
                   PROVE  /\ Faithful(d)'
                          /\ \A e \in OpeningCalls :
                                openingCall'[e].pc # "idle" /\ openingCall'[e].of = openingCall'[d].of
                                  => d = e
        BY <2>1 DEF Exclusive
      <3>1. CASE d = c
        BY <3>1, <2>1, <2>2, <2>3, <2>4, <2>5, <2>6 DEF Faithful
      <3>2. CASE d # c
        <4>1. /\ openingCall'[d] = openingCall[d] /\ openingCall[d].of # of
              /\ onboarding'[openingCall[d].of] = onboarding[openingCall[d].of]
          BY <3>2, <2>4, <2>5, <2>6, <2>8
        <4>2. Faithful(d) /\ \A e \in OpeningCalls :
                 openingCall[e].pc # "idle" /\ openingCall[e].of = openingCall[d].of => d = e
          BY <4>1 DEF Exclusive
        <4>3. Faithful(d)'
          BY <4>1, <4>2, <2>2 DEF Faithful
        <4> QED
          BY <4>1, <4>2, <4>3, <2>4
      <3> QED
        BY <3>1, <3>2
    <2> QED
      BY <2>7, <2>9
  <1>6. ASSUME NEW c \in OpeningCalls, O!Check(c) \/ O!Stop(c) PROVE Kept
    <2>1. /\ UNCHANGED <<onboarding, ledger, overlapped>>
          /\ \/ openingCall' = [openingCall EXCEPT ![c] = O!Idle]
             \/ openingCall[c].pc = "check" /\ openingCall' = [openingCall EXCEPT ![c].pc = "post"]
      BY <1>6 DEF O!Check, O!Stop, O!Goes
    <2>2. \A d \in OpeningCalls : openingCall'[d].pc # "idle" =>
               /\ openingCall'[d].of = openingCall[d].of
               /\ openingCall'[d].copy = openingCall[d].copy
               /\ \/ openingCall'[d].pc = openingCall[d].pc
                  \/ openingCall[d].pc = "check" /\ openingCall'[d].pc = "post"
      BY <2>1 DEF OpeningTypes, O!Idle
    <2> QED
      BY <2>1, <2>2, LettingGo
  <1>7. ASSUME NEW c \in OpeningCalls, O!Post(c) PROVE Kept
    <2> DEFINE items == O!ItemsOf(openingCall[c].copy)
    <2>0. PICK of \in Onboardings : of = openingCall[c].of
      BY <1>7 DEF O!Post, OpeningTypes
    <2>1. /\ openingCall[c].pc = "post" /\ items \in SUBSET Variants
          /\ openingCall' = [openingCall EXCEPT ![c] = O!Idle]
          /\ UNCHANGED <<onboarding, overlapped>>
      BY <1>7 DEF O!Post, OpeningTypes, O!ItemsOf
    <2>2. \A d \in OpeningCalls : openingCall'[d].pc # "idle" =>
             /\ openingCall'[d] = openingCall[d] /\ d # c
             /\ of \notin overlapped => openingCall[d].of # of
      BY <2>0, <2>1 DEF OpeningTypes, O!Idle, Exclusive
    <2>3. CASE ledger' = ledger
      BY <2>1, <2>2, <2>3, LettingGo
    <2>4. CASE ledger' = [v \in Variants |-> IF v \in items THEN Append(ledger[v], of)
                                                              ELSE ledger[v]]
      <3>1. \A o : O!Opened(o)' = IF o = of THEN O!Opened(o) \cup items ELSE O!Opened(o)
        BY <2>1, <2>4, OpenedGrows
      <3>2. of \notin overlapped => /\ O!Opened(of)' = items
                                    /\ onboarding[of].status = "submitted"
                                    /\ O!ItemsOf(onboarding[of]) = items
        <4> SUFFICES ASSUME of \notin overlapped
                     PROVE  /\ O!Opened(of)' = items
                            /\ onboarding[of].status = "submitted"
                            /\ O!ItemsOf(onboarding[of]) = items
          OBVIOUS
        <4>1. Faithful(c) /\ openingCall[c].copy \in Row
          BY <2>0, <2>1 DEF Exclusive, OpeningTypes
        <4>2. O!Opened(of) = {}
          BY <2>0, <2>1, <4>1 DEF Faithful
        <4>3. onboarding[of] = [openingCall[c].copy EXCEPT !.status = "submitted"]
          BY <2>0, <2>1, <4>1 DEF Faithful
        <4>4. /\ onboarding[of].status = "submitted"
              /\ onboarding[of].items = openingCall[c].copy.items
          BY <4>1, <4>3 DEF Row
        <4>5. O!ItemsOf(onboarding[of]) = items
          BY <4>4 DEF O!ItemsOf
        <4>6. O!Opened(of)' = O!Opened(of) \cup items
          BY <3>1
        <4> QED
          BY <4>2, <4>4, <4>5, <4>6
      <3>3. O!PostedIsLocked'
        BY <2>1, <3>1, <3>2 DEF O!PostedIsLocked, O!ItemsOf
      <3>4. Exclusive'
        BY <2>1, <2>2, <3>1 DEF Exclusive, Faithful
      <3> QED
        BY <3>3, <3>4
    <2> QED
      BY <1>7, <2>0, <2>3, <2>4 DEF O!Post
  <1>8. CASE UNCHANGED O!vars
    BY <1>8, LettingGo DEF O!vars
  <1> QED
    BY <1>1, <1>2, <1>3, <1>4, <1>5, <1>6, <1>7, <1>8 DEF O!Next

\* An opening balance is the first entry of its variant unless another entry came
\* between the check of the ledger and the append; and what an onboarding has posted is
\* all that it says, and it is locked, unless two calls have worked on it at once
\* (ManageOnboardings.ts, OpeningBalanceService.ts): for any onboardings, variants and
\* calls.
THEOREM OpeningBalances ==
    ASSUME "other" \notin Onboardings
    PROVE  O!Spec => []O!OnboardingSound
  <1>1. O!Init => OpeningInv
    BY OpeningStarts
  <1>2. OpeningInv /\ [O!Next]_(O!vars) => OpeningInv'
    BY OpeningTypesKept, OpeningStaysFirst, OpeningStaysExclusive DEF OpeningInv
  <1>3. OpeningInv => O!OnboardingSound
    BY DEF OpeningInv, O!OnboardingSound
  <1> QED
    BY <1>1, <1>2, <1>3, PTL DEF O!Spec

-----------------------------------------------------------------------------
(***************************************************************************)
(* Units of measure.  Every configuration, on record or in the hands of a  *)
(* call, comes with the units whose rule was removed on the way to it.     *)
(***************************************************************************)
CONSTANTS UnitNames, UnitCalls
VARIABLES config, unitCall, removed

U == INSTANCE Units WITH Calls <- UnitCalls, call <- unitCall

Configuration == LET names == UnitNames \cup {"none"}
                 IN  [base : names, purchase : names, sale : names, rules : SUBSET names]

\* The units of purchases and sales convert, but for those whose rule is gone.
Convertible(c, gone) ==
    /\ c \in Configuration
    /\ \A unit \in {c.purchase, c.sale} \ gone : unit \in c.rules \cup {c.base}

UnitInv ==
    /\ unitCall \in [UnitCalls -> [pc : {"idle", "loaded", "save"}, config : Configuration,
                                   gone : SUBSET (UnitNames \cup {"none"})]]
    /\ removed \in SUBSET (UnitNames \cup {"none"})
    /\ Convertible(config, removed)
    /\ \A c \in UnitCalls : Convertible(unitCall[c].config, unitCall[c].gone)

\* Handing a call a configuration that converts, or taking it from it, does no harm.
LEMMA UnitCallTurns ==
    ASSUME UnitInv, NEW c \in UnitCalls, NEW pc \in {"idle", "loaded", "save"}, NEW next,
           NEW gone \in SUBSET (UnitNames \cup {"none"}), Convertible(next, gone),
           unitCall' = [unitCall EXCEPT ![c] = [pc |-> pc, config |-> next, gone |-> gone]],
           UNCHANGED <<config, removed>>
    PROVE  UnitInv'
  <1>1. next \in Configuration
    BY DEF Convertible
  <1>2. /\ unitCall'[c].config = next /\ unitCall'[c].gone = gone
        /\ \A d \in UnitCalls \ {c} : unitCall'[d] = unitCall[d]
    BY DEF UnitInv
  <1>3. unitCall' \in [UnitCalls -> [pc : {"idle", "loaded", "save"}, config : Configuration,
                                     gone : SUBSET (UnitNames \cup {"none"})]]
    BY <1>1 DEF UnitInv
  <1>4. \A d \in UnitCalls : Convertible(unitCall'[d].config, unitCall'[d].gone)
    BY <1>2 DEF UnitInv
  <1> QED
    BY <1>3, <1>4 DEF UnitInv

LEMMA UnitsStart == U!Init => UnitInv
  BY DEF U!Init, U!Idle, U!Unconfigured, UnitInv, Convertible, Configuration

LEMMA UnitsStep == ASSUME UnitInv, [U!Next]_(U!vars) PROVE UnitInv'
  <1>1. Convertible(U!Unconfigured, {}) /\ U!Idle = [pc |-> "idle", config |-> U!Unconfigured, gone |-> {}]
    BY DEF U!Unconfigured, U!Idle, Convertible, Configuration
  <1>2. ASSUME NEW c \in UnitCalls, U!Configure(c) PROVE UnitInv'
    <2>1. PICK base \in UnitNames, rules \in SUBSET UnitNames, purchase \in UnitNames,
               sale \in UnitNames :
            /\ purchase \in rules \cup {base} /\ sale \in rules \cup {base}
            /\ U!ToSave(c, [base |-> base, purchase |-> purchase, sale |-> sale,
                            rules |-> rules], {})
            /\ UNCHANGED <<config, removed>>
      BY <1>2 DEF U!Configure, U!Known
    <2> DEFINE next == [base |-> base, purchase |-> purchase, sale |-> sale, rules |-> rules]
    <2>2. Convertible(next, {})
      BY <2>1 DEF Convertible, Configuration
    <2>3. /\ unitCall' = [unitCall EXCEPT ![c] = [pc |-> "save", config |-> next, gone |-> {}]]
          /\ UNCHANGED <<config, removed>>
      BY <2>1 DEF U!ToSave
    <2> HIDE DEF next
    <2> QED
      BY <2>2, <2>3, UnitCallTurns
  <1>3. ASSUME NEW c \in UnitCalls, U!FindBySku(c) PROVE UnitInv'
    <2>1. Convertible(config, removed) /\ removed \in SUBSET (UnitNames \cup {"none"})
      BY DEF UnitInv
    <2>2. /\ unitCall' = [unitCall EXCEPT ![c] = [pc |-> "loaded", config |-> config,
                                                  gone |-> removed]]
          /\ UNCHANGED <<config, removed>>
      BY <1>3 DEF U!FindBySku
    <2> QED
      BY <2>1, <2>2, UnitCallTurns
  <1>4. ASSUME NEW c \in UnitCalls, U!SetUnits(c) PROVE UnitInv'
    <2> DEFINE old == unitCall[c].config
    <2>1. Convertible(old, unitCall[c].gone) /\ unitCall[c].gone \in SUBSET (UnitNames \cup {"none"})
      BY DEF UnitInv
    <2>2. PICK purchase \in UnitNames \cup {old.purchase}, sale \in UnitNames \cup {old.sale} :
            /\ purchase = old.purchase \/ purchase \in old.rules \cup {old.base}
            /\ sale = old.sale \/ sale \in old.rules \cup {old.base}
            /\ U!ToSave(c, [old EXCEPT !.purchase = purchase, !.sale = sale], unitCall[c].gone)
            /\ UNCHANGED <<config, removed>>
      BY <1>4 DEF U!SetUnits, U!Known
    <2> DEFINE next == [old EXCEPT !.purchase = purchase, !.sale = sale]
    <2>3. Convertible(next, unitCall[c].gone)
      BY <2>1, <2>2 DEF Convertible, Configuration
    <2> QED
      BY <2>1, <2>2, <2>3, UnitCallTurns DEF U!ToSave
  <1>5. ASSUME NEW c \in UnitCalls, NEW unit \in UnitNames,
               U!AddConversionRule(c, unit) \/ U!RemoveConversionRule(c, unit)
        PROVE  UnitInv'
    <2> DEFINE old == unitCall[c].config
    <2>1. Convertible(old, unitCall[c].gone) /\ unitCall[c].gone \in SUBSET (UnitNames \cup {"none"})
      BY DEF UnitInv
    <2>2. CASE U!AddConversionRule(c, unit)
      <3> DEFINE next == [old EXCEPT !.rules = @ \cup {unit}]
      <3>1. Convertible(next, unitCall[c].gone)
        BY <2>1 DEF Convertible, Configuration
      <3> QED
        BY <2>1, <2>2, <3>1, UnitCallTurns DEF U!AddConversionRule, U!ToSave
    <2>3. CASE U!RemoveConversionRule(c, unit)
      <3> DEFINE next == [old EXCEPT !.rules = @ \ {unit}]
      <3>1. /\ Convertible(next, unitCall[c].gone \cup {unit})
            /\ unitCall[c].gone \cup {unit} \in SUBSET (UnitNames \cup {"none"})
        BY <2>1 DEF Convertible, Configuration
      <3> QED
        BY <2>3, <3>1, UnitCallTurns DEF U!RemoveConversionRule, U!ToSave
    <2> QED
      BY <1>5, <2>2, <2>3
  <1>6. ASSUME NEW c \in UnitCalls, U!Fail(c) PROVE UnitInv'
    BY <1>1, <1>6, UnitCallTurns DEF U!Fail
  <1>7. ASSUME NEW c \in UnitCalls, U!Save(c) PROVE UnitInv'
    <2>1. /\ config' = unitCall[c].config /\ removed' = unitCall[c].gone
          /\ unitCall' = [unitCall EXCEPT ![c] = U!Idle]
      BY <1>7 DEF U!Save
    <2>2. Convertible(config', removed') /\ removed' \in SUBSET (UnitNames \cup {"none"})
      BY <2>1 DEF UnitInv
    <2>3. U!Idle \in [pc : {"idle", "loaded", "save"}, config : Configuration,
                      gone : SUBSET (UnitNames \cup {"none"})]
      BY <1>1 DEF Convertible
    <2>4. \A d \in UnitCalls : Convertible(unitCall'[d].config, unitCall'[d].gone)
      BY <1>1, <2>1 DEF UnitInv
    <2> QED
      BY <2>1, <2>2, <2>3, <2>4 DEF UnitInv
  <1>8. CASE UNCHANGED U!vars
    BY <1>8 DEF U!vars, UnitInv
  <1> QED
    BY <1>2, <1>3, <1>4, <1>5, <1>6, <1>7, <1>8 DEF U!Next

\* Purchases and sales are in units that convert to the base unit, however calls that
\* load, change and save the configuration of a product overlap, but for a unit whose
\* conversion rule somebody has removed (ProductUomConfiguration, ManageUoms.ts).
THEOREM UnitsOfTrade == U!Spec => []U!UnitsConvert
  <1>1. UnitInv => U!UnitsConvert
    BY DEF UnitInv, Convertible, U!UnitsConvert
  <1> QED
    BY <1>1, UnitsStart, UnitsStep, PTL DEF U!Spec

-----------------------------------------------------------------------------
(***************************************************************************)
(* Roles.  What calls do to a role they do in several queries.  On a role  *)
(* that calls have not crossed on, one call at most is changing or         *)
(* deleting it, so what it has done so far, and only that, is in the row;  *)
(* and nobody has a role that is being deleted.                            *)
(***************************************************************************)
CONSTANTS Users, BuiltIn, Custom, Permissions, RoleCalls
VARIABLES users, role, held, roleCall, meant, due, crossed

R == INSTANCE Roles WITH Calls <- RoleCalls, call <- roleCall

RoleStages == {"idle"} \cup R!Changing \cup R!Deleting \cup R!Giving
RoleCall == [pc : RoleStages, user : Users \cup {"none"}, roles : SUBSET R!Ids,
             permits : SUBSET Permissions]

RoleTypes ==
    /\ role \in [R!Ids -> [exists : BOOLEAN, permits : SUBSET Permissions]]
    /\ meant \in [R!Ids -> SUBSET Permissions]
    /\ users \subseteq Users /\ due \subseteq Users \X R!Ids /\ held \subseteq Users \X R!Ids
    /\ roleCall \in [RoleCalls -> RoleCall]
    /\ \A c \in RoleCalls :
           /\ roleCall[c].pc = "idle" => roleCall[c].roles = {}
           /\ roleCall[c].pc \in R!Changing \cup R!Deleting => \E r \in R!Ids : roleCall[c].roles = {r}
           /\ roleCall[c].pc \in R!Giving => roleCall[c].user \in Users

\* A call is at one of these steps of its work on a role.
Does(c, r, steps) == r \in roleCall[c].roles /\ roleCall[c].pc \in steps

Alone(r) ==
    /\ \A c, d \in RoleCalls :
           /\ Does(c, r, R!Changing \cup R!Deleting)
           /\ Does(d, r, R!Changing \cup R!Deleting)
           => c = d
    /\ \A c, d \in RoleCalls : Does(c, r, R!Deleting) => ~ Does(d, r, R!Giving)

\* The row of a role, as far as the call that works on it has come.
PermitsSoFar(r) ==
    /\ (\A c \in RoleCalls : ~ Does(c, r, {"fill", "drop"})) => role[r].permits = meant[r]
    /\ \A c \in RoleCalls : Does(c, r, {"fill", "drop"}) => role[r].permits = {}
    /\ \A c \in RoleCalls : Does(c, r, R!Changing) => R!Exists(r)

Unheld(r) == \A c \in RoleCalls : Does(c, r, R!Deleting) => \A u \in Users : <<u, r>> \notin due
Kept(r) == \A u \in Users : <<u, r>> \in due => <<u, r>> \in held

\* A role that is not there permits nothing.
Empty(r) == ~ R!Exists(r) => role[r].permits = {} /\ meant[r] = {}

Sound(r) == Alone(r) /\ PermitsSoFar(r) /\ Unheld(r) /\ Kept(r)

RoleInv ==
    /\ RoleTypes
    /\ \A r \in R!Ids : Empty(r) /\ (r \notin crossed => Sound(r))

RoleSteps == {"idle", "clear", "fill", "strip", "drop", "assign", "look", "make", "give"}

LEMMA StepsAre ==
    /\ RoleStages = RoleSteps
    /\ R!Changing = {"clear", "fill"} /\ R!Deleting = {"strip", "drop"}
    /\ R!Giving = {"assign", "look", "make", "give"}
  BY DEF RoleStages, RoleSteps, R!Changing, R!Deleting, R!Giving

\* What calls do once one of them begins, goes on, or ends.
LEMMA RoleCallBegins ==
    ASSUME RoleTypes, NEW c \in RoleCalls, NEW stage, NEW user, NEW ids, NEW permits,
           R!Begins(c, stage, user, ids, permits)
    PROVE  /\ \A d \in RoleCalls : \A r, steps :
                  Does(d, r, steps)' <=> IF d = c THEN r \in ids /\ stage \in steps
                                                 ELSE Does(d, r, steps)
           /\ roleCall'[c] = [pc |-> stage, user |-> user, roles |-> ids, permits |-> permits]
           /\ \A d \in RoleCalls \ {c} : roleCall'[d] = roleCall[d]
           /\ DOMAIN roleCall' = RoleCalls
           /\ [pc |-> stage, user |-> user, roles |-> ids, permits |-> permits] \in RoleCall
                  => roleCall' \in [RoleCalls -> RoleCall]
  BY DEF RoleTypes, Does, R!Begins

LEMMA RoleCallGoes ==
    ASSUME RoleTypes, NEW c \in RoleCalls, NEW stage \in RoleStages, R!Goes(c, stage)
    PROVE  /\ \A d \in RoleCalls : \A r, steps :
                  Does(d, r, steps)' <=> IF d = c THEN r \in roleCall[c].roles /\ stage \in steps
                                                 ELSE Does(d, r, steps)
           /\ roleCall'[c].pc = stage /\ roleCall'[c].roles = roleCall[c].roles
           /\ roleCall'[c].user = roleCall[c].user
           /\ \A d \in RoleCalls \ {c} : roleCall'[d] = roleCall[d]
           /\ roleCall' \in [RoleCalls -> RoleCall]
  <1>1. /\ roleCall \in [RoleCalls -> RoleCall]
        /\ roleCall' = [roleCall EXCEPT ![c].pc = stage]
    BY DEF RoleTypes, R!Goes
  <1> QED
    BY <1>1 DEF Does, RoleCall

LEMMA RoleCallEnds ==
    ASSUME RoleTypes, NEW c \in RoleCalls, R!Ends(c)
    PROVE  /\ \A d \in RoleCalls : \A r, steps :
                  Does(d, r, steps)' <=> d # c /\ Does(d, r, steps)
           /\ roleCall'[c].pc = "idle" /\ roleCall'[c].roles = {}
           /\ \A d \in RoleCalls \ {c} : roleCall'[d] = roleCall[d]
           /\ roleCall' \in [RoleCalls -> RoleCall]
  <1>1. R!Idle \in RoleCall /\ R!Idle.pc = "idle" /\ R!Idle.roles = {}
    BY DEF R!Idle, RoleCall, RoleStages
  <1> QED
    BY <1>1 DEF RoleTypes, Does, R!Ends

LEMMA RolesStart == R!Init => RoleInv
  <1> SUFFICES ASSUME R!Init PROVE RoleInv
    OBVIOUS
  <1>1. \A c \in RoleCalls : roleCall[c] = R!Idle
    BY DEF R!Init
  <1>2. R!Idle \in RoleCall /\ R!Idle.pc = "idle" /\ R!Idle.roles = {}
    BY DEF R!Idle, RoleCall, RoleStages
  <1>3. roleCall \in [RoleCalls -> RoleCall]
    BY <1>2 DEF R!Init
  <1>4. RoleTypes
    BY <1>1, <1>2, <1>3, StepsAre DEF R!Init, RoleTypes
  <1>5. \A c \in RoleCalls : \A r, steps : ~ Does(c, r, steps)
    BY <1>1, <1>2 DEF Does
  <1>6. \A r \in R!Ids : role[r].permits = meant[r] /\ Empty(r) /\ Kept(r)
    BY DEF R!Init, Empty, Kept, R!Exists
  <1>7. \A r \in R!Ids : Sound(r)
    BY <1>5, <1>6 DEF Sound, Alone, PermitsSoFar, Unheld
  <1> QED
    BY <1>4, <1>6, <1>7 DEF RoleInv

LEMMA RoleTypesKept == ASSUME RoleTypes, [R!Next]_(R!vars) PROVE RoleTypes'
  <1> DEFINE Calm ==
        \A c \in RoleCalls :
           /\ roleCall'[c].pc = "idle" => roleCall'[c].roles = {}
           /\ roleCall'[c].pc \in R!Changing \cup R!Deleting
                => \E r \in R!Ids : roleCall'[c].roles = {r}
           /\ roleCall'[c].pc \in R!Giving => roleCall'[c].user \in Users
  <1>1. ASSUME NEW c \in RoleCalls, R!Ends(c)
        PROVE  roleCall' \in [RoleCalls -> RoleCall] /\ Calm
    BY <1>1, RoleCallEnds, StepsAre DEF RoleTypes
  <1>2. ASSUME NEW c \in RoleCalls, NEW stage \in RoleStages \ {"idle"}, R!Goes(c, stage),
               \/ roleCall[c].pc \in R!Changing \cup R!Deleting /\ stage \in R!Changing \cup R!Deleting
               \/ roleCall[c].pc \in R!Giving /\ stage \in R!Giving
        PROVE  roleCall' \in [RoleCalls -> RoleCall] /\ Calm
    <2>1. /\ roleCall'[c].pc = stage /\ roleCall'[c].roles = roleCall[c].roles
          /\ roleCall'[c].user = roleCall[c].user
          /\ \A d \in RoleCalls \ {c} : roleCall'[d] = roleCall[d]
          /\ roleCall' \in [RoleCalls -> RoleCall]
      BY <1>2, RoleCallGoes
    <2> QED
      BY <1>2, <2>1, StepsAre DEF RoleTypes
  <1>3. ASSUME NEW c \in RoleCalls, NEW stage \in RoleStages \ {"idle"}, NEW user \in Users \cup {"none"},
               NEW ids \in SUBSET R!Ids, NEW permits \in SUBSET Permissions,
               R!Begins(c, stage, user, ids, permits),
               \/ stage \in R!Changing \cup R!Deleting /\ \E r \in R!Ids : ids = {r}
               \/ stage \in R!Giving /\ user \in Users
        PROVE  roleCall' \in [RoleCalls -> RoleCall] /\ Calm
    <2>1. [pc |-> stage, user |-> user, roles |-> ids, permits |-> permits] \in RoleCall
      BY DEF RoleCall
    <2>2. /\ roleCall'[c] = [pc |-> stage, user |-> user, roles |-> ids, permits |-> permits]
          /\ \A d \in RoleCalls \ {c} : roleCall'[d] = roleCall[d]
          /\ roleCall' \in [RoleCalls -> RoleCall]
      BY <1>3, <2>1, RoleCallBegins
    <2> QED
      BY <1>3, <2>2, StepsAre DEF RoleTypes
  <1> DEFINE Tables == /\ role' \in [R!Ids -> [exists : BOOLEAN, permits : SUBSET Permissions]]
                       /\ meant' \in [R!Ids -> SUBSET Permissions]
                       /\ users' \subseteq Users /\ due' \subseteq Users \X R!Ids
                       /\ held' \subseteq Users \X R!Ids
  <1>4. ASSUME Tables, \/ roleCall' = roleCall
                       \/ roleCall' \in [RoleCalls -> RoleCall] /\ Calm
        PROVE  RoleTypes'
    BY <1>4 DEF RoleTypes
  <1>5. ASSUME UNCHANGED <<users, role, held, meant, due>> PROVE Tables
    BY <1>5 DEF RoleTypes
  <1>6. /\ role \in [R!Ids -> [exists : BOOLEAN, permits : SUBSET Permissions]]
        /\ meant \in [R!Ids -> SUBSET Permissions]
        /\ users \subseteq Users /\ due \subseteq Users \X R!Ids /\ held \subseteq Users \X R!Ids
        /\ \A c \in RoleCalls :
             /\ roleCall[c].permits \in SUBSET Permissions /\ roleCall[c].roles \in SUBSET R!Ids
             /\ roleCall[c].pc \in R!Giving => roleCall[c].user \in Users
             /\ roleCall[c].pc \in R!Changing \cup R!Deleting => \E r \in R!Ids : roleCall[c].roles = {r}
    BY DEF RoleTypes, RoleCall
  <1> HIDE DEF Calm
  <1>7. ASSUME NEW r \in R!Ids, NEW permits \in SUBSET Permissions, R!CreateCustomRole(r, permits)
        PROVE  RoleTypes'
    <2>1. Tables
      BY <1>6, <1>7 DEF R!CreateCustomRole
    <2> QED
      BY <1>4, <1>7, <2>1 DEF R!CreateCustomRole
  <1>8. ASSUME NEW u \in Users, NEW ids \in SUBSET R!Ids, R!RemoveRoles(u, ids) PROVE RoleTypes'
    <2>1. Tables
      BY <1>6, <1>8 DEF R!RemoveRoles
    <2> QED
      BY <1>4, <1>8, <2>1 DEF R!RemoveRoles
  <1>9. ASSUME NEW c \in RoleCalls, NEW r \in R!Ids,
               \/ \E permits \in SUBSET Permissions : R!FindForUpdate(c, r, permits)
               \/ R!FindForDelete(c, r)
        PROVE  RoleTypes'
    <2>1. \E stage \in {"clear", "strip"}, permits \in SUBSET Permissions :
             R!Begins(c, stage, "none", {r}, permits)
      BY <1>9 DEF R!FindForUpdate, R!FindForDelete
    <2>2. roleCall' \in [RoleCalls -> RoleCall] /\ Calm
      BY <1>3, <2>1, StepsAre DEF RoleSteps
    <2>3. UNCHANGED <<users, role, held, meant, due>>
      BY <1>9 DEF R!FindForUpdate, R!FindForDelete
    <2> QED
      BY <1>4, <1>5, <2>2, <2>3
  <1>10. ASSUME NEW c \in RoleCalls, NEW u \in Users,
                \/ \E ids \in SUBSET R!Ids : R!FindForAssign(c, u, ids)
                \/ \E r \in R!Ids : R!InviteUser(c, u, r) \/ R!UpdateUserRole(c, u, r)
         PROVE  RoleTypes'
    <2>1. \E stage \in {"assign", "look"}, ids \in SUBSET R!Ids : R!Begins(c, stage, u, ids, {})
      BY <1>10 DEF R!FindForAssign, R!InviteUser, R!UpdateUserRole
    <2>2. roleCall' \in [RoleCalls -> RoleCall] /\ Calm
      BY <1>3, <2>1, StepsAre DEF RoleSteps
    <2>3. Tables
      BY <1>6, <1>10 DEF R!FindForAssign, R!InviteUser, R!UpdateUserRole
    <2> QED
      BY <1>4, <2>2, <2>3
  <1>11. ASSUME NEW c \in RoleCalls, R!ClearPermissions(c) \/ R!StripPermissions(c) \/ R!LookForRole(c)
         PROVE  RoleTypes'
    <2>1. \E stage \in {"fill", "drop", "give", "make"} :
             /\ R!Goes(c, stage)
             /\ \/ roleCall[c].pc \in {"clear", "strip"} /\ stage \in {"fill", "drop"}
                \/ roleCall[c].pc = "look" /\ stage \in {"give", "make"}
      BY <1>11 DEF R!ClearPermissions, R!StripPermissions, R!LookForRole
    <2>2. roleCall' \in [RoleCalls -> RoleCall] /\ Calm
      BY <1>2, <2>1, StepsAre DEF RoleSteps
    <2>3. Tables
      BY <1>6, <1>11 DEF R!ClearPermissions, R!StripPermissions, R!LookForRole
    <2> QED
      BY <1>4, <2>2, <2>3
  <1>12. ASSUME NEW c \in RoleCalls, R!MakeRole(c) PROVE RoleTypes'
    <2>1. \/ R!Ends(c)
          \/ R!Goes(c, "give") /\ roleCall[c].pc = "make"
      BY <1>12 DEF R!MakeRole
    <2>2. roleCall' \in [RoleCalls -> RoleCall] /\ Calm
      BY <1>1, <1>2, <2>1, StepsAre DEF RoleSteps
    <2> DEFINE made == [r \in R!Ids |-> IF r \in roleCall[c].roles
                                       THEN [R!Missing EXCEPT !.exists = TRUE] ELSE role[r]]
    <2>3. [R!Missing EXCEPT !.exists = TRUE] \in [exists : BOOLEAN, permits : SUBSET Permissions]
      BY DEF R!Missing
    <2>4. made \in [R!Ids -> [exists : BOOLEAN, permits : SUBSET Permissions]]
      BY <1>6, <2>3
    <2>5. (role' = role \/ role' = made) /\ UNCHANGED <<users, held, meant, due>>
      BY <1>12 DEF R!MakeRole
    <2> HIDE DEF made
    <2>6. Tables
      BY <1>6, <2>4, <2>5
    <2> QED
      BY <1>4, <2>2, <2>6
  <1>13. ASSUME NEW c \in RoleCalls,
                \/ R!FillPermissions(c) \/ R!DropRole(c) \/ R!AssignRoles(c)
                \/ R!GiveRole(c) \/ R!Stop(c)
         PROVE  RoleTypes'
    <2>1. R!Ends(c)
      BY <1>13 DEF R!FillPermissions, R!DropRole, R!AssignRoles, R!GiveRole, R!Stop
    <2>2. roleCall' \in [RoleCalls -> RoleCall] /\ Calm
      BY <1>1, <2>1
    <2>3. CASE R!FillPermissions(c)
      <3>1. (CHOOSE x \in roleCall[c].roles : TRUE) \in R!Ids
        BY <1>6, <2>3, StepsAre DEF R!FillPermissions
      <3> DEFINE r == CHOOSE x \in roleCall[c].roles : TRUE
      <3>2. /\ \/ UNCHANGED <<role, meant>>
               \/ /\ role' = [role EXCEPT ![r].permits = @ \cup roleCall[c].permits]
                  /\ meant' = [meant EXCEPT ![r] = roleCall[c].permits]
            /\ UNCHANGED <<users, held, due>>
        BY <2>3 DEF R!FillPermissions
      <3> HIDE DEF r
      <3>3. meant' \in [R!Ids -> SUBSET Permissions]
        BY <1>6, <3>2
      <3>4. role' \in [R!Ids -> [exists : BOOLEAN, permits : SUBSET Permissions]]
        <4>1. roleCall[c].permits \in SUBSET Permissions /\ r \in R!Ids
          BY <1>6, <3>1 DEF r
        <4> QED
          BY <1>6, <3>2, <4>1
      <3>5. Tables
        BY <1>6, <3>2, <3>3, <3>4
      <3> QED
        BY <1>4, <2>2, <3>5
    <2>4. CASE R!DropRole(c)
      <3>1. Tables
        BY <1>6, <2>4 DEF R!DropRole, R!Missing
      <3> QED
        BY <1>4, <2>2, <3>1
    <2>5. CASE R!AssignRoles(c) \/ R!GiveRole(c)
      <3>1. roleCall[c].user \in Users
        BY <1>6, <2>5, StepsAre DEF R!AssignRoles, R!GiveRole
      <3>2. Tables
        BY <1>6, <2>5, <3>1 DEF R!AssignRoles, R!GiveRole, R!Give
      <3> QED
        BY <1>4, <2>2, <3>2
    <2>6. CASE R!Stop(c)
      BY <1>4, <1>5, <2>2, <2>6 DEF R!Stop
    <2> QED
      BY <1>13, <2>3, <2>4, <2>5, <2>6
  <1>14. CASE UNCHANGED R!vars
    BY <1>4, <1>5, <1>14 DEF R!vars
  <1> QED
    BY <1>7, <1>8, <1>9, <1>10, <1>11, <1>12, <1>13, <1>14 DEF R!Next

\* A role stays sound when nobody begins to change or delete it, nobody comes to a step
\* at which its row is part done, and while it is being deleted nobody is given it.
LEMMA SoundStays ==
    ASSUME NEW r \in R!Ids, Sound(r), role'[r] = role[r], meant'[r] = meant[r],
           \A u \in Users : <<u, r>> \in due' => <<u, r>> \in held',
           \A c \in RoleCalls :
               /\ Does(c, r, R!Changing)' => Does(c, r, R!Changing)
               /\ Does(c, r, R!Deleting)' => Does(c, r, R!Deleting)
               /\ Does(c, r, {"fill", "drop"})' <=> Does(c, r, {"fill", "drop"}),
           \/ \A c \in RoleCalls : ~ Does(c, r, R!Deleting)
           \/ /\ \A u \in Users : <<u, r>> \in due' => <<u, r>> \in due
              /\ \A c \in RoleCalls : Does(c, r, R!Giving)' => Does(c, r, R!Giving)
    PROVE  Sound(r)'
  <1>1. \A c \in RoleCalls : \A s, t : Does(c, r, s \cup t) <=> Does(c, r, s) \/ Does(c, r, t)
    BY DEF Does
  <1>2. \A c \in RoleCalls : \A s, t : Does(c, r, s \cup t)' <=> Does(c, r, s)' \/ Does(c, r, t)'
    BY DEF Does
  <1>3. Alone(r)'
    BY <1>1, <1>2 DEF Sound, Alone
  <1>4. PermitsSoFar(r)'
    BY DEF Sound, PermitsSoFar, R!Exists
  <1>5. Unheld(r)'
    BY DEF Sound, Unheld
  <1>6. Kept(r)'
    BY DEF Kept
  <1> QED
    BY <1>3, <1>4, <1>5, <1>6 DEF Sound

\* What calls that begin, go on and end do to the roles.
LEMMA RolesStaySound ==
    ASSUME RoleInv, [R!Next]_(R!vars), NEW r \in R!Ids
    PROVE  Empty(r)' /\ (r \notin crossed' => Sound(r)')
  <1> DEFINE Goal == Empty(r)' /\ (r \notin crossed' => Sound(r)')
  <1>1. /\ Empty(r) /\ (r \notin crossed => Sound(r)) /\ RoleTypes
        /\ \A u \in Users : r \notin crossed /\ <<u, r>> \in due => <<u, r>> \in held
    BY DEF RoleInv, Sound, Kept
  <1>2. /\ \A c \in RoleCalls : \A s, t : Does(c, r, s \cup t) <=> Does(c, r, s) \/ Does(c, r, t)
        /\ \A c \in RoleCalls : \A s, t : Does(c, r, s \cup t)' <=> Does(c, r, s)' \/ Does(c, r, t)'
    BY DEF Does
  <1>3. \A c \in RoleCalls : roleCall[c].pc = "idle" => \A s : ~ Does(c, r, s)
    BY DEF RoleInv, RoleTypes, Does
  <1>4. roleCall' = roleCall => \A c \in RoleCalls : \A s : Does(c, r, s)' <=> Does(c, r, s)
    BY DEF Does
  <1> DEFINE Other == /\ role'[r] = role[r] /\ meant'[r] = meant[r] /\ crossed \subseteq crossed'
                      /\ \A u \in Users : /\ <<u, r>> \in due' => <<u, r>> \in due
                                          /\ <<u, r>> \in held /\ <<u, r>> \in due' => <<u, r>> \in held'
                      /\ \A c \in RoleCalls : \A s : Does(c, r, s)' => Does(c, r, s)
                      /\ \A c \in RoleCalls : Does(c, r, {"fill", "drop"}) =>
                             r \in crossed' \/ Does(c, r, {"fill", "drop"})'
  <1>5. ASSUME Other PROVE Goal
    <2>1. Empty(r)'
      BY <1>1, <1>5 DEF Empty, R!Exists
    <2>2. r \notin crossed' => Sound(r)'
      BY <1>1, <1>5, SoundStays
    <2> QED
      BY <2>1, <2>2
  <1>6. ASSUME NEW q \in R!Ids, NEW permits \in SUBSET Permissions, R!CreateCustomRole(q, permits)
        PROVE  Goal
    <2>1. /\ \A c \in RoleCalls : q \notin roleCall[c].roles
          /\ role' = [role EXCEPT ![q] = [exists |-> TRUE, permits |-> permits]]
          /\ meant' = [meant EXCEPT ![q] = permits]
          /\ UNCHANGED <<users, held, roleCall, due, crossed>>
      BY <1>6 DEF R!CreateCustomRole
    <2>2. CASE r # q
      <3>1. Other
        BY <1>1, <1>4, <2>1, <2>2 DEF RoleTypes
      <3> QED
        BY <1>5, <3>1
    <2>3. CASE r = q
      <3>1. \A c \in RoleCalls : \A s : ~ Does(c, r, s)'
        BY <1>4, <2>1, <2>3 DEF Does
      <3>2. role'[r] = [exists |-> TRUE, permits |-> permits] /\ meant'[r] = permits
        BY <1>1, <2>1, <2>3 DEF RoleTypes
      <3>3. Empty(r)'
        BY <3>2 DEF Empty, R!Exists
      <3>4. r \notin crossed' => Sound(r)'
        BY <1>1, <2>1, <3>1, <3>2 DEF Sound, Alone, PermitsSoFar, Unheld, Kept, R!Exists
      <3> QED
        BY <3>3, <3>4
    <2> QED
      BY <2>2, <2>3
  <1>7. ASSUME NEW u \in Users, NEW ids \in SUBSET R!Ids, R!RemoveRoles(u, ids) PROVE Goal
    <2>1. Other
      BY <1>4, <1>7 DEF R!RemoveRoles
    <2> QED
      BY <1>5, <2>1
  <1>8. ASSUME NEW c \in RoleCalls, NEW q \in R!Ids, NEW permits \in SUBSET Permissions,
               R!FindForUpdate(c, q, permits)
        PROVE  Goal
    <2>1. /\ roleCall[c].pc = "idle" /\ R!Exists(q)
          /\ R!Begins(c, "clear", "none", {q}, permits)
          /\ crossed' = crossed \cup R!InWork(c, {q}, R!Changing \cup R!Deleting)
          /\ UNCHANGED <<users, role, held, meant, due>>
      BY <1>8 DEF R!FindForUpdate, R!Cross
    <2>0. \A d \in RoleCalls : \A s : Does(d, r, s)' <=> IF d = c THEN r \in {q} /\ "clear" \in s
                                                                  ELSE Does(d, r, s)
      BY <1>1, <2>1, RoleCallBegins
    <2>2. \A d \in RoleCalls : \A s : Does(d, r, s)' <=> IF d = c THEN r = q /\ "clear" \in s
                                                                  ELSE Does(d, r, s)
      BY <2>0
    <2>3. CASE r # q
      <3>1. Other
        BY <1>3, <2>1, <2>2, <2>3
      <3> QED
        BY <1>5, <3>1
    <2>4. CASE r = q /\ r \notin crossed'
      <3>1. \A d \in RoleCalls : ~ Does(d, r, R!Changing \cup R!Deleting)
        BY <1>3, <2>1, <2>4 DEF R!InWork, Does
      <3>2. /\ \A d \in RoleCalls : ~ Does(d, r, R!Deleting)' /\ ~ Does(d, r, {"fill", "drop"})'
            /\ \A d \in RoleCalls : ~ Does(d, r, {"fill", "drop"})
            /\ \A d \in RoleCalls : Does(d, r, R!Changing \cup R!Deleting)' => d = c
        <4>1. \A d \in RoleCalls : ~ Does(d, r, {"fill", "drop"}) /\ ~ Does(d, r, R!Deleting)
          BY <3>1, StepsAre DEF Does
        <4> QED
          BY <2>2, <3>1, <4>1, StepsAre
      <3>3. Sound(r)
        BY <1>1, <2>1, <2>4
      <3>4. Sound(r)'
        BY <2>1, <2>4, <3>2, <3>3 DEF Sound, Alone, PermitsSoFar, Unheld, Kept, R!Exists
      <3> QED
        BY <1>1, <2>1, <3>4 DEF Empty, R!Exists
    <2> QED
      BY <1>1, <2>1, <2>3, <2>4 DEF Empty, R!Exists
  <1>9. ASSUME NEW c \in RoleCalls, NEW q \in R!Ids, R!FindForDelete(c, q) PROVE Goal
    <2>1. /\ roleCall[c].pc = "idle" /\ \A u \in Users : <<u, q>> \notin held
          /\ R!Begins(c, "strip", "none", {q}, {})
          /\ crossed' = crossed \cup R!InWork(c, {q}, R!Changing \cup R!Deleting \cup R!Giving)
          /\ UNCHANGED <<users, role, held, meant, due>>
      BY <1>9 DEF R!FindForDelete, R!Cross, R!Deletable
    <2>0. \A d \in RoleCalls : \A s : Does(d, r, s)' <=> IF d = c THEN r \in {q} /\ "strip" \in s
                                                                  ELSE Does(d, r, s)
      BY <1>1, <2>1, RoleCallBegins
    <2>2. \A d \in RoleCalls : \A s : Does(d, r, s)' <=> IF d = c THEN r = q /\ "strip" \in s
                                                                  ELSE Does(d, r, s)
      BY <2>0
    <2>3. CASE r # q
      <3>1. Other
        BY <1>3, <2>1, <2>2, <2>3
      <3> QED
        BY <1>5, <3>1
    <2>4. CASE r = q /\ r \notin crossed'
      <3>1. \A d \in RoleCalls : ~ Does(d, r, R!Changing \cup R!Deleting \cup R!Giving)
        BY <1>3, <2>1, <2>4 DEF R!InWork, Does
      <3>2. \A d \in RoleCalls : /\ ~ Does(d, r, {"fill", "drop"}) /\ ~ Does(d, r, R!Deleting)
                                 /\ ~ Does(d, r, R!Changing) /\ ~ Does(d, r, R!Giving)
        BY <3>1, StepsAre DEF Does
      <3>3. /\ \A d \in RoleCalls : ~ Does(d, r, R!Changing)' /\ ~ Does(d, r, {"fill", "drop"})'
            /\ \A d \in RoleCalls : ~ Does(d, r, R!Giving)'
            /\ \A d \in RoleCalls : Does(d, r, R!Changing \cup R!Deleting)' => d = c
        BY <2>2, <3>1, <3>2, <1>2, StepsAre
      <3>4. Sound(r) /\ \A u \in Users : <<u, r>> \notin due
        BY <1>1, <2>1, <2>4 DEF Sound, Kept
      <3>5. Sound(r)'
        BY <2>1, <2>4, <3>2, <3>3, <3>4 DEF Sound, Alone, PermitsSoFar, Unheld, Kept, R!Exists
      <3> QED
        BY <1>1, <2>1, <3>5 DEF Empty, R!Exists
    <2> QED
      BY <1>1, <2>1, <2>3, <2>4 DEF Empty, R!Exists
  <1>10. ASSUME NEW c \in RoleCalls, NEW u \in Users, NEW stage \in {"assign", "look"},
                NEW ids \in SUBSET R!Ids,
                /\ roleCall[c].pc = "idle"
                /\ R!Begins(c, stage, u, ids, {})
                /\ crossed' = crossed \cup R!InWork(c, ids, R!Deleting)
                /\ UNCHANGED <<role, meant>>
                /\ \/ UNCHANGED <<held, due>>
                   \/ held' = {h \in held : h[1] # u} /\ due' = {h \in due : h[1] # u}
         PROVE  Goal
    <2>1. \A d \in RoleCalls : \A s : Does(d, r, s)' <=> IF d = c THEN r \in ids /\ stage \in s
                                                                  ELSE Does(d, r, s)
      BY <1>1, <1>10, RoleCallBegins
    <2>2. CASE r \notin ids
      <3>1. Other
        BY <1>3, <1>10, <2>1, <2>2
      <3> QED
        BY <1>5, <3>1
    <2>3. CASE r \in ids /\ r \notin crossed'
      <3>1. \A d \in RoleCalls : ~ Does(d, r, R!Deleting)
        BY <1>3, <1>10, <2>3 DEF R!InWork, Does
      <3>2. \A d \in RoleCalls : /\ Does(d, r, R!Changing)' => Does(d, r, R!Changing)
                                 /\ Does(d, r, R!Deleting)' => Does(d, r, R!Deleting)
                                 /\ Does(d, r, {"fill", "drop"})' <=> Does(d, r, {"fill", "drop"})
        BY <1>3, <1>10, <2>1, StepsAre
      <3>3. /\ Sound(r) /\ role'[r] = role[r] /\ meant'[r] = meant[r]
            /\ \A v \in Users : <<v, r>> \in due' => <<v, r>> \in held'
        BY <1>1, <1>10, <2>3
      <3>4. Sound(r)'
        BY <3>1, <3>2, <3>3, SoundStays
      <3> QED
        BY <1>1, <1>10, <3>4 DEF Empty, R!Exists
    <2> QED
      BY <1>1, <1>10, <2>2, <2>3 DEF Empty, R!Exists
  <1>11. ASSUME NEW c \in RoleCalls, NEW u \in Users,
                \/ \E ids \in SUBSET R!Ids : R!FindForAssign(c, u, ids)
                \/ \E q \in R!Ids : R!InviteUser(c, u, q) \/ R!UpdateUserRole(c, u, q)
         PROVE  Goal
    <2>1. ASSUME NEW ids \in SUBSET R!Ids, R!FindForAssign(c, u, ids) PROVE Goal
      BY <1>10, <2>1 DEF R!FindForAssign, R!Cross
    <2>2. ASSUME NEW q \in R!Ids, R!InviteUser(c, u, q) \/ R!UpdateUserRole(c, u, q) PROVE Goal
      <3>1. {q} \in SUBSET R!Ids
        OBVIOUS
      <3> QED
        BY <1>10, <2>2, <3>1 DEF R!InviteUser, R!UpdateUserRole, R!Cross
    <2> QED
      BY <1>11, <2>1, <2>2
  <1>12. ASSUME NEW c \in RoleCalls, R!ClearPermissions(c) \/ R!StripPermissions(c) PROVE Goal
    <2>1. PICK stage \in {"fill", "drop"} :
            /\ R!Goes(c, stage)
            /\ IF stage = "fill" THEN roleCall[c].pc = "clear" ELSE roleCall[c].pc = "strip"
            /\ role' = [q \in R!Ids |-> IF q \in roleCall[c].roles
                                       THEN [role[q] EXCEPT !.permits = {}] ELSE role[q]]
            /\ UNCHANGED <<users, held, meant, due, crossed>>
      BY <1>12 DEF R!ClearPermissions, R!StripPermissions
    <2>2. stage \in RoleStages
      BY StepsAre DEF RoleSteps
    <2>3. \A d \in RoleCalls : \A s : Does(d, r, s)' <=>
             IF d = c THEN r \in roleCall[c].roles /\ stage \in s ELSE Does(d, r, s)
      BY <1>1, <2>1, <2>2, RoleCallGoes
    <2>4. CASE r \notin roleCall[c].roles
      <3>1. Other
        BY <2>1, <2>3, <2>4 DEF Does
      <3> QED
        BY <1>5, <3>1
    <2>5. CASE r \in roleCall[c].roles
      <3>1. role'[r].permits = {} /\ role'[r].exists = role[r].exists
        BY <1>1, <2>1, <2>5 DEF RoleTypes
      <3>2. Empty(r)'
        BY <1>1, <2>1, <3>1 DEF Empty, R!Exists
      <3>3. ASSUME r \notin crossed' PROVE Sound(r)'
        <4>1. Sound(r)
          BY <1>1, <2>1, <3>3
        <4>2. \A d \in RoleCalls : /\ Does(d, r, R!Changing)' <=> Does(d, r, R!Changing)
                                   /\ Does(d, r, R!Deleting)' <=> Does(d, r, R!Deleting)
                                   /\ Does(d, r, R!Giving)' <=> Does(d, r, R!Giving)
          BY <2>1, <2>3, <2>5, StepsAre DEF Does
        <4>3. Does(c, r, {"fill", "drop"})'
          BY <2>3, <2>5
        <4>4. Alone(r)'
          BY <1>2, <4>1, <4>2 DEF Sound, Alone
        <4>5. PermitsSoFar(r)'
          BY <3>1, <4>1, <4>2, <4>3 DEF Sound, PermitsSoFar, R!Exists
        <4>6. Unheld(r)' /\ Kept(r)'
          BY <2>1, <4>1, <4>2 DEF Sound, Unheld, Kept
        <4> QED
          BY <4>4, <4>5, <4>6 DEF Sound
      <3> QED
        BY <3>2, <3>3
    <2> QED
      BY <2>4, <2>5
  <1>13. ASSUME NEW c \in RoleCalls, R!FillPermissions(c) PROVE Goal
    <2>1. PICK q \in R!Ids : roleCall[c].roles = {q}
      BY <1>1, <1>13, StepsAre DEF RoleTypes, R!FillPermissions
    <2>2. (CHOOSE x \in roleCall[c].roles : TRUE) = q
      BY <2>1
    <2>3. /\ roleCall[c].pc = "fill" /\ R!Ends(c)
          /\ UNCHANGED <<users, held, due, crossed>>
          /\ IF R!Exists(q)
             THEN /\ role' = [role EXCEPT ![q].permits = @ \cup roleCall[c].permits]
                  /\ meant' = [meant EXCEPT ![q] = roleCall[c].permits]
             ELSE UNCHANGED <<role, meant>>
      BY <1>13, <2>2 DEF R!FillPermissions
    <2>4. \A d \in RoleCalls : \A s : Does(d, r, s)' <=> d # c /\ Does(d, r, s)
      BY <1>1, <2>3, RoleCallEnds
    <2>5. CASE r # q
      <3>1. ~ Does(c, r, {"fill", "drop"})
        BY <2>1, <2>5 DEF Does
      <3>2. role'[r] = role[r] /\ meant'[r] = meant[r]
        BY <1>1, <2>3, <2>5 DEF RoleTypes
      <3>3. Other
        BY <2>3, <2>4, <3>1, <3>2
      <3> QED
        BY <1>5, <3>3
    <2>6. CASE r = q
      <3>1. Empty(r)'
        <4>1. CASE R!Exists(q)
          BY <1>1, <2>3, <2>6, <4>1 DEF Empty, R!Exists, RoleTypes
        <4>2. CASE ~ R!Exists(q)
          BY <1>1, <2>3, <4>2 DEF Empty, R!Exists
        <4> QED
          BY <4>1, <4>2
      <3>2. ASSUME r \notin crossed' PROVE Sound(r)'
        <4>1. Sound(r)
          BY <1>1, <2>3, <3>2
        <4>2. /\ Does(c, r, R!Changing) /\ Does(c, r, {"fill", "drop"})
              /\ Does(c, r, R!Changing \cup R!Deleting)
          BY <2>1, <2>3, <2>6, StepsAre DEF Does
        <4>3. R!Exists(r) /\ role[r].permits = {}
          BY <4>1, <4>2 DEF Sound, PermitsSoFar
        <4>4. role'[r].permits = meant'[r]
          BY <1>1, <2>3, <2>6, <4>3 DEF RoleTypes
        <4>5. \A d \in RoleCalls \ {c} : ~ Does(d, r, R!Changing \cup R!Deleting)
          BY <4>1, <4>2 DEF Sound, Alone
        <4>6. \A d \in RoleCalls \ {c} : /\ ~ Does(d, r, R!Changing) /\ ~ Does(d, r, R!Deleting)
                                         /\ ~ Does(d, r, {"fill", "drop"})
          BY <4>5, StepsAre DEF Does
        <4>7. Alone(r)'
          BY <2>4, <4>5, <4>6 DEF Alone
        <4>8. PermitsSoFar(r)'
          BY <2>4, <4>4, <4>6 DEF PermitsSoFar
        <4>9. Unheld(r)' /\ Kept(r)'
          BY <2>3, <2>4, <4>1, <4>6 DEF Sound, Unheld, Kept
        <4> QED
          BY <4>7, <4>8, <4>9 DEF Sound
      <3> QED
        BY <3>1, <3>2
    <2> QED
      BY <2>5, <2>6
  <1>14. ASSUME NEW c \in RoleCalls, R!DropRole(c) PROVE Goal
    <2>1. /\ roleCall[c].pc = "drop" /\ R!Ends(c)
          /\ role' = [q \in R!Ids |-> IF q \in roleCall[c].roles THEN R!Missing ELSE role[q]]
          /\ held' = {h \in held : h[2] \notin roleCall[c].roles}
          /\ meant' = [q \in R!Ids |-> IF q \in roleCall[c].roles THEN {} ELSE meant[q]]
          /\ UNCHANGED <<users, due, crossed>>
      BY <1>14 DEF R!DropRole
    <2>2. \A d \in RoleCalls : \A s : Does(d, r, s)' <=> d # c /\ Does(d, r, s)
      BY <1>1, <2>1, RoleCallEnds
    <2>3. CASE r \notin roleCall[c].roles
      <3>1. ~ Does(c, r, {"fill", "drop"})
        BY <2>3 DEF Does
      <3>2. Other
        BY <2>1, <2>2, <2>3, <3>1
      <3> QED
        BY <1>5, <3>2
    <2>4. CASE r \in roleCall[c].roles
      <3>1. role'[r] = R!Missing /\ meant'[r] = {} /\ R!Missing.permits = {}
        BY <2>1, <2>4 DEF R!Missing
      <3>2. Empty(r)'
        BY <3>1 DEF Empty
      <3>3. ASSUME r \notin crossed' PROVE Sound(r)'
        <4>1. Sound(r)
          BY <1>1, <2>1, <3>3
        <4>2. Does(c, r, R!Deleting) /\ Does(c, r, R!Changing \cup R!Deleting)
          BY <2>1, <2>4, StepsAre DEF Does
        <4>3. \A d \in RoleCalls \ {c} : ~ Does(d, r, R!Changing \cup R!Deleting)
          BY <4>1, <4>2 DEF Sound, Alone
        <4>4. \A d \in RoleCalls \ {c} : /\ ~ Does(d, r, R!Changing) /\ ~ Does(d, r, R!Deleting)
                                         /\ ~ Does(d, r, {"fill", "drop"})
          BY <4>3, StepsAre DEF Does
        <4>5. Alone(r)'
          BY <2>2, <4>3, <4>4 DEF Alone
        <4>6. PermitsSoFar(r)'
          BY <2>2, <3>1, <4>4 DEF PermitsSoFar
        <4>7. Unheld(r)' /\ Kept(r)'
          BY <2>1, <2>2, <4>1, <4>2, <4>4 DEF Sound, Unheld, Kept
        <4> QED
          BY <4>5, <4>6, <4>7 DEF Sound
      <3> QED
        BY <3>2, <3>3
    <2> QED
      BY <2>3, <2>4
  <1>15. ASSUME NEW c \in RoleCalls, R!AssignRoles(c) \/ R!GiveRole(c) PROVE Goal
    <2>1. /\ roleCall[c].pc \in R!Giving /\ R!Ends(c)
          /\ UNCHANGED <<users, role, meant, crossed>>
          /\ R!Give(c) \/ UNCHANGED <<held, due>>
      BY <1>15, StepsAre DEF R!AssignRoles, R!GiveRole
    <2>2. \A d \in RoleCalls : \A s : Does(d, r, s)' <=> d # c /\ Does(d, r, s)
      BY <1>1, <2>1, RoleCallEnds
    <2>3. ~ Does(c, r, {"fill", "drop"})
      BY <2>1, StepsAre DEF Does
    <2>4. CASE r \notin roleCall[c].roles \/ UNCHANGED <<held, due>>
      <3>1. Other
        BY <2>1, <2>2, <2>3, <2>4 DEF R!Give
      <3> QED
        BY <1>5, <3>1
    <2>5. CASE r \in roleCall[c].roles /\ r \notin crossed' /\ R!Give(c)
      <3>1. Sound(r) /\ Does(c, r, R!Giving)
        BY <1>1, <2>1, <2>5 DEF Does
      <3>2. \A d \in RoleCalls : ~ Does(d, r, R!Deleting)
        BY <3>1 DEF Sound, Alone
      <3>3. \A u \in Users : <<u, r>> \in due' => <<u, r>> \in held'
        BY <1>1, <2>1, <2>5 DEF R!Give
      <3>4. Sound(r)'
        BY <2>1, <2>2, <2>3, <3>1, <3>2, <3>3, SoundStays
      <3> QED
        BY <1>1, <2>1, <3>4 DEF Empty, R!Exists
    <2> QED
      BY <1>1, <2>1, <2>4, <2>5 DEF Empty, R!Exists
  <1>16. ASSUME NEW c \in RoleCalls, R!LookForRole(c) PROVE Goal
    <2>1. PICK stage \in {"give", "make"} :
            roleCall[c].pc = "look" /\ R!Goes(c, stage) /\ UNCHANGED <<role, held, meant, due, crossed>>
      BY <1>16 DEF R!LookForRole
    <2>2. stage \in RoleStages
      BY StepsAre DEF RoleSteps
    <2>3. \A d \in RoleCalls : \A s : Does(d, r, s)' <=>
             IF d = c THEN r \in roleCall[c].roles /\ stage \in s ELSE Does(d, r, s)
      BY <1>1, <2>1, <2>2, RoleCallGoes
    <2>4. \A d \in RoleCalls : /\ Does(d, r, R!Changing)' <=> Does(d, r, R!Changing)
                               /\ Does(d, r, R!Deleting)' <=> Does(d, r, R!Deleting)
                               /\ Does(d, r, R!Giving)' <=> Does(d, r, R!Giving)
                               /\ Does(d, r, {"fill", "drop"})' <=> Does(d, r, {"fill", "drop"})
      BY <2>1, <2>3, StepsAre DEF Does
    <2>5. r \notin crossed' => Sound(r)'
      BY <1>1, <2>1, <2>4, SoundStays
    <2> QED
      BY <1>1, <2>1, <2>5 DEF Empty, R!Exists
  <1>17. ASSUME NEW c \in RoleCalls, R!MakeRole(c) PROVE Goal
    <2>1. roleCall[c].pc = "make" /\ UNCHANGED <<held, meant, due, crossed>>
      BY <1>17 DEF R!MakeRole
    <2>2. CASE UNCHANGED role /\ R!Ends(c)
      <3>1. \A d \in RoleCalls : \A s : Does(d, r, s)' <=> d # c /\ Does(d, r, s)
        BY <1>1, <2>2, RoleCallEnds
      <3>2. ~ Does(c, r, {"fill", "drop"})
        BY <2>1 DEF Does
      <3>3. Other
        BY <2>1, <2>2, <3>1, <3>2
      <3> QED
        BY <1>5, <3>3
    <2>3. CASE /\ \A q \in roleCall[c].roles : ~ R!Exists(q)
               /\ role' = [q \in R!Ids |-> IF q \in roleCall[c].roles
                                          THEN [R!Missing EXCEPT !.exists = TRUE] ELSE role[q]]
               /\ R!Goes(c, "give")
      <3>1. "give" \in RoleStages
        BY StepsAre DEF RoleSteps
      <3>2. \A d \in RoleCalls : \A s : Does(d, r, s)' <=>
               IF d = c THEN r \in roleCall[c].roles /\ "give" \in s ELSE Does(d, r, s)
        BY <1>1, <2>3, <3>1, RoleCallGoes
      <3>3. \A d \in RoleCalls : /\ Does(d, r, R!Changing)' <=> Does(d, r, R!Changing)
                                 /\ Does(d, r, R!Deleting)' <=> Does(d, r, R!Deleting)
                                 /\ Does(d, r, R!Giving)' <=> Does(d, r, R!Giving)
                                 /\ Does(d, r, {"fill", "drop"})' <=> Does(d, r, {"fill", "drop"})
        BY <2>1, <3>2, StepsAre DEF Does
      <3>4. CASE r \notin roleCall[c].roles
        <4>1. role'[r] = role[r]
          BY <2>3, <3>4
        <4>2. r \notin crossed' => Sound(r)'
          BY <1>1, <2>1, <3>3, <4>1, SoundStays
        <4> QED
          BY <1>1, <2>1, <4>1, <4>2 DEF Empty, R!Exists
      <3>5. CASE r \in roleCall[c].roles
        <4>1. role'[r].exists = TRUE /\ role'[r].permits = {} /\ meant[r] = {} /\ ~ R!Exists(r)
          BY <1>1, <2>3, <3>5 DEF R!Missing, Empty
        <4>2. Empty(r)'
          BY <4>1 DEF Empty, R!Exists
        <4>3. ASSUME r \notin crossed' PROVE Sound(r)'
          <5>1. Sound(r)
            BY <1>1, <2>1, <4>3
          <5>2. Alone(r)'
            BY <1>2, <3>3, <5>1 DEF Sound, Alone
          <5>3. PermitsSoFar(r)'
            BY <2>1, <4>1 DEF PermitsSoFar, R!Exists
          <5>4. Unheld(r)' /\ Kept(r)'
            BY <2>1, <3>3, <5>1 DEF Sound, Unheld, Kept
          <5> QED
            BY <5>2, <5>3, <5>4 DEF Sound
        <4> QED
          BY <4>2, <4>3
      <3> QED
        BY <3>4, <3>5
    <2> QED
      BY <1>17, <2>2, <2>3 DEF R!MakeRole
  <1>18. ASSUME NEW c \in RoleCalls, R!Stop(c) PROVE Goal
    <2>1. /\ R!Ends(c) /\ UNCHANGED <<users, role, held, meant, due>>
          /\ crossed \subseteq crossed'
          /\ roleCall[c].pc \in {"fill", "drop"} => roleCall[c].roles \subseteq crossed'
      BY <1>18 DEF R!Stop, R!Cross
    <2>2. \A d \in RoleCalls : \A s : Does(d, r, s)' <=> d # c /\ Does(d, r, s)
      BY <1>1, <2>1, RoleCallEnds
    <2>3. Does(c, r, {"fill", "drop"}) => r \in crossed'
      BY <2>1 DEF Does
    <2>4. Other
      BY <2>1, <2>2, <2>3
    <2> QED
      BY <1>5, <2>4
  <1>19. CASE UNCHANGED R!vars
    <2>1. Other
      BY <1>4, <1>19 DEF R!vars
    <2> QED
      BY <1>5, <2>1
  <1> QED
    BY <1>6, <1>7, <1>8, <1>9, <1>11, <1>12, <1>13, <1>14, <1>15, <1>16, <1>17, <1>18, <1>19
    DEF R!Next

\* A role that no call is changing permits what the last call said, all of it and nothing
\* else, and no deletion takes a role from a user who has been given it, unless calls have
\* crossed each other on the role (ManageRoles.ts, updateUserRole of resolvers.ts): for
\* any users, roles, permissions and calls.
THEOREM RolesHold == R!Spec => []R!RolesSound
  <1>1. RoleInv /\ [R!Next]_(R!vars) => RoleInv'
    <2> SUFFICES ASSUME RoleInv, [R!Next]_(R!vars) PROVE RoleInv'
      OBVIOUS
    <2>1. RoleTypes'
      BY RoleTypesKept DEF RoleInv
    <2>2. \A r \in R!Ids : Empty(r)' /\ (r \notin crossed' => Sound(r)')
      BY RolesStaySound
    <2> QED
      BY <2>1, <2>2 DEF RoleInv
  <1>2. RoleInv => R!RolesSound
    <2> SUFFICES ASSUME RoleInv PROVE R!RolesSound
      OBVIOUS
    <2>1. R!PermitsStand
      <3> SUFFICES ASSUME NEW r \in R!Ids \ crossed,
                          \A c \in RoleCalls : r \in roleCall[c].roles => roleCall[c].pc \in R!Giving
                   PROVE  role[r].permits = meant[r]
        BY DEF R!PermitsStand
      <3>1. \A c \in RoleCalls : ~ Does(c, r, {"fill", "drop"})
        BY StepsAre DEF Does
      <3> QED
        BY <3>1 DEF RoleInv, Sound, PermitsSoFar
    <2>2. R!HoldersStand
      BY DEF RoleInv, RoleTypes, Sound, Kept, R!HoldersStand
    <2> QED
      BY <2>1, <2>2 DEF R!RolesSound
  <1> QED
    BY <1>1, <1>2, RolesStart, PTL DEF R!Spec

-----------------------------------------------------------------------------
(***************************************************************************)
(* The external books.  One event of a journal at a time goes from system  *)
(* to system, so what it finds unmapped nobody else posts; and what an     *)
(* audit found on record when it looked is still there, but for what was   *)
(* resolved since, which the audit does not count as reported.             *)
(***************************************************************************)
CONSTANTS Journals, Systems, Places, Auditors, Handlers, MaxLevel, MaxFound, MaxPosts
VARIABLES journals, mapped, posted, handler, level, found, audit, covered, excused

X == INSTANCE ExternalBooks

Busy == {"find", "post", "save"}

\* Which fields a record has, and which part of its system list a handler is at.
HandlerTypes ==
    /\ DOMAIN handler = Handlers
    /\ \A h \in Handlers :
           /\ handler[h] = [of |-> handler[h].of, i |-> handler[h].i, pc |-> handler[h].pc,
                            qty |-> handler[h].qty]
           /\ handler[h].pc \in Busy => handler[h].i \in 1..Len(Systems)
    /\ mapped \in [X!Kept -> SUBSET Journals]
    /\ posted \in [X!Kept -> [Journals -> Nat]]

Handles(h, j, steps) == handler[h].of = j /\ handler[h].pc \in steps

Single(j) == \A h, g \in Handlers : Handles(h, j, Busy) /\ Handles(g, j, Busy) => h = g

\* What was posted is mapped, or its one event is about to map it.
Mapping(j) ==
    /\ \A s \in X!Kept :
           /\ posted[s][j] <= 1
           /\ \/ posted[s][j] = 0
              \/ j \in mapped[s]
              \/ \E h \in Handlers : Handles(h, j, {"save"}) /\ Systems[handler[h].i] = s
    /\ \A h \in Handlers : Handles(h, j, {"post"}) => j \notin mapped[Systems[handler[h].i]]

PostingInv == HandlerTypes /\ \A j \in Journals \ excused : Single(j) /\ Mapping(j)

\* The systems of an event.
LEMMA EventSystem ==
    ASSUME Systems \in Seq(X!Kept), HandlerTypes, NEW h \in Handlers, handler[h].pc \in Busy
    PROVE  Systems[handler[h].i] \in X!Kept /\ handler[h].i \in 1..Len(Systems)
  BY DEF HandlerTypes, X!Kept

\* What an event does next: nothing more, or it looks at the next system.
LEMMA EventGoesOn ==
    ASSUME Systems \in Seq(X!Kept), HandlerTypes, NEW h \in Handlers, handler[h].pc \in Busy
    PROVE  LET next == X!NextSystem(h)
           IN  /\ next = [of |-> next.of, i |-> next.i, pc |-> next.pc, qty |-> next.qty]
               /\ next.pc \in {"free", "find"}
               /\ next.pc = "find" => next.of = handler[h].of /\ next.i \in 1..Len(Systems)
  <1>1. handler[h].i \in 1..Len(Systems) /\ Len(Systems) \in Nat
    BY DEF HandlerTypes
  <1>2. CASE handler[h].i = Len(Systems)
    BY <1>2 DEF X!NextSystem, X!Free
  <1>3. CASE handler[h].i # Len(Systems)
    <2>1. X!NextSystem(h) = [of |-> handler[h].of, i |-> handler[h].i + 1, pc |-> "find",
                             qty |-> handler[h].qty]
      <3>1. handler[h] = [of |-> handler[h].of, i |-> handler[h].i, pc |-> handler[h].pc,
                          qty |-> handler[h].qty]
        BY DEF HandlerTypes
      <3> QED
        BY <1>3, <3>1 DEF X!NextSystem
    <2> QED
      BY <1>1, <1>3, <2>1
  <1> QED
    BY <1>2, <1>3

\* Nothing changes for the postings when no event of a journal moves.
LEMMA PostingIdle ==
    ASSUME PostingInv, UNCHANGED <<mapped, posted>>, excused \subseteq excused',
           DOMAIN handler' = Handlers,
           \A h \in Handlers :
               /\ handler'[h] = [of |-> handler'[h].of, i |-> handler'[h].i, pc |-> handler'[h].pc,
                                 qty |-> handler'[h].qty]
               /\ handler[h].pc \in Busy \/ handler'[h].pc \in Busy => handler'[h] = handler[h]
    PROVE  PostingInv'
  <1>1. HandlerTypes'
    BY DEF PostingInv, HandlerTypes
  <1>2. ASSUME NEW j \in Journals \ excused' PROVE Single(j)' /\ Mapping(j)'
    <2>1. Single(j) /\ Mapping(j)
      BY <1>2 DEF PostingInv
    <2>2. /\ \A h \in Handlers : Handles(h, j, Busy)' => Handles(h, j, Busy)
          /\ \A h \in Handlers : Handles(h, j, {"post"})' => Handles(h, j, {"post"}) /\ handler'[h] = handler[h]
          /\ \A h \in Handlers : Handles(h, j, {"save"}) => Handles(h, j, {"save"})' /\ handler'[h] = handler[h]
      BY DEF Handles, Busy
    <2> QED
      BY <2>1, <2>2 DEF Single, Mapping
  <1> QED
    BY <1>1, <1>2 DEF PostingInv

\* Nor for other journals when an event of one moves.
LEMMA OtherPostings ==
    ASSUME PostingInv, NEW h \in Handlers, NEW j \in Journals \ excused',
           excused \subseteq excused',
           handler[h].pc = "free" \/ handler[h].of # j,
           handler'[h].pc = "free" \/ handler'[h].of # j,
           \A g \in Handlers \ {h} : handler'[g] = handler[g],
           \A s \in X!Kept : posted'[s][j] = posted[s][j] /\ (j \in mapped'[s] <=> j \in mapped[s]),
           \A g \in Handlers : handler[g].pc \in Busy => Systems[handler[g].i] \in X!Kept
    PROVE  Single(j)' /\ Mapping(j)'
  <1>1. Single(j) /\ Mapping(j)
    BY DEF PostingInv
  <1>2. \A g \in Handlers : \A s \in SUBSET Busy :
           (Handles(g, j, s)' <=> Handles(g, j, s)) /\ (Handles(g, j, s) => g # h)
    BY DEF Handles, Busy
  <1>3. Busy \in SUBSET Busy /\ {"save"} \in SUBSET Busy /\ {"post"} \in SUBSET Busy
    BY DEF Busy
  <1>4. Single(j)'
    BY <1>1, <1>2, <1>3 DEF Single
  <1>5. \A g \in Handlers : Handles(g, j, {"post"}) => Systems[handler[g].i] \in X!Kept
    BY DEF Handles, Busy
  <1>6. Mapping(j)'
    BY <1>1, <1>2, <1>3, <1>5 DEF Mapping
  <1> QED
    BY <1>4, <1>6

LEMMA PostingsStep ==
    ASSUME Systems \in Seq(X!Kept), Systems # <<>>, PostingInv, [X!Next]_(X!vars)
    PROVE  PostingInv'
  <1>1. /\ HandlerTypes
        /\ \A j \in Journals \ excused : Single(j) /\ Mapping(j)
        /\ \A g \in Handlers : handler[g].pc \in Busy => Systems[handler[g].i] \in X!Kept
    BY EventSystem DEF PostingInv
  <1>2. Len(Systems) \in Nat /\ 1 \in 1..Len(Systems)
    OBVIOUS
  <1> DEFINE Entry(e) == /\ e = [of |-> e.of, i |-> e.i, pc |-> e.pc, qty |-> e.qty]
                         /\ e.pc \in Busy => e.i \in 1..Len(Systems)
  <1>3. ASSUME NEW h \in Handlers, NEW e, handler' = [handler EXCEPT ![h] = e]
        PROVE  /\ DOMAIN handler' = Handlers /\ handler'[h] = e
               /\ \A g \in Handlers \ {h} : handler'[g] = handler[g]
    BY <1>1, <1>3 DEF HandlerTypes
  <1>4. ASSUME NEW h \in Handlers, NEW e, Entry(e), handler' = [handler EXCEPT ![h] = e],
               mapped' \in [X!Kept -> SUBSET Journals], posted' \in [X!Kept -> [Journals -> Nat]]
        PROVE  HandlerTypes'
    BY <1>1, <1>3, <1>4 DEF HandlerTypes
  <1>5. ASSUME NEW h \in Handlers, NEW e, Entry(e), handler' = [handler EXCEPT ![h] = e],
               handler[h].pc \notin Busy, e.pc \notin Busy,
               UNCHANGED <<mapped, posted>>, excused \subseteq excused'
        PROVE  PostingInv'
    <2>1. /\ DOMAIN handler' = Handlers /\ handler'[h] = e
          /\ \A g \in Handlers \ {h} : handler'[g] = handler[g]
      BY <1>3, <1>5
    <2>2. \A g \in Handlers :
               /\ handler'[g] = [of |-> handler'[g].of, i |-> handler'[g].i, pc |-> handler'[g].pc,
                                 qty |-> handler'[g].qty]
               /\ handler[g].pc \in Busy \/ handler'[g].pc \in Busy => handler'[g] = handler[g]
      BY <1>1, <1>5, <2>1 DEF HandlerTypes
    <2> QED
      BY <1>5, <2>1, <2>2, PostingIdle
  <1>6. ASSUME UNCHANGED <<mapped, posted, handler>>, excused \subseteq excused' PROVE PostingInv'
    BY <1>1, <1>6, PostingIdle DEF HandlerTypes
  <1> HIDE DEF Entry
  <1>7. ASSUME NEW h \in Handlers, NEW j \in Journals, X!CreateJournalEntry(j, h) PROVE PostingInv'
    <2> DEFINE e == [of |-> j, i |-> 1, pc |-> "find", qty |-> 0]
    <2>1. /\ handler[h].pc = "free" /\ handler' = [handler EXCEPT ![h] = e]
          /\ UNCHANGED <<mapped, posted>> /\ excused \subseteq excused'
          /\ j \notin excused' => \A g \in Handlers : handler[g].of # j
      BY <1>7 DEF X!CreateJournalEntry, X!InHands
    <2>2. handler'[h] = e /\ \A g \in Handlers \ {h} : handler'[g] = handler[g]
      BY <1>3, <2>1
    <2>3. HandlerTypes'
      <3>1. Entry(e)
        BY <1>2 DEF Entry
      <3> QED
        BY <1>1, <1>4, <2>1, <3>1 DEF HandlerTypes
    <2>4. ASSUME NEW k \in Journals \ excused', k # j PROVE Single(k)' /\ Mapping(k)'
      BY <1>1, <2>1, <2>2, <2>4, OtherPostings
    <2>5. ASSUME j \notin excused' PROVE Single(j)' /\ Mapping(j)'
      <3>1. /\ \A g \in Handlers \ {h} : \A s : ~ Handles(g, j, s)'
            /\ ~ Handles(h, j, {"post"})' /\ ~ Handles(h, j, {"save"})'
            /\ \A g \in Handlers : ~ Handles(g, j, {"save"})
        BY <2>1, <2>2, <2>5 DEF Handles
      <3>2. Single(j)'
        BY <3>1 DEF Single
      <3>3. Mapping(j) /\ \A g \in Handlers : ~ Handles(g, j, {"post"})'
        BY <1>1, <2>1, <2>5, <3>1
      <3>4. Mapping(j)'
        BY <2>1, <3>1, <3>3 DEF Mapping
      <3> QED
        BY <3>2, <3>4
    <2> QED
      BY <2>3, <2>4, <2>5 DEF PostingInv
  <1>8. ASSUME NEW h \in Handlers, X!FindMapping(h) PROVE PostingInv'
    <2>1. PICK e : /\ handler' = [handler EXCEPT ![h] = e] /\ Entry(e)
                   /\ handler[h].pc = "find" /\ handler[h].of \in Journals
                   /\ e.pc = "free" \/ e.of = handler[h].of
                   /\ e.pc \in {"free", "find", "post"}
                   /\ e.pc = "post" => /\ e.i = handler[h].i
                                       /\ e.of \notin mapped[Systems[handler[h].i]]
                   /\ UNCHANGED <<mapped, posted, excused>>
      <3>1. handler[h].pc \in Busy /\ handler[h].pc = "find" /\ handler[h].of \in Journals
        BY <1>8 DEF X!FindMapping, X!At, Busy
      <3>2. CASE X!Needs(handler[h].of, Systems[handler[h].i])
        <4> DEFINE e == [handler[h] EXCEPT !.pc = "post"]
        <4>1. handler[h] = [of |-> handler[h].of, i |-> handler[h].i, pc |-> handler[h].pc,
                            qty |-> handler[h].qty] /\ handler[h].i \in 1..Len(Systems)
          BY <1>1, <3>1 DEF HandlerTypes
        <4>2. e = [of |-> handler[h].of, i |-> handler[h].i, pc |-> "post", qty |-> handler[h].qty]
          BY <4>1
        <4>3. handler' = [handler EXCEPT ![h] = e] /\ UNCHANGED <<mapped, posted, excused>>
              /\ handler[h].of \notin mapped[Systems[handler[h].i]]
          BY <1>8, <3>2 DEF X!FindMapping, X!Goes, X!Needs
        <4> HIDE DEF e
        <4> QED
          BY <3>1, <4>1, <4>2, <4>3 DEF Entry
      <3>3. CASE ~ X!Needs(handler[h].of, Systems[handler[h].i])
        <4>1. handler' = [handler EXCEPT ![h] = X!NextSystem(h)] /\ UNCHANGED <<mapped, posted, excused>>
          BY <1>8, <3>3 DEF X!FindMapping, X!Goes
        <4> QED
          BY <1>1, <3>1, <4>1, EventGoesOn DEF Entry, Busy
      <3> QED
        BY <3>2, <3>3
    <2>2. handler'[h] = e /\ \A g \in Handlers \ {h} : handler'[g] = handler[g]
      BY <1>3, <2>1
    <2>3. HandlerTypes'
      BY <1>1, <1>4, <2>1 DEF HandlerTypes
    <2>4. ASSUME NEW k \in Journals \ excused', k # handler[h].of PROVE Single(k)' /\ Mapping(k)'
      BY <1>1, <2>1, <2>2, <2>4, OtherPostings
    <2>5. ASSUME NEW k \in Journals \ excused', k = handler[h].of PROVE Single(k)' /\ Mapping(k)'
      <3>1. Single(k) /\ Mapping(k)
        BY <1>1, <2>1, <2>5
      <3>2. \A g \in Handlers : Handles(g, k, Busy)' => Handles(g, k, Busy)
        BY <2>1, <2>2, <2>5 DEF Handles, Busy
      <3>3. \A g \in Handlers \ {h} : \A s : /\ Handles(g, k, s)' <=> Handles(g, k, s)
                                             /\ handler'[g] = handler[g]
        BY <2>2 DEF Handles
      <3>4. ~ Handles(h, k, {"save"}) /\ ~ Handles(h, k, {"save"})'
        BY <2>1, <2>2 DEF Handles
      <3>5. Handles(h, k, {"post"})' => k \notin mapped[Systems[handler'[h].i]]
        BY <2>1, <2>2, <2>5 DEF Handles
      <3>6. Single(k)'
        BY <3>1, <3>2 DEF Single
      <3>7. Mapping(k)'
        BY <2>1, <3>1, <3>3, <3>4, <3>5 DEF Mapping
      <3> QED
        BY <3>6, <3>7
    <2> QED
      BY <2>3, <2>4, <2>5 DEF PostingInv
  <1>9. ASSUME NEW h \in Handlers, X!PostJournal(h) PROVE PostingInv'
    <2> DEFINE e == [handler[h] EXCEPT !.pc = "save"]
    <2>1. PICK j \in Journals, s \in X!Kept :
            /\ handler[h].of = j /\ Systems[handler[h].i] = s /\ handler[h].pc = "post"
            /\ handler' = [handler EXCEPT ![h] = e]
            /\ posted' = [posted EXCEPT ![s][j] = @ + 1]
            /\ UNCHANGED <<mapped, excused>>
      <3>1. handler[h].of \in Journals /\ handler[h].pc = "post" /\ handler[h].pc \in Busy
        BY <1>9 DEF X!PostJournal, X!At, Busy
      <3> QED
        BY <1>1, <1>9, <3>1 DEF X!PostJournal, X!Goes
    <2>2. /\ e.of = j /\ e.i = handler[h].i /\ e.pc = "save" /\ Entry(e)
      <3>1. handler[h] = [of |-> handler[h].of, i |-> handler[h].i, pc |-> handler[h].pc,
                          qty |-> handler[h].qty] /\ handler[h].i \in 1..Len(Systems)
        BY <1>1, <2>1 DEF HandlerTypes, Busy
      <3> QED
        BY <2>1, <3>1 DEF Entry
    <2> HIDE DEF e
    <2>3. handler'[h] = e /\ \A g \in Handlers \ {h} : handler'[g] = handler[g]
      BY <1>3, <2>1
    <2>4. /\ posted' \in [X!Kept -> [Journals -> Nat]] /\ posted'[s][j] = posted[s][j] + 1
          /\ \A t \in X!Kept, k \in Journals : t # s \/ k # j => posted'[t][k] = posted[t][k]
      BY <1>1, <2>1 DEF HandlerTypes
    <2>5. HandlerTypes'
      BY <1>1, <1>4, <2>1, <2>2, <2>4 DEF HandlerTypes
    <2>6. ASSUME NEW k \in Journals \ excused', k # j PROVE Single(k)' /\ Mapping(k)'
      BY <1>1, <2>1, <2>2, <2>3, <2>4, <2>6, OtherPostings
    <2>7. ASSUME j \notin excused' PROVE Single(j)' /\ Mapping(j)'
      <3>1. Single(j) /\ Mapping(j)
        BY <1>1, <2>1, <2>7
      <3>2. Handles(h, j, Busy) /\ Handles(h, j, {"post"}) /\ ~ Handles(h, j, {"save"})
        BY <2>1 DEF Handles, Busy
      <3>3. \A g \in Handlers \ {h} : /\ ~ Handles(g, j, Busy) /\ ~ Handles(g, j, {"save"})
                                      /\ ~ Handles(g, j, {"post"})
        BY <3>1, <3>2 DEF Single, Handles, Busy
      <3>4. \A g \in Handlers \ {h} : ~ Handles(g, j, Busy)' /\ ~ Handles(g, j, {"post"})'
        BY <2>3, <3>3 DEF Handles
      <3>5. Handles(h, j, {"save"})' /\ Systems[handler'[h].i] = s /\ ~ Handles(h, j, {"post"})'
        BY <2>1, <2>2, <2>3 DEF Handles
      <3>6. posted[s][j] = 0
        BY <2>1, <3>1, <3>2, <3>3 DEF Mapping
      <3>7. Single(j)'
        BY <3>4 DEF Single
      <3>8. Mapping(j)'
        BY <2>1, <2>4, <3>1, <3>2, <3>3, <3>4, <3>5, <3>6 DEF Mapping
      <3> QED
        BY <3>7, <3>8
    <2> QED
      BY <2>5, <2>6, <2>7 DEF PostingInv
  <1>10. ASSUME NEW h \in Handlers, X!SaveMapping(h) \/ X!SyncFails(h) PROVE PostingInv'
    <2>1. PICK j \in Journals, s \in X!Kept :
            /\ handler[h].of = j /\ Systems[handler[h].i] = s /\ handler[h].pc \in Busy
            /\ handler' = [handler EXCEPT ![h] = X!NextSystem(h)]
            /\ posted' = posted
            /\ \/ mapped' = [mapped EXCEPT ![s] = @ \cup {j}] /\ excused' = excused
               \/ /\ mapped' = mapped /\ excused \subseteq excused'
                  /\ handler[h].pc = "save" => j \in excused'
      <3>1. handler[h].of \in Journals /\ handler[h].pc \in Busy
        BY <1>10 DEF X!SaveMapping, X!SyncFails, X!At, Busy
      <3> QED
        BY <1>1, <1>10, <3>1 DEF X!SaveMapping, X!SyncFails, X!Goes
    <2>2. PICK e : /\ e = X!NextSystem(h) /\ Entry(e) /\ e.pc \in {"free", "find"}
                   /\ e.pc = "free" \/ e.of = j
      BY <1>1, <2>1, EventGoesOn DEF Entry, Busy
    <2>3. handler'[h] = e /\ \A g \in Handlers \ {h} : handler'[g] = handler[g]
      BY <1>3, <2>1, <2>2
    <2>4. /\ mapped' \in [X!Kept -> SUBSET Journals]
          /\ \A t \in X!Kept : /\ mapped[t] \subseteq mapped'[t]
                               /\ \A k \in mapped'[t] : k \in mapped[t] \/ k = j
          /\ handler[h].pc = "save" => j \in mapped'[s] \/ j \in excused'
      <3>1. CASE mapped' = [mapped EXCEPT ![s] = @ \cup {j}] /\ excused' = excused
        BY <1>1, <3>1 DEF HandlerTypes
      <3>2. CASE /\ mapped' = mapped
                 /\ handler[h].pc = "save" => j \in excused'
        BY <1>1, <3>2 DEF HandlerTypes
      <3> QED
        BY <2>1, <3>1, <3>2
    <2>5. HandlerTypes'
      BY <1>1, <1>4, <2>1, <2>2, <2>4 DEF HandlerTypes
    <2>6. ASSUME NEW k \in Journals \ excused', k # j PROVE Single(k)' /\ Mapping(k)'
      BY <1>1, <2>1, <2>2, <2>3, <2>4, <2>6, OtherPostings
    <2>7. ASSUME j \notin excused' PROVE Single(j)' /\ Mapping(j)'
      <3>1. Single(j) /\ Mapping(j)
        BY <1>1, <2>1, <2>7
      <3>2. Handles(h, j, Busy)
        BY <2>1 DEF Handles
      <3>3. \A g \in Handlers \ {h} : /\ ~ Handles(g, j, Busy) /\ ~ Handles(g, j, {"save"})
                                      /\ ~ Handles(g, j, {"post"})
        BY <3>1, <3>2 DEF Single, Handles, Busy
      <3>4. \A g \in Handlers \ {h} : ~ Handles(g, j, Busy)' /\ ~ Handles(g, j, {"post"})'
        BY <2>3, <3>3 DEF Handles
      <3>5. ~ Handles(h, j, {"post"})'
        BY <2>2, <2>3 DEF Handles
      <3>6. Handles(h, j, {"save"}) => j \in mapped'[s]
        BY <2>4, <2>7 DEF Handles
      <3>7. Single(j)'
        BY <3>4 DEF Single
      <3>8. Mapping(j)'
        BY <2>1, <2>4, <3>1, <3>3, <3>4, <3>5, <3>6 DEF Mapping
      <3> QED
        BY <3>7, <3>8
    <2> QED
      BY <2>5, <2>6, <2>7 DEF PostingInv
  <1>11. ASSUME NEW h \in Handlers, X!SumForPush(h) PROVE PostingInv'
    <2>1. PICK e : /\ e = [handler[h] EXCEPT !.pc = "push", !.qty = level[handler[h].of].local]
                   /\ handler[h].pc = "sum" /\ handler' = [handler EXCEPT ![h] = e]
                   /\ UNCHANGED <<mapped, posted, excused>>
      BY <1>11 DEF X!SumForPush, X!Goes
    <2>2. handler[h] = [of |-> handler[h].of, i |-> handler[h].i, pc |-> handler[h].pc,
                        qty |-> handler[h].qty]
      BY <1>1 DEF HandlerTypes
    <2>3. e = [of |-> e.of, i |-> e.i, pc |-> e.pc, qty |-> e.qty] /\ e.pc = "push"
      BY <2>1, <2>2
    <2>4. Entry(e) /\ e.pc \notin Busy
      BY <2>3 DEF Entry, Busy
    <2> QED
      BY <1>5, <2>1, <2>4 DEF Busy
  <1>12. ASSUME NEW h \in Handlers, X!Push(h) \/ X!PushFails(h) PROVE PostingInv'
    <2>1. Entry(X!Free) /\ X!Free.pc \notin Busy
      BY DEF Entry, Busy, X!Free
    <2>2. /\ handler[h].pc \notin Busy /\ handler' = [handler EXCEPT ![h] = X!Free]
          /\ UNCHANGED <<mapped, posted, excused>>
      BY <1>12 DEF X!Push, X!PushFails, X!Goes, Busy
    <2> QED
      BY <1>5, <2>1, <2>2
  <1>13. ASSUME NEW h \in Handlers, NEW k \in DOMAIN found, X!Resolve(k, h) PROVE PostingInv'
    <2> DEFINE e == [of |-> found[k].of, i |-> 0, pc |-> "sum", qty |-> 0]
    <2>1. Entry(e) /\ e.pc \notin Busy
      BY DEF Entry, Busy
    <2>2. /\ UNCHANGED <<mapped, posted, excused>>
          /\ \/ handler' = handler
             \/ handler[h].pc \notin Busy /\ handler' = [handler EXCEPT ![h] = e]
      BY <1>13 DEF X!Resolve, X!Goes, Busy
    <2> HIDE DEF e
    <2> QED
      BY <1>5, <1>6, <2>1, <2>2
  <1>14. ASSUME NEW a \in Auditors, X!Audit(a) PROVE PostingInv'
    <2>1. UNCHANGED <<mapped, posted, handler>> /\ excused \subseteq excused'
      BY <1>14 DEF X!Audit, X!FetchLevels, X!SumLedger, X!ReadOpen, X!Record, X!ReadJournals,
                   X!ReadMappings, X!AuditFails, X!AuditOnly
    <2> QED
      BY <1>6, <2>1
  <1>15. ASSUME \/ \E j \in Journals : X!SaveSilently(j) \/ X!Age(j)
                \/ \E p \in Places, side \in {"local", "shopify"} : X!Trade(p, side)
                \/ UNCHANGED X!vars
         PROVE  PostingInv'
    BY <1>6, <1>15 DEF X!SaveSilently, X!Age, X!Trade, X!vars
  <1> QED
    BY <1>7, <1>8, <1>9, <1>10, <1>11, <1>12, <1>13, <1>14, <1>15 DEF X!Next, X!Handle

\* No accounting system gets a journal entry twice, unless two events of the entry were
\* handled at once, or what was posted got no mapping (AccountingSyncService.ts,
\* SyncJournalListeners.ts): for any journals, systems and numbers of handlers and audits.
THEOREM JournalsArePostedOnce ==
    ASSUME Systems \in Seq(X!Kept), Systems # <<>>
    PROVE  X!Spec => []X!PostedOnce
  <1>1. X!Init => PostingInv
    <2> SUFFICES ASSUME X!Init PROVE PostingInv
      OBVIOUS
    <2>1. \A h \in Handlers : handler[h] = X!Free /\ X!Free.pc \notin Busy
      BY DEF X!Init, X!Free, Busy
    <2>2. HandlerTypes
      BY <2>1 DEF X!Init, HandlerTypes, X!Free
    <2>3. \A h \in Handlers : \A j, s : s \in SUBSET Busy => ~ Handles(h, j, s)
      BY <2>1 DEF Handles
    <2>4. \A j \in Journals : Single(j) /\ Mapping(j)
      BY <2>3 DEF Single, Mapping, X!Init, Busy
    <2> QED
      BY <2>2, <2>4 DEF PostingInv
  <1>2. PostingInv /\ [X!Next]_(X!vars) => PostingInv'
    BY PostingsStep
  <1>3. PostingInv => X!PostedOnce
    BY DEF PostingInv, Mapping, X!PostedOnce
  <1> QED
    BY <1>1, <1>2, <1>3, PTL DEF X!Spec

Things == Journals \cup Places
Discrepancies == [of : Things, status : {"OPEN", "RESOLVED"}]

IsEntry(e) ==
    /\ e = [pc |-> e.pc, shopify |-> e.shopify, refs |-> e.refs,
            mapped |-> e.mapped, open |-> e.open, gone |-> e.gone]
    /\ e.refs \subseteq Things

AuditTypes ==
    /\ found \in Seq(Discrepancies)
    /\ DOMAIN audit = Auditors
    /\ \A a \in Auditors : IsEntry(audit[a])

\* What an audit saw on record is there still, or the audit knows that it is gone.
Remembered == \A a \in Auditors : audit[a].open \ audit[a].gone \subseteq X!Open

\* An audit that has no other beside it misses nothing that is on record.
OnItsOwn(a, entry) == entry.pc # "off" => \A b \in Auditors : audit[b].pc # "off" => a = b
SeesRecord(entry) == entry.pc \in {"stock", "missing"} => X!Open \subseteq entry.open
SeesAll ==
    "audits" \notin excused => \A a \in Auditors : OnItsOwn(a, audit[a]) /\ SeesRecord(audit[a])

AuditInv ==
    /\ AuditTypes
    /\ Remembered /\ SeesAll
    /\ covered \subseteq X!Open /\ X!OpenOnce

\* The lists of a set name each of its members, once.
Listing(rows, S) ==
    \E n \in Nat : /\ rows \in [1..n -> S]
                   /\ \A i, j \in 1..n : rows[i] = rows[j] => i = j
                   /\ \A x \in S : \E i \in 1..n : rows[i] = x

LEMMA ListsName ==
    ASSUME NEW S, IsFiniteSet(S), NEW rows \in X!SetToSeqs(S)
    PROVE  Listing(rows, S)
  <1>1. X!Cardinality(S) = Cardinality(S)
    BY DEF X!Cardinality, Cardinality
  <1>2. PICK n \in Nat : n = Cardinality(S)
    BY FS_CardinalityType
  <1>4. rows \in [1..n -> S] /\ \A i, j \in 1..n : rows[i] = rows[j] => i = j
    BY <1>1, <1>2 DEF X!SetToSeqs
  <1>5. rows \in Injection(1..n, S)
    BY <1>4 DEF Injection, IsInjective
  <1>6. Cardinality(1..n) = n
    BY FS_Interval
  <1>7. rows \in Surjection(1..n, S)
    BY <1>2, <1>5, <1>6, FS_Injection
  <1>8. \A x \in S : \E i \in 1..n : rows[i] = x
    BY <1>7 DEF Surjection
  <1> QED
    BY <1>4, <1>8 DEF Listing

LEMMA Joined ==
    ASSUME NEW D, NEW s \in Seq(D), NEW t \in Seq(D)
    PROVE  s \o t \in Seq(D) /\ Len(s \o t) = Len(s) + Len(t)
  OBVIOUS

\* What is on record once rows are added for the members of a set.
LEMMA RowsAdded ==
    ASSUME found \in Seq(Discrepancies), NEW S \in SUBSET Things, IsFiniteSet(S),
           NEW rows \in X!SetToSeqs(S),
           found' = found \o [k \in DOMAIN rows |-> X!Discrepancy(rows[k])]
    PROVE  /\ found' \in Seq(Discrepancies)
           /\ X!Open' = X!Open \cup S
           /\ X!OpenOnce /\ (S \cap X!Open = {} \/ "audits" \in excused)
                /\ excused' = excused => X!OpenOnce'
  <1>0. Listing(rows, S)
    BY ListsName
  <1>1. PICK n \in Nat : /\ rows \in [1..n -> S]
                         /\ \A i, j \in 1..n : rows[i] = rows[j] => i = j
                         /\ \A x \in S : \E i \in 1..n : rows[i] = x
    BY <1>0 DEF Listing
  <1>2. PICK new : new = [k \in 1..n |-> [of |-> rows[k], status |-> "OPEN"]]
    OBVIOUS
  <1>3. found' = found \o new
    BY <1>1, <1>2 DEF X!Discrepancy
  <1>4. new \in Seq(Discrepancies)
    BY <1>1, <1>2 DEF Discrepancies
  <1>5. Len(new) = n /\ \A k \in 1..n : new[k].of = rows[k] /\ new[k].status = "OPEN"
    BY <1>1, <1>2
  <1>6. PICK m : m = Len(found)
    OBVIOUS
  <1>7. m \in Nat /\ DOMAIN found = 1..m
    BY <1>6
  <1>8. \A k \in 1..m : found[k] \in Discrepancies
    BY <1>6, <1>7
  <1>9. found' \in Seq(Discrepancies)
    BY <1>3, <1>4, Joined
  <1>10. Len(found') = m + n
    BY <1>3, <1>4, <1>5, <1>6, Joined
  <1>11. DOMAIN found' = 1..(m + n)
    BY <1>9, <1>10
  <1>12. \A k \in 1..m : found'[k] = found[k] /\ k \in 1..(m + n)
    BY <1>1, <1>3, <1>4, <1>5, <1>6, <1>7
  <1>13. \A k \in 1..n : /\ found'[m + k].of = rows[k] /\ found'[m + k].status = "OPEN"
                         /\ m + k \in 1..(m + n)
    <2> SUFFICES ASSUME NEW k \in 1..n
                 PROVE  /\ found'[m + k] = new[k]
                        /\ m + k \in 1..(m + n)
      BY <1>5
    <2>1. m + k \in 1..(m + n) /\ m + k > m /\ (m + k) - m = k
      BY <1>1, <1>7
    <2> QED
      BY <2>1, <1>1, <1>3, <1>4, <1>5, <1>6, <1>7
  <1>14. \A k \in 1..(m + n) : k \in 1..m \/ \E i \in 1..n : k = m + i
    <2> SUFFICES ASSUME NEW k \in 1..(m + n), k \notin 1..m
                 PROVE  \E i \in 1..n : k = m + i
      OBVIOUS
    <2>1. k - m \in 1..n /\ k = m + (k - m)
      BY <1>1, <1>7
    <2> QED
      BY <2>1
  <1>15. X!Open' = X!Open \cup S
    <2>1. ASSUME NEW x \in X!Open' PROVE x \in X!Open \cup S
      <3>1. PICK k \in 1..(m + n) : found'[k].of = x /\ found'[k].status = "OPEN"
        BY <1>11 DEF X!Open
      <3>2. CASE k \in 1..m
        BY <1>7, <1>12, <3>1, <3>2 DEF X!Open
      <3>3. CASE \E i \in 1..n : k = m + i
        <4>1. PICK i \in 1..n : k = m + i
          BY <3>3
        <4>2. x = rows[i]
          BY <1>13, <3>1, <4>1
        <4> QED
          BY <1>1, <4>2
      <3> QED
        BY <1>14, <3>2, <3>3
    <2>2. ASSUME NEW x \in X!Open PROVE x \in X!Open'
      <3>1. PICK k \in 1..m : found[k].of = x /\ found[k].status = "OPEN"
        BY <1>7 DEF X!Open
      <3> QED
        BY <1>11, <1>12, <3>1 DEF X!Open
    <2>3. ASSUME NEW x \in S PROVE x \in X!Open'
      <3>1. PICK k \in 1..n : rows[k] = x
        BY <1>1
      <3> QED
        BY <1>11, <1>13, <3>1 DEF X!Open
    <2> QED
      BY <2>1, <2>2, <2>3
  <1>16. ASSUME X!OpenOnce, S \cap X!Open = {} \/ "audits" \in excused, excused' = excused
         PROVE  X!OpenOnce'
    <2>0. X!OpenOnce' <=>
             ("audits" \notin excused' =>
                \A k, l \in DOMAIN found' :
                    k # l /\ found'[k].of = found'[l].of
                    => "RESOLVED" \in {found'[k].status, found'[l].status})
      BY DEF X!OpenOnce
    <2> SUFFICES ASSUME "audits" \notin excused, NEW k \in 1..(m + n), NEW l \in 1..(m + n),
                        k # l, found'[k].of = found'[l].of,
                        found'[k].status # "RESOLVED", found'[l].status # "RESOLVED"
                 PROVE  FALSE
      BY <1>11, <1>16, <2>0
    <2>1. ASSUME NEW i \in 1..m, found[i].status # "RESOLVED" PROVE found[i].of \in X!Open
      <3>1. found[i].status = "OPEN"
        BY <1>8, <2>1 DEF Discrepancies
      <3> QED
        BY <1>7, <3>1 DEF X!Open
    <2>2. CASE k \in 1..m /\ l \in 1..m
      BY <1>7, <1>12, <1>16, <2>2 DEF X!OpenOnce
    <2>3. ASSUME NEW i \in 1..m, NEW j \in 1..n, found'[i].of = found'[m + j].of,
                 found'[i].status # "RESOLVED"
          PROVE  FALSE
      <3>1. found[i].of = rows[j] /\ found[i].of \in X!Open
        BY <1>12, <1>13, <2>1, <2>3
      <3>2. rows[j] \in S
        BY <1>1
      <3> QED
        BY <1>16, <3>1, <3>2
    <2>4. ASSUME NEW i \in 1..n, NEW j \in 1..n, k = m + i, l = m + j PROVE FALSE
      <3>1. rows[i] = rows[j]
        BY <1>13, <2>4
      <3> QED
        BY <1>1, <2>4, <3>1
    <2> QED
      BY <1>14, <2>2, <2>3, <2>4
  <1> QED
    BY <1>9, <1>15, <1>16

LEMMA AuditsIdle ==
    ASSUME AuditInv, UNCHANGED <<found, audit, covered>>, excused \subseteq excused'
    PROVE  AuditInv'
  <1>1. X!Open' = X!Open
    BY DEF X!Open
  <1>2. AuditTypes' /\ Remembered' /\ covered' \subseteq X!Open'
    BY <1>1 DEF AuditInv, AuditTypes, Remembered
  <1>3. SeesAll'
    BY <1>1 DEF AuditInv, SeesAll, OnItsOwn, SeesRecord
  <1>4. X!OpenOnce'
    BY DEF AuditInv, X!OpenOnce
  <1> QED
    BY <1>2, <1>3, <1>4 DEF AuditInv

\* A step of one audit that writes nothing.
LEMMA AuditReads ==
    ASSUME AuditInv, NEW a \in Auditors, NEW e,
           audit' = [audit EXCEPT ![a] = e], UNCHANGED <<found, covered>>,
           excused \subseteq excused',
           IsEntry(e), e.open \ e.gone \subseteq X!Open,
           "audits" \notin excused' => OnItsOwn(a, e) /\ SeesRecord(e)
    PROVE  AuditInv'
  <1>1. X!Open' = X!Open
    BY DEF X!Open
  <1>2. /\ DOMAIN audit' = Auditors /\ audit'[a] = e
        /\ \A b \in Auditors \ {a} : audit'[b] = audit[b]
    BY DEF AuditInv, AuditTypes
  <1>3. AuditTypes' /\ Remembered' /\ covered' \subseteq X!Open'
    BY <1>1, <1>2 DEF AuditInv, AuditTypes, Remembered
  <1>4. SeesAll'
    <2> SUFFICES ASSUME "audits" \notin excused', NEW b \in Auditors
                 PROVE  OnItsOwn(b, audit[b])' /\ SeesRecord(audit[b])'
      BY DEF SeesAll
    <2>1. /\ \A c \in Auditors : OnItsOwn(c, audit[c]) /\ SeesRecord(audit[c])
          /\ OnItsOwn(a, e) /\ SeesRecord(e)
      BY DEF AuditInv, SeesAll
    <2>2. SeesRecord(audit[b])'
      BY <1>1, <1>2, <2>1 DEF SeesRecord
    <2>3. OnItsOwn(b, audit[b])'
      BY <1>2, <2>1 DEF OnItsOwn
    <2> QED
      BY <2>2, <2>3
  <1>5. X!OpenOnce'
    BY DEF AuditInv, X!OpenOnce
  <1> QED
    BY <1>3, <1>4, <1>5 DEF AuditInv

LEMMA FetchingLevels ==
    ASSUME AuditInv, NEW a \in Auditors, X!FetchLevels(a) PROVE AuditInv'
  <1>1. PICK known \in SUBSET Places :
           /\ audit[a].pc = "off"
           /\ audit' = [audit EXCEPT ![a] = [X!NoAudit EXCEPT !.pc = "sums",
                 !.shopify = [p \in Places |-> IF p \in known THEN level[p].shopify ELSE X!Unknown]]]
    BY DEF X!FetchLevels, X!Turn
  <1>2. PICK e : e = [X!NoAudit EXCEPT !.pc = "sums",
                 !.shopify = [p \in Places |-> IF p \in known THEN level[p].shopify ELSE X!Unknown]]
    OBVIOUS
  <1>3. IsEntry(e) /\ e.pc = "sums" /\ e.open = {}
    BY <1>2 DEF IsEntry, X!NoAudit
  <1>4. UNCHANGED <<found, covered>>
    BY DEF X!FetchLevels
  <1>5. /\ excused \subseteq excused'
        /\ "audits" \notin excused' => \A b \in Auditors : audit[b].pc = "off"
    BY DEF X!FetchLevels
  <1>6. "audits" \notin excused' => OnItsOwn(a, e) /\ SeesRecord(e)
    BY <1>3, <1>5 DEF OnItsOwn, SeesRecord
  <1> QED
    BY <1>1, <1>2, <1>3, <1>4, <1>5, <1>6, AuditReads

\* An audit under way that goes on, or ends.
LEMMA AuditGoesOn ==
    ASSUME AuditInv, NEW a \in Auditors, NEW e,
           audit[a].pc # "off", audit' = [audit EXCEPT ![a] = e],
           UNCHANGED <<found, covered, excused>>,
           IsEntry(e), e.open \ e.gone \subseteq X!Open, SeesRecord(e)
    PROVE  AuditInv'
  <1>1. "audits" \notin excused' => OnItsOwn(a, e)
    BY DEF AuditInv, SeesAll, OnItsOwn
  <1> QED
    BY <1>1, AuditReads

LEMMA AuditReadings ==
    ASSUME AuditInv, NEW a \in Auditors,
           \/ X!SumLedger(a) \/ X!ReadOpen(a, "openStock", "stock")
           \/ X!ReadJournals(a) \/ X!ReadMappings(a)
           \/ X!ReadOpen(a, "openJournals", "missing") \/ X!AuditFails(a)
    PROVE  AuditInv'
  <1> USE DEF X!Turn, X!AuditOnly
  <1>1. IsEntry(audit[a]) /\ audit[a].open \ audit[a].gone \subseteq X!Open
    BY DEF AuditInv, AuditTypes, Remembered
  <1>2. CASE X!SumLedger(a)
    <2>1. PICK e : e = [audit[a] EXCEPT !.pc = "openStock", !.refs =
                      {p \in Places : X!Differs(audit[a].shopify[p], level[p].local)}]
      OBVIOUS
    <2>2. IsEntry(e) /\ e.pc = "openStock" /\ e.open = audit[a].open /\ e.gone = audit[a].gone
      BY <1>1, <2>1 DEF IsEntry, Things
    <2>3. SeesRecord(e)
      BY <2>2 DEF SeesRecord
    <2>4. audit[a].pc # "off" /\ audit' = [audit EXCEPT ![a] = e]
          /\ UNCHANGED <<found, covered, excused>>
      BY <1>2, <2>1 DEF X!SumLedger
    <2> QED
      BY <1>1, <2>2, <2>3, <2>4, AuditGoesOn
  <1>3. ASSUME NEW from, NEW to, from # "off", to # "off", X!ReadOpen(a, from, to) PROVE AuditInv'
    <2>1. PICK e : e = [audit[a] EXCEPT !.pc = to, !.open = X!OnRecord, !.gone = {}]
      OBVIOUS
    <2>2. IsEntry(e) /\ e.open = X!Open /\ e.gone = {}
      BY <1>1, <2>1 DEF IsEntry, X!OnRecord
    <2>3. SeesRecord(e)
      BY <2>2 DEF SeesRecord
    <2>4. audit[a].pc # "off" /\ audit' = [audit EXCEPT ![a] = e]
          /\ UNCHANGED <<found, covered, excused>>
      BY <1>3, <2>1 DEF X!ReadOpen
    <2> QED
      BY <1>1, <2>2, <2>3, <2>4, AuditGoesOn
  <1>4. CASE X!ReadJournals(a)
    <2>1. PICK e : e = [audit[a] EXCEPT !.pc = "mappings",
                         !.refs = {j \in Journals : journals[j] = "recent"}]
      OBVIOUS
    <2>2. IsEntry(e) /\ e.pc = "mappings" /\ e.open = audit[a].open /\ e.gone = audit[a].gone
      BY <1>1, <2>1 DEF IsEntry, Things
    <2>3. SeesRecord(e)
      BY <2>2 DEF SeesRecord
    <2>4. audit[a].pc # "off" /\ audit' = [audit EXCEPT ![a] = e]
          /\ UNCHANGED <<found, covered, excused>>
      BY <1>4, <2>1 DEF X!ReadJournals
    <2> QED
      BY <1>1, <2>2, <2>3, <2>4, AuditGoesOn
  <1>5. CASE X!ReadMappings(a)
    <2>1. PICK e : e = [audit[a] EXCEPT !.pc = "openJournals", !.mapped = X!Mappings]
      OBVIOUS
    <2>2. IsEntry(e) /\ e.pc = "openJournals" /\ e.open = audit[a].open /\ e.gone = audit[a].gone
      BY <1>1, <2>1 DEF IsEntry
    <2>3. SeesRecord(e)
      BY <2>2 DEF SeesRecord
    <2>4. audit[a].pc # "off" /\ audit' = [audit EXCEPT ![a] = e]
          /\ UNCHANGED <<found, covered, excused>>
      BY <1>5, <2>1 DEF X!ReadMappings
    <2> QED
      BY <1>1, <2>2, <2>3, <2>4, AuditGoesOn
  <1>6. CASE X!AuditFails(a)
    <2>1. IsEntry(X!NoAudit) /\ X!NoAudit.open = {} /\ SeesRecord(X!NoAudit)
      BY DEF IsEntry, X!NoAudit, SeesRecord
    <2>2. audit[a].pc # "off" /\ audit' = [audit EXCEPT ![a] = X!NoAudit]
          /\ UNCHANGED <<found, covered, excused>>
      BY <1>6 DEF X!AuditFails
    <2> QED
      BY <2>1, <2>2, AuditGoesOn
  <1> QED
    BY <1>2, <1>3, <1>4, <1>5, <1>6

\* The rows an audit adds: what it found and saw neither on record nor mapped.
LEMMA AuditRecords ==
    ASSUME AuditInv, IsFiniteSet(Things), NEW a \in Auditors,
           X!Record(a, "stock", "journals") \/ X!Record(a, "missing", "off")
    PROVE  AuditInv'
  <1>1. PICK e : /\ audit' = [audit EXCEPT ![a] = e]
                 /\ IsEntry(e) /\ e.open = {} /\ e.pc \notin {"stock", "missing"}
                 /\ e.pc # "off" => audit[a].pc # "off"
    <2>1. CASE X!Record(a, "stock", "journals")
      <3>1. PICK e : e = [X!NoAudit EXCEPT !.pc = "journals"]
        OBVIOUS
      <3>2. IsEntry(e) /\ e.open = {} /\ e.pc = "journals"
        BY <3>1 DEF IsEntry, X!NoAudit
      <3>3. audit' = [audit EXCEPT ![a] = e] /\ audit[a].pc = "stock"
        BY <2>1, <3>1 DEF X!Record, X!Turn
      <3> QED
        BY <3>2, <3>3
    <2>2. CASE X!Record(a, "missing", "off")
      <3>1. IsEntry(X!NoAudit) /\ X!NoAudit.open = {} /\ X!NoAudit.pc = "off"
        BY DEF IsEntry, X!NoAudit
      <3>2. audit' = [audit EXCEPT ![a] = X!NoAudit]
        BY <2>2 DEF X!Record, X!Turn
      <3> QED
        BY <3>1, <3>2
    <2> QED
      BY <2>1, <2>2
  <1>2. /\ audit[a].pc \in {"stock", "missing"}
        /\ covered' = covered \union ((audit[a].refs \ audit[a].mapped) \ audit[a].gone)
        /\ UNCHANGED excused
    BY DEF X!Record
  <1>3. PICK rows \in X!SetToSeqs(X!Missing(a)) :
            found' = found \o [k \in DOMAIN rows |-> X!Discrepancy(rows[k])]
    BY DEF X!Record
  <1>4. X!Missing(a) \subseteq Things /\ IsFiniteSet(X!Missing(a))
    <2>1. X!Missing(a) \subseteq Things
      BY DEF X!Missing, AuditInv, AuditTypes, IsEntry
    <2> QED
      BY <2>1, FS_Subset
  <1>5. X!Missing(a) \cap X!Open = {} \/ "audits" \in excused
    BY <1>2 DEF X!Missing, AuditInv, SeesAll, SeesRecord
  <1>6. found' \in Seq(Discrepancies) /\ X!Open' = X!Open \cup X!Missing(a) /\ X!OpenOnce'
    <2>1. found \in Seq(Discrepancies) /\ X!OpenOnce
      BY DEF AuditInv, AuditTypes
    <2>2. PICK S : S = X!Missing(a)
      OBVIOUS
    <2>3. /\ S \in SUBSET Things /\ IsFiniteSet(S) /\ rows \in X!SetToSeqs(S)
          /\ S \cap X!Open = {} \/ "audits" \in excused
      BY <1>3, <1>4, <1>5, <2>2
    <2>4. /\ found' \in Seq(Discrepancies)
          /\ X!Open' = X!Open \cup S
          /\ X!OpenOnce /\ (S \cap X!Open = {} \/ "audits" \in excused)
               /\ excused' = excused => X!OpenOnce'
      BY <1>3, <2>1, <2>3, RowsAdded
    <2> QED
      BY <1>2, <2>1, <2>2, <2>3, <2>4
  <1>7. /\ DOMAIN audit' = Auditors /\ audit'[a] = e
        /\ \A b \in Auditors \ {a} : audit'[b] = audit[b]
    BY <1>1 DEF AuditInv, AuditTypes
  <1>8. AuditTypes' /\ Remembered'
    BY <1>1, <1>6, <1>7 DEF AuditInv, AuditTypes, Remembered
  <1>9. covered' \subseteq X!Open'
    <2>1. audit[a].open \ audit[a].gone \subseteq X!Open
      BY DEF AuditInv, Remembered
    <2> QED
      BY <1>2, <1>6, <2>1 DEF AuditInv, X!Missing
  <1>10. SeesAll'
    <2> SUFFICES ASSUME "audits" \notin excused', NEW b \in Auditors
                 PROVE  OnItsOwn(b, audit[b])' /\ SeesRecord(audit[b])'
      BY DEF SeesAll
    <2>1. \A c \in Auditors : OnItsOwn(c, audit[c])
      BY <1>2 DEF AuditInv, SeesAll
    <2>2. OnItsOwn(b, audit[b])'
      BY <1>1, <1>7, <2>1 DEF OnItsOwn
    <2>3. b # a => audit[b].pc = "off"
      BY <1>2, <2>1 DEF OnItsOwn
    <2>4. SeesRecord(audit[b])'
      BY <1>1, <1>7, <2>3 DEF SeesRecord
    <2> QED
      BY <2>2, <2>4
  <1> QED
    BY <1>6, <1>8, <1>9, <1>10 DEF AuditInv

LEMMA AuditResolved ==
    ASSUME AuditInv, NEW k \in DOMAIN found, NEW h \in Handlers, X!Resolve(k, h)
    PROVE  AuditInv'
  <1>1. PICK x : x = found[k].of
    OBVIOUS
  <1>2. /\ found' = [found EXCEPT ![k].status = "RESOLVED"]
        /\ covered' = covered \ {x} /\ UNCHANGED excused
        /\ audit' = [a \in Auditors |-> IF audit[a].open = {} THEN audit[a]
                                         ELSE [audit[a] EXCEPT !.gone = @ \union {x}]]
    BY <1>1 DEF X!Resolve
  <1>3. PICK m \in Nat : DOMAIN found = 1..m
    BY DEF AuditInv, AuditTypes
  <1>4. \A i \in 1..m : found[i] \in Discrepancies
    BY <1>3 DEF AuditInv, AuditTypes
  <1>5. PICK row : row = [found[k] EXCEPT !.status = "RESOLVED"]
    OBVIOUS
  <1>6. row \in Discrepancies /\ row.of = x /\ row.status = "RESOLVED"
    BY <1>1, <1>3, <1>4, <1>5 DEF Discrepancies
  <1>7. found' = [found EXCEPT ![k] = row]
    BY <1>2, <1>5
  <1>8. found' \in Seq(Discrepancies) /\ DOMAIN found' = DOMAIN found
    BY <1>3, <1>6, <1>7 DEF AuditInv, AuditTypes
  <1>9. found'[k] = row /\ \A i \in DOMAIN found \ {k} : found'[i] = found[i]
    BY <1>7
  <1>10. X!Open' \subseteq X!Open
    <2>1. \A i \in DOMAIN found : found'[i].status = "OPEN" =>
                                     found'[i].of = found[i].of /\ found[i].status = "OPEN"
      BY <1>6, <1>9
    <2> QED
      BY <1>8, <2>1 DEF X!Open
  <1>11. X!Open \ {x} \subseteq X!Open'
    <2> SUFFICES ASSUME NEW i \in DOMAIN found, found[i].status = "OPEN", found[i].of # x
                 PROVE  found[i].of \in X!Open'
      BY DEF X!Open
    <2>1. i # k
      BY <1>1
    <2>2. found'[i] = found[i]
      BY <1>9, <2>1
    <2> QED
      BY <1>8, <2>2 DEF X!Open
  <1>12. \A a \in Auditors :
            /\ IsEntry(audit'[a]) /\ audit'[a].pc = audit[a].pc /\ audit'[a].open = audit[a].open
            /\ audit[a].gone \subseteq audit'[a].gone
            /\ audit[a].open # {} => x \in audit'[a].gone
    <2> SUFFICES ASSUME NEW a \in Auditors
                 PROVE  /\ IsEntry(audit'[a]) /\ audit'[a].pc = audit[a].pc
                        /\ audit'[a].open = audit[a].open
                        /\ audit[a].gone \subseteq audit'[a].gone
                        /\ audit[a].open # {} => x \in audit'[a].gone
      OBVIOUS
    <2>1. IsEntry(audit[a])
      BY DEF AuditInv, AuditTypes
    <2>2. CASE audit[a].open = {}
      BY <1>2, <2>1, <2>2
    <2>3. CASE audit[a].open # {}
      <3>1. audit'[a] = [audit[a] EXCEPT !.gone = @ \union {x}]
        BY <1>2, <2>3
      <3> QED
        BY <2>1, <3>1 DEF IsEntry
    <2> QED
      BY <2>2, <2>3
  <1>13. AuditTypes'
    BY <1>2, <1>8, <1>12 DEF AuditTypes
  <1>14. Remembered'
    BY <1>11, <1>12 DEF Remembered, AuditInv
  <1>15. SeesAll'
    BY <1>2, <1>10, <1>12 DEF SeesAll, AuditInv, OnItsOwn, SeesRecord
  <1>16. covered' \subseteq X!Open'
    BY <1>2, <1>11 DEF AuditInv
  <1>17. X!OpenOnce'
    <2> SUFFICES ASSUME "audits" \notin excused, NEW i \in DOMAIN found, NEW j \in DOMAIN found,
                        i # j, found'[i].of = found'[j].of
                 PROVE  "RESOLVED" \in {found'[i].status, found'[j].status}
      BY <1>2, <1>8 DEF X!OpenOnce
    <2>1. CASE i = k \/ j = k
      BY <1>6, <1>9, <2>1
    <2>2. CASE i # k /\ j # k
      BY <1>9, <2>2 DEF AuditInv, X!OpenOnce
    <2> QED
      BY <2>1, <2>2
  <1> QED
    BY <1>13, <1>14, <1>15, <1>16, <1>17 DEF AuditInv

LEMMA AuditsStep ==
    ASSUME IsFiniteSet(Things), AuditInv, [X!Next]_(X!vars) PROVE AuditInv'
  <1>1. CASE \E a \in Auditors : X!Audit(a)
    <2>1. PICK a \in Auditors : X!Audit(a)
      BY <1>1
    <2>2. CASE X!FetchLevels(a)
      BY <2>2, FetchingLevels
    <2>3. CASE X!Record(a, "stock", "journals") \/ X!Record(a, "missing", "off")
      BY <2>3, AuditRecords
    <2>4. CASE \/ X!SumLedger(a) \/ X!ReadOpen(a, "openStock", "stock")
               \/ X!ReadJournals(a) \/ X!ReadMappings(a)
               \/ X!ReadOpen(a, "openJournals", "missing") \/ X!AuditFails(a)
      BY <2>4, AuditReadings
    <2> QED
      BY <2>1, <2>2, <2>3, <2>4 DEF X!Audit
  <1>2. CASE \E h \in Handlers : X!Handle(h)
    <2>1. PICK h \in Handlers : X!Handle(h)
      BY <1>2
    <2>2. CASE \E k \in DOMAIN found : X!Resolve(k, h)
      BY <2>2, AuditResolved
    <2>3. CASE X!FindMapping(h) \/ X!PostJournal(h) \/ X!SaveMapping(h)
      BY <2>3, AuditsIdle DEF X!FindMapping, X!PostJournal, X!SaveMapping
    <2>4. CASE X!SumForPush(h) \/ X!Push(h) \/ X!PushFails(h)
      BY <2>4, AuditsIdle DEF X!SumForPush, X!Push, X!PushFails
    <2>5. CASE X!SyncFails(h)
      BY <2>5, AuditsIdle DEF X!SyncFails
    <2>6. CASE \E j \in Journals : X!CreateJournalEntry(j, h)
      BY <2>6, AuditsIdle DEF X!CreateJournalEntry
    <2> QED
      BY <2>1, <2>2, <2>3, <2>4, <2>5, <2>6 DEF X!Handle
  <1>3. CASE \E j \in Journals : X!SaveSilently(j) \/ X!Age(j)
    BY <1>3, AuditsIdle DEF X!SaveSilently, X!Age
  <1>4. CASE \E p \in Places, side \in {"local", "shopify"} : X!Trade(p, side)
    BY <1>4, AuditsIdle DEF X!Trade
  <1>5. CASE UNCHANGED X!vars
    BY <1>5, AuditsIdle DEF X!vars
  <1> QED
    BY <1>1, <1>2, <1>3, <1>4, <1>5 DEF X!Next

\* What an audit finds is on record as open until it is resolved, and, while audits do not
\* overlap, nothing is on record twice (AuditProcessorService.ts).
THEOREM AuditsFindOnce ==
    ASSUME IsFiniteSet(Journals), IsFiniteSet(Places)
    PROVE  X!Spec => []X!AuditsAreSound
  <1>1. IsFiniteSet(Things)
    BY FS_Union DEF Things
  <1>2. X!Init => AuditInv
    <2> SUFFICES ASSUME X!Init PROVE AuditInv
      OBVIOUS
    <2>1. found = <<>> /\ covered = {} /\ X!Open = {} /\ \A a \in Auditors : audit[a] = X!NoAudit
      BY DEF X!Init, X!Open
    <2>2. AuditTypes
      BY <2>1 DEF X!Init, AuditTypes, IsEntry, X!NoAudit, Discrepancies
    <2>3. Remembered /\ SeesAll
      BY <2>1 DEF Remembered, SeesAll, OnItsOwn, SeesRecord, X!NoAudit
    <2> QED
      BY <2>1, <2>2, <2>3 DEF AuditInv, X!OpenOnce
  <1>3. AuditInv /\ [X!Next]_(X!vars) => AuditInv'
    BY <1>1, AuditsStep
  <1>4. AuditInv => X!AuditsAreSound
    BY DEF AuditInv, X!AuditsAreSound, X!ReportsAreComplete
  <1> QED
    BY <1>2, <1>3, <1>4, PTL DEF X!Spec

\* The external books are sound (AuditProcessorService.ts, SyncJournalListeners.ts).
THEOREM BooksAreSound ==
    ASSUME IsFiniteSet(Journals), IsFiniteSet(Places), Systems \in Seq(X!Kept), Systems # <<>>
    PROVE  X!Spec => []X!BooksSound
  <1>1. X!AuditsAreSound /\ X!PostedOnce => X!BooksSound
    BY DEF X!BooksSound
  <1>2. X!Spec => []X!AuditsAreSound /\ []X!PostedOnce
    BY AuditsFindOnce, JournalsArePostedOnce
  <1> QED
    BY <1>1, <1>2, PTL

-----------------------------------------------------------------------------
(***************************************************************************)
(* Barcodes.  An id belongs to one variant for good, so a save touches no  *)
(* rows of another variant; and of a variant that two saves have not       *)
(* worked on at once, a save that has chosen what to delete finds no rows  *)
(* but those it deletes or writes.  Every set a call holds of such a       *)
(* variant has one primary, and that set is what the save leaves.          *)
(***************************************************************************)
CONSTANTS Skus, Values, BarcodeCalls, MaxIds
VARIABLES barcodes, lastBarcode, barcodeCall, clashed

B == INSTANCE Barcodes WITH Calls <- BarcodeCalls, call <- barcodeCall,
                            rows <- barcodes, last <- lastBarcode

Assignments == [id : 1..lastBarcode, sku : Skus, value : Values, primary : BOOLEAN]

Primaries(set) == {a \in set : a.primary}
WithPrimary(set) == set = {} \/ \E p : Primaries(set) = {p}

\* The ids a save may delete or write.
Touched(c) == c.doomed \cup B!Ids(c.set)

BarcodeTypes ==
    /\ lastBarcode \in Nat
    /\ barcodes \subseteq Assignments /\ IsFiniteSet(barcodes)
    /\ DOMAIN barcodeCall = BarcodeCalls
    /\ \A c \in BarcodeCalls :
           /\ barcodeCall[c] = [pc |-> barcodeCall[c].pc, sku |-> barcodeCall[c].sku,
                                set |-> barcodeCall[c].set, doomed |-> barcodeCall[c].doomed,
                                locks |-> barcodeCall[c].locks]
           /\ barcodeCall[c].pc \in {"idle", "loaded", "save", "upsert"}
           /\ barcodeCall[c].pc = "idle" => barcodeCall[c] = B!Idle
           /\ barcodeCall[c].pc # "idle" => barcodeCall[c].sku \in Skus
           /\ barcodeCall[c].set \subseteq Assignments /\ IsFiniteSet(barcodeCall[c].set)
           /\ \A a \in barcodeCall[c].set : a.sku = barcodeCall[c].sku
           /\ barcodeCall[c].doomed \subseteq 1..lastBarcode

\* An id belongs to one variant.
IdsAreOwned ==
    /\ \A a, b \in barcodes : a.id = b.id => a.sku = b.sku
    /\ \A c \in BarcodeCalls : \A a \in barcodes :
           a.id \in Touched(barcodeCall[c]) => a.sku = barcodeCall[c].sku
    /\ \A c, d \in BarcodeCalls :
           Touched(barcodeCall[c]) \cap Touched(barcodeCall[d]) # {} =>
               barcodeCall[c].sku = barcodeCall[d].sku

PrimariesHeld ==
    /\ \A sku \in Skus \ clashed : WithPrimary(B!Of(sku))
    /\ \A c \in BarcodeCalls : barcodeCall[c].sku \notin clashed => WithPrimary(barcodeCall[c].set)

SavesAreWhole ==
    \A c \in BarcodeCalls :
        barcodeCall[c].pc = "upsert" /\ barcodeCall[c].sku \notin clashed =>
            B!Ids(B!Of(barcodeCall[c].sku)) \subseteq Touched(barcodeCall[c])

BarcodeInv == BarcodeTypes /\ IdsAreOwned /\ PrimariesHeld /\ SavesAreWhole

LEMMA FiniteImage ==
    ASSUME NEW S, IsFiniteSet(S), NEW f
    PROVE  IsFiniteSet({f[x] : x \in S})
  <1> DEFINE T == {f[x] : x \in S}
             g == [x \in S |-> f[x]]
  <1>1. g \in Surjection(S, T)
    BY DEF Surjection
  <1> QED
    BY <1>1, FS_Surjection

\* A step of one call that changes only what it holds.
LEMMA BarcodeCallGoes ==
    ASSUME BarcodeInv, NEW c \in BarcodeCalls, NEW e,
           UNCHANGED barcodes, clashed \subseteq clashed', barcodeCall' = [barcodeCall EXCEPT ![c] = e],
           lastBarcode' \in Nat, lastBarcode <= lastBarcode',
           e = [pc |-> e.pc, sku |-> e.sku, set |-> e.set, doomed |-> e.doomed, locks |-> e.locks],
           e.pc \in {"idle", "loaded", "save", "upsert"},
           e.pc = "idle" => e = B!Idle, e.pc # "idle" => e.sku \in Skus,
           e.set \subseteq Assignments', IsFiniteSet(e.set),
           \A a \in e.set : a.sku = e.sku, e.doomed \subseteq 1..lastBarcode',
           \A a \in barcodes : a.id \in Touched(e) => a.sku = e.sku,
           \A d \in BarcodeCalls \ {c} :
               Touched(e) \cap Touched(barcodeCall[d]) # {} => e.sku = barcodeCall[d].sku,
           e.sku \notin clashed => WithPrimary(e.set),
           e.pc = "upsert" /\ e.sku \notin clashed => B!Ids(B!Of(e.sku)) \subseteq Touched(e)
    PROVE  BarcodeInv'
  <1>1. /\ DOMAIN barcodeCall' = BarcodeCalls /\ barcodeCall'[c] = e
        /\ \A d \in BarcodeCalls \ {c} : barcodeCall'[d] = barcodeCall[d]
    BY DEF BarcodeInv, BarcodeTypes
  <1>2. Assignments \subseteq Assignments' /\ 1..lastBarcode \subseteq 1..lastBarcode'
    <2>1. 1..lastBarcode \subseteq 1..lastBarcode'
      BY DEF BarcodeInv, BarcodeTypes
    <2> QED
      BY <2>1 DEF Assignments
  <1>3. BarcodeTypes'
    BY <1>1, <1>2 DEF BarcodeInv, BarcodeTypes
  <1>4. IdsAreOwned'
    BY <1>1 DEF BarcodeInv, IdsAreOwned, Touched, B!Ids
  <1>5. PrimariesHeld'
    <2>1. \A sku \in Skus \ clashed' : WithPrimary(B!Of(sku))'
      <3> SUFFICES ASSUME NEW sku \in Skus \ clashed' PROVE WithPrimary(B!Of(sku))'
        OBVIOUS
      <3>1. B!Of(sku)' = B!Of(sku)
        BY DEF B!Of
      <3>2. WithPrimary(B!Of(sku))
        BY DEF BarcodeInv, PrimariesHeld
      <3> QED
        BY <3>1, <3>2 DEF WithPrimary, Primaries
    <2>2. \A d \in BarcodeCalls : barcodeCall'[d].sku \notin clashed' => WithPrimary(barcodeCall'[d].set)
      BY <1>1 DEF BarcodeInv, PrimariesHeld
    <2>3. \A d \in BarcodeCalls : WithPrimary(barcodeCall'[d].set) <=> WithPrimary(barcodeCall[d].set)'
      BY DEF WithPrimary, Primaries
    <2> QED
      BY <2>1, <2>2, <2>3 DEF PrimariesHeld
  <1>6. SavesAreWhole'
    BY <1>1 DEF BarcodeInv, SavesAreWhole, Touched, B!Ids, B!Of
  <1> QED
    BY <1>3, <1>4, <1>5, <1>6 DEF BarcodeInv

LEMMA BarcodeSetLoaded ==
    ASSUME BarcodeInv, NEW c \in BarcodeCalls, NEW sku \in Skus, B!FindSetBySku(c, sku)
    PROVE  BarcodeInv'
  <1>1. PICK e : e = [B!Idle EXCEPT !.pc = "loaded", !.sku = sku, !.set = B!Of(sku)]
    OBVIOUS
  <1>2. /\ e = [pc |-> e.pc, sku |-> e.sku, set |-> e.set, doomed |-> e.doomed, locks |-> e.locks]
        /\ e.pc = "loaded" /\ e.sku = sku /\ e.set = B!Of(sku) /\ e.doomed = {}
    BY <1>1 DEF B!Idle
  <1>3. /\ barcodeCall' = [barcodeCall EXCEPT ![c] = e]
        /\ UNCHANGED <<barcodes, lastBarcode, clashed>>
    BY <1>1 DEF B!FindSetBySku
  <1>4. B!Of(sku) \subseteq barcodes /\ \A a \in B!Of(sku) : a.sku = sku
    BY DEF B!Of
  <1>5. /\ lastBarcode' \in Nat /\ lastBarcode <= lastBarcode'
        /\ e.set \subseteq Assignments' /\ IsFiniteSet(e.set)
    <2>1. IsFiniteSet(B!Of(sku))
      BY <1>4, FS_Subset DEF BarcodeInv, BarcodeTypes
    <2> QED
      BY <1>2, <1>3, <1>4, <2>1 DEF BarcodeInv, BarcodeTypes, Assignments
  <1>6. Touched(e) = B!Ids(B!Of(sku))
    BY <1>2 DEF Touched
  <1>7. \A a \in barcodes : a.id \in Touched(e) => a.sku = e.sku
    BY <1>2, <1>4, <1>6 DEF BarcodeInv, IdsAreOwned, B!Ids
  <1>8. \A d \in BarcodeCalls \ {c} :
            Touched(e) \cap Touched(barcodeCall[d]) # {} => e.sku = barcodeCall[d].sku
    BY <1>2, <1>4, <1>6 DEF BarcodeInv, IdsAreOwned, B!Ids
  <1>9. e.sku \notin clashed => WithPrimary(e.set)
    BY <1>2 DEF BarcodeInv, PrimariesHeld
  <1>10. /\ e.pc \in {"idle", "loaded", "save", "upsert"} /\ e.pc # "idle" /\ e.pc # "upsert"
         /\ e.sku \in Skus /\ (\A a \in e.set : a.sku = e.sku) /\ e.doomed \subseteq 1..lastBarcode'
    BY <1>2, <1>4
  <1> QED
    BY <1>2, <1>3, <1>5, <1>7, <1>8, <1>9, <1>10, BarcodeCallGoes

\* The set with one more assignment.
LEMMA WithOneMore ==
    ASSUME NEW N, NEW set \in SUBSET [id : N, sku : Skus, value : Values, primary : BOOLEAN],
           NEW a \in [id : N, sku : Skus, value : Values, primary : BOOLEAN],
           IsFiniteSet(set)
    PROVE  /\ B!With(set, a) \subseteq [id : N, sku : Skus, value : Values, primary : BOOLEAN]
           /\ IsFiniteSet(B!With(set, a))
           /\ B!Ids(B!With(set, a)) = B!Ids(set) \cup {a.id}
           /\ (\A b \in set : b.sku = a.sku) => \A b \in B!With(set, a) : b.sku = a.sku
           /\ WithPrimary(set) => WithPrimary(B!With(set, a))
  <1> DEFINE All == [id : N, sku : Skus, value : Values, primary : BOOLEAN]
  <1>1. PICK one : one = [a EXCEPT !.primary = a.primary \/ set = {}]
    OBVIOUS
  <1>2. one \in All /\ one.id = a.id /\ one.sku = a.sku /\ one.primary = (a.primary \/ set = {})
    BY <1>1
  <1>3. PICK f : f = [b \in set |-> [b EXCEPT !.primary = FALSE]]
    OBVIOUS
  <1>4. \A b \in set : f[b] \in All /\ f[b].id = b.id /\ f[b].sku = b.sku /\ f[b].primary = FALSE
    BY <1>3
  <1>5. B!Demoted(set) = {f[b] : b \in set}
    BY <1>3 DEF B!Demoted
  <1>6. IsFiniteSet(B!Demoted(set))
    BY <1>5, FiniteImage
  <1>7. B!With(set, a) = (IF a.primary THEN {f[b] : b \in set} ELSE set) \cup {one}
    BY <1>1, <1>5 DEF B!With
  <1>8. IsFiniteSet(B!With(set, a))
    <2>1. PICK others : others = IF a.primary THEN {f[b] : b \in set} ELSE set
      OBVIOUS
    <2>2. IsFiniteSet(others)
      BY <1>5, <1>6, <2>1
    <2>3. IsFiniteSet(others \cup {one})
      BY <2>2, FS_AddElement
    <2> QED
      BY <1>7, <2>1, <2>3
  <1>9. B!With(set, a) \subseteq All
    BY <1>2, <1>4, <1>7
  <1>10. B!Ids(B!With(set, a)) = B!Ids(set) \cup {a.id}
    <2>1. CASE a.primary
      <3>1. B!With(set, a) = {f[b] : b \in set} \cup {one}
        BY <1>7, <2>1
      <3>2. \A b \in set : f[b].id = b.id
        BY <1>4
      <3> QED
        BY <1>2, <3>1, <3>2 DEF B!Ids
    <2>2. CASE ~a.primary
      <3>1. B!With(set, a) = set \cup {one}
        BY <1>7, <2>2
      <3> QED
        BY <1>2, <3>1 DEF B!Ids
    <2> QED
      BY <2>1, <2>2
  <1>11. (\A b \in set : b.sku = a.sku) => \A b \in B!With(set, a) : b.sku = a.sku
    BY <1>2, <1>4, <1>7
  <1>12. ASSUME WithPrimary(set) PROVE WithPrimary(B!With(set, a))
    <2>1. CASE a.primary
      <3>1. Primaries(B!With(set, a)) = {one}
        BY <1>2, <1>4, <1>7, <2>1 DEF Primaries
      <3> QED
        BY <3>1 DEF WithPrimary
    <2>2. CASE ~a.primary /\ set = {}
      <3>1. Primaries(B!With(set, a)) = {one}
        BY <1>2, <1>7, <2>2 DEF Primaries
      <3> QED
        BY <3>1 DEF WithPrimary
    <2>3. CASE ~a.primary /\ set # {}
      <3>1. Primaries(B!With(set, a)) = Primaries(set)
        BY <1>2, <1>7, <2>3 DEF Primaries
      <3> QED
        BY <1>12, <2>3, <3>1 DEF WithPrimary
    <2> QED
      BY <2>1, <2>2, <2>3
  <1> QED
    BY <1>8, <1>9, <1>10, <1>11, <1>12

LEMMA BarcodeAssigned ==
    ASSUME BarcodeInv, NEW c \in BarcodeCalls, NEW value \in Values, NEW makePrimary \in BOOLEAN,
           B!Assign(c, value, makePrimary)
    PROVE  BarcodeInv'
  <1>1. PICK a : a = [id |-> lastBarcode', sku |-> barcodeCall[c].sku, value |-> value,
                      primary |-> makePrimary]
    OBVIOUS
  <1>2. PICK set : set = B!With(barcodeCall[c].set, a)
    OBVIOUS
  <1>3. PICK e : e = [barcodeCall[c] EXCEPT !.pc = "save", !.set = set]
    OBVIOUS
  <1>4. /\ barcodeCall[c].pc = "loaded" /\ lastBarcode' = lastBarcode + 1
        /\ UNCHANGED <<barcodes, clashed>>
    BY DEF B!Assign
  <1>5. barcodeCall' = [barcodeCall EXCEPT ![c] = e]
    BY <1>1, <1>2, <1>3 DEF B!Assign
  <1>6. /\ barcodeCall[c] = [pc |-> barcodeCall[c].pc, sku |-> barcodeCall[c].sku,
                             set |-> barcodeCall[c].set, doomed |-> barcodeCall[c].doomed,
                             locks |-> barcodeCall[c].locks]
        /\ barcodeCall[c].sku \in Skus
        /\ barcodeCall[c].set \subseteq Assignments /\ IsFiniteSet(barcodeCall[c].set)
        /\ \A b \in barcodeCall[c].set : b.sku = barcodeCall[c].sku
        /\ barcodeCall[c].doomed \subseteq 1..lastBarcode
    BY <1>4 DEF BarcodeInv, BarcodeTypes
  <1>7. /\ e = [pc |-> e.pc, sku |-> e.sku, set |-> e.set, doomed |-> e.doomed, locks |-> e.locks]
        /\ e.pc = "save" /\ e.sku = barcodeCall[c].sku /\ e.set = set
        /\ e.doomed = barcodeCall[c].doomed
    BY <1>3, <1>6
  <1>8. /\ lastBarcode \in Nat /\ lastBarcode' \in Nat /\ lastBarcode <= lastBarcode'
        /\ 1..lastBarcode \subseteq 1..lastBarcode' /\ lastBarcode' \in 1..lastBarcode'
        /\ lastBarcode' \notin 1..lastBarcode
    BY <1>4 DEF BarcodeInv, BarcodeTypes
  <1>9. a \in Assignments' /\ barcodeCall[c].set \in SUBSET Assignments'
    BY <1>1, <1>6, <1>8 DEF Assignments
  <1>10. PICK N : N = 1..lastBarcode'
    OBVIOUS
  <1>11. Assignments' = [id : N, sku : Skus, value : Values, primary : BOOLEAN]
    BY <1>10 DEF Assignments
  <1>12. a.id = lastBarcode' /\ a.sku = barcodeCall[c].sku
    BY <1>1
  <1>13. /\ set \subseteq Assignments' /\ IsFiniteSet(set)
         /\ B!Ids(set) = B!Ids(barcodeCall[c].set) \cup {lastBarcode'}
         /\ \A b \in set : b.sku = barcodeCall[c].sku
         /\ WithPrimary(barcodeCall[c].set) => WithPrimary(set)
    BY <1>2, <1>6, <1>9, <1>11, <1>12, WithOneMore
  <1>14. Touched(e) = Touched(barcodeCall[c]) \cup {lastBarcode'}
    BY <1>7, <1>13 DEF Touched
  <1>15. /\ \A b \in barcodes : b.id \in 1..lastBarcode
         /\ \A d \in BarcodeCalls : Touched(barcodeCall[d]) \subseteq 1..lastBarcode
    BY DEF BarcodeInv, BarcodeTypes, Assignments, Touched, B!Ids
  <1>16. \A b \in barcodes : b.id \in Touched(e) => b.sku = e.sku
    BY <1>7, <1>8, <1>14, <1>15 DEF BarcodeInv, IdsAreOwned
  <1>17. \A d \in BarcodeCalls \ {c} :
            Touched(e) \cap Touched(barcodeCall[d]) # {} => e.sku = barcodeCall[d].sku
    <2> SUFFICES ASSUME NEW d \in BarcodeCalls \ {c}, Touched(e) \cap Touched(barcodeCall[d]) # {}
                 PROVE  e.sku = barcodeCall[d].sku
      OBVIOUS
    <2>1. Touched(barcodeCall[c]) \cap Touched(barcodeCall[d]) # {}
      BY <1>8, <1>14, <1>15
    <2> QED
      BY <1>7, <2>1 DEF BarcodeInv, IdsAreOwned
  <1>18. e.sku \notin clashed => WithPrimary(e.set)
    BY <1>7, <1>13 DEF BarcodeInv, PrimariesHeld
  <1>19. e.doomed \subseteq 1..lastBarcode'
    BY <1>6, <1>7, <1>8
  <1>20. /\ e.pc \in {"idle", "loaded", "save", "upsert"} /\ e.pc # "idle" /\ e.pc # "upsert"
         /\ e.sku \in Skus /\ \A b \in e.set : b.sku = e.sku
    BY <1>6, <1>7, <1>13
  <1>21. e.set \subseteq Assignments' /\ IsFiniteSet(e.set)
    BY <1>7, <1>13
  <1> QED
    BY <1>4, <1>5, <1>7, <1>8, <1>16, <1>17, <1>18, <1>19, <1>20, <1>21, BarcodeCallGoes

\* What a call holds once it has loaded its set.
LEMMA BarcodeCallHolds ==
    ASSUME BarcodeInv, NEW c \in BarcodeCalls, barcodeCall[c].pc # "idle"
    PROVE  /\ barcodeCall[c] = [pc |-> barcodeCall[c].pc, sku |-> barcodeCall[c].sku,
                                set |-> barcodeCall[c].set, doomed |-> barcodeCall[c].doomed,
                                locks |-> barcodeCall[c].locks]
           /\ barcodeCall[c].sku \in Skus
           /\ barcodeCall[c].set \subseteq Assignments /\ IsFiniteSet(barcodeCall[c].set)
           /\ \A b \in barcodeCall[c].set : b.sku = barcodeCall[c].sku
           /\ barcodeCall[c].doomed \subseteq 1..lastBarcode
           /\ lastBarcode \in Nat /\ lastBarcode <= lastBarcode
           /\ \A a \in barcodes : a.id \in Touched(barcodeCall[c]) => a.sku = barcodeCall[c].sku
           /\ \A d \in BarcodeCalls \ {c} :
                 Touched(barcodeCall[c]) \cap Touched(barcodeCall[d]) # {} =>
                     barcodeCall[c].sku = barcodeCall[d].sku
           /\ barcodeCall[c].sku \notin clashed => WithPrimary(barcodeCall[c].set)
  BY DEF BarcodeInv, BarcodeTypes, IdsAreOwned, PrimariesHeld

LEMMA BarcodeRevoked ==
    ASSUME BarcodeInv, NEW c \in BarcodeCalls, NEW id, B!Revoke(c, id)
    PROVE  BarcodeInv'
  <1>1. PICK a \in barcodeCall[c].set :
           /\ a.primary => B!Cardinality(barcodeCall[c].set) = 1
           /\ barcodeCall' = [barcodeCall EXCEPT ![c].pc = "save", ![c].set = @ \ {a}]
    BY DEF B!Revoke
  <1>2. PICK e : e = [barcodeCall[c] EXCEPT !.pc = "save", !.set = @ \ {a}]
    OBVIOUS
  <1>3. /\ barcodeCall[c].pc # "idle" /\ UNCHANGED <<barcodes, lastBarcode, clashed>>
        /\ barcodeCall' = [barcodeCall EXCEPT ![c] = e]
    BY <1>1, <1>2 DEF B!Revoke
  <1>4. /\ e = [pc |-> e.pc, sku |-> e.sku, set |-> e.set, doomed |-> e.doomed, locks |-> e.locks]
        /\ e.pc = "save" /\ e.sku = barcodeCall[c].sku /\ e.set = barcodeCall[c].set \ {a}
        /\ e.doomed = barcodeCall[c].doomed
    <2>1. barcodeCall[c] = [pc |-> barcodeCall[c].pc, sku |-> barcodeCall[c].sku,
                            set |-> barcodeCall[c].set, doomed |-> barcodeCall[c].doomed,
                            locks |-> barcodeCall[c].locks]
      BY <1>3, BarcodeCallHolds
    <2> QED
      BY <1>2, <2>1
  <1>5. Touched(e) \subseteq Touched(barcodeCall[c])
    BY <1>4 DEF Touched, B!Ids
  <1>6. ASSUME WithPrimary(barcodeCall[c].set) PROVE WithPrimary(e.set)
    <2>1. CASE a.primary
      <3>1. Cardinality(barcodeCall[c].set) = 1
        BY <1>1, <2>1 DEF B!Cardinality, Cardinality
      <3>2. \E x : barcodeCall[c].set = {x}
        BY <1>3, <3>1, BarcodeCallHolds, FS_Singleton
      <3>3. e.set = {}
        BY <1>1, <1>4, <3>2
      <3> QED
        BY <3>3 DEF WithPrimary
    <2>2. CASE ~a.primary
      <3>1. Primaries(e.set) = Primaries(barcodeCall[c].set)
        BY <1>4, <2>2 DEF Primaries
      <3> QED
        BY <1>1, <1>6, <3>1 DEF WithPrimary
    <2> QED
      BY <2>1, <2>2
  <1>7. /\ e.set \subseteq Assignments' /\ IsFiniteSet(e.set)
        /\ \A b \in e.set : b.sku = e.sku
        /\ e.doomed \subseteq 1..lastBarcode'
    <2>1. IsFiniteSet(e.set)
      <3>1. IsFiniteSet(barcodeCall[c].set) /\ e.set \subseteq barcodeCall[c].set
        BY <1>3, <1>4, BarcodeCallHolds
      <3> QED
        BY <3>1, FS_Subset
    <2>2. Assignments' = Assignments
      BY <1>3 DEF Assignments
    <2> QED
      BY <1>3, <1>4, <2>1, <2>2, BarcodeCallHolds
  <1>8. /\ \A b \in barcodes : b.id \in Touched(e) => b.sku = e.sku
        /\ \A d \in BarcodeCalls \ {c} :
               Touched(e) \cap Touched(barcodeCall[d]) # {} => e.sku = barcodeCall[d].sku
        /\ e.sku \notin clashed => WithPrimary(e.set)
        /\ e.sku \in Skus /\ lastBarcode' \in Nat /\ lastBarcode <= lastBarcode'
    BY <1>3, <1>4, <1>5, <1>6, BarcodeCallHolds
  <1>9. /\ e.pc \in {"idle", "loaded", "save", "upsert"} /\ e.pc # "idle" /\ e.pc # "upsert"
        /\ clashed \subseteq clashed'
    BY <1>3, <1>4
  <1> QED
    BY <1>3, <1>4, <1>7, <1>8, <1>9, BarcodeCallGoes

LEMMA BarcodesDeleted ==
    ASSUME BarcodeInv, NEW c \in BarcodeCalls, B!DeleteMany(c)
    PROVE  BarcodeInv'
  <1>1. PICK gone : gone = B!Ids(B!Of(barcodeCall[c].sku)) \ B!Ids(barcodeCall[c].set)
    OBVIOUS
  <1>2. PICK e : e = [barcodeCall[c] EXCEPT !.pc = "upsert", !.doomed = gone,
                                            !.locks = gone \ B!Locked(c)]
    OBVIOUS
  <1>3. /\ barcodeCall[c].pc # "idle" /\ UNCHANGED <<barcodes, lastBarcode, clashed>>
        /\ barcodeCall' = [barcodeCall EXCEPT ![c] = e]
    BY <1>1, <1>2 DEF B!DeleteMany
  <1>4. /\ e = [pc |-> e.pc, sku |-> e.sku, set |-> e.set, doomed |-> e.doomed, locks |-> e.locks]
        /\ e.pc = "upsert" /\ e.sku = barcodeCall[c].sku /\ e.set = barcodeCall[c].set
        /\ e.doomed = gone
    <2>1. barcodeCall[c] = [pc |-> barcodeCall[c].pc, sku |-> barcodeCall[c].sku,
                            set |-> barcodeCall[c].set, doomed |-> barcodeCall[c].doomed,
                            locks |-> barcodeCall[c].locks]
      BY <1>3, BarcodeCallHolds
    <2> QED
      BY <1>2, <2>1
  <1>5. B!Of(e.sku) \subseteq barcodes /\ \A b \in B!Of(e.sku) : b.sku = e.sku
    BY DEF B!Of
  <1>6. /\ B!Ids(B!Of(e.sku)) \subseteq Touched(e)
        /\ Touched(e) \subseteq Touched(barcodeCall[c]) \cup B!Ids(B!Of(e.sku))
    BY <1>1, <1>4 DEF Touched
  <1>7. \A b \in barcodes : b.id \in Touched(e) => b.sku = e.sku
    <2> SUFFICES ASSUME NEW b \in barcodes, b.id \in Touched(e) PROVE b.sku = e.sku
      OBVIOUS
    <2>1. CASE b.id \in Touched(barcodeCall[c])
      BY <1>3, <1>4, <2>1, BarcodeCallHolds
    <2>2. CASE b.id \in B!Ids(B!Of(e.sku))
      BY <1>5, <2>2 DEF B!Ids, BarcodeInv, IdsAreOwned
    <2> QED
      BY <1>6, <2>1, <2>2
  <1>8. \A d \in BarcodeCalls \ {c} :
            Touched(e) \cap Touched(barcodeCall[d]) # {} => e.sku = barcodeCall[d].sku
    <2> SUFFICES ASSUME NEW d \in BarcodeCalls \ {c}, NEW i \in Touched(e),
                        i \in Touched(barcodeCall[d])
                 PROVE  e.sku = barcodeCall[d].sku
      OBVIOUS
    <2>1. CASE i \in Touched(barcodeCall[c])
      BY <1>3, <1>4, <2>1, BarcodeCallHolds
    <2>2. CASE i \in B!Ids(B!Of(e.sku))
      BY <1>5, <2>2 DEF B!Ids, BarcodeInv, IdsAreOwned
    <2> QED
      BY <1>6, <2>1, <2>2
  <1>9. e.doomed \subseteq 1..lastBarcode'
    BY <1>1, <1>3, <1>4, <1>5 DEF B!Ids, BarcodeInv, BarcodeTypes, Assignments
  <1>10. Assignments' = Assignments
    BY <1>3 DEF Assignments
  <1>11. /\ e.set \subseteq Assignments' /\ IsFiniteSet(e.set)
         /\ \A b \in e.set : b.sku = e.sku
         /\ e.sku \notin clashed => WithPrimary(e.set)
         /\ e.sku \in Skus /\ lastBarcode' \in Nat /\ lastBarcode <= lastBarcode'
    BY <1>3, <1>4, <1>10, BarcodeCallHolds
  <1>12. /\ e.pc \in {"idle", "loaded", "save", "upsert"} /\ e.pc # "idle"
         /\ clashed \subseteq clashed'
    BY <1>3, <1>4
  <1> QED
    BY <1>3, <1>4, <1>6, <1>7, <1>8, <1>9, <1>11, <1>12, BarcodeCallGoes

\* A call that ends without having written.
LEMMA BarcodeCallEnds ==
    ASSUME BarcodeInv, NEW c \in BarcodeCalls, UNCHANGED <<barcodes, lastBarcode>>,
           clashed \subseteq clashed', barcodeCall' = [barcodeCall EXCEPT ![c] = B!Idle]
    PROVE  BarcodeInv'
  <1>1. /\ B!Idle = [pc |-> B!Idle.pc, sku |-> B!Idle.sku, set |-> B!Idle.set,
                     doomed |-> B!Idle.doomed, locks |-> B!Idle.locks]
        /\ B!Idle.pc = "idle" /\ B!Idle.set = {} /\ B!Idle.doomed = {}
    BY DEF B!Idle
  <1>2. Touched(B!Idle) = {} /\ WithPrimary(B!Idle.set) /\ IsFiniteSet(B!Idle.set)
    BY <1>1, FS_EmptySet DEF Touched, WithPrimary, B!Ids
  <1>3. lastBarcode' \in Nat /\ lastBarcode <= lastBarcode'
    BY DEF BarcodeInv, BarcodeTypes
  <1> QED
    BY <1>1, <1>2, <1>3, BarcodeCallGoes

LEMMA BarcodesUpserted ==
    ASSUME BarcodeInv, NEW c \in BarcodeCalls, B!Upsert(c)
    PROVE  BarcodeInv'
  <1>1. PICK sku, set : sku = barcodeCall[c].sku /\ set = barcodeCall[c].set
    OBVIOUS
  <1>2. PICK left : left = {a \in barcodes : a.id \notin Touched(barcodeCall[c])}
    OBVIOUS
  <1>3. /\ barcodeCall[c].pc = "upsert" /\ barcodeCall' = [barcodeCall EXCEPT ![c] = B!Idle]
        /\ barcodes' = left \cup set \/ barcodes' = barcodes
        /\ UNCHANGED lastBarcode /\ clashed \subseteq clashed'
        /\ (\E d \in BarcodeCalls \ {c} : barcodeCall[d].pc = "upsert" /\ barcodeCall[d].sku = sku)
              => sku \in clashed'
    BY <1>1, <1>2 DEF B!Upsert, Touched
  <1>4. CASE barcodes' = barcodes
    BY <1>3, <1>4, BarcodeCallEnds
  <1>5. CASE barcodes' = left \cup set
    <2>1. /\ sku \in Skus /\ set \subseteq Assignments /\ IsFiniteSet(set)
          /\ \A a \in set : a.sku = sku
          /\ \A a \in barcodes : a.id \in Touched(barcodeCall[c]) => a.sku = sku
          /\ \A d \in BarcodeCalls \ {c} :
                 Touched(barcodeCall[c]) \cap Touched(barcodeCall[d]) # {} => sku = barcodeCall[d].sku
          /\ sku \notin clashed => WithPrimary(set)
      BY <1>1, <1>3, BarcodeCallHolds
    <2>2. \A a \in set : a.id \in Touched(barcodeCall[c])
      BY <1>1 DEF Touched, B!Ids
    <2>3. /\ left \subseteq barcodes
          /\ \A a \in left : a.id \notin Touched(barcodeCall[c])
      BY <1>2
    <2>4. /\ DOMAIN barcodeCall' = BarcodeCalls /\ barcodeCall'[c] = B!Idle
          /\ \A d \in BarcodeCalls \ {c} : barcodeCall'[d] = barcodeCall[d]
      BY <1>3 DEF BarcodeInv, BarcodeTypes
    <2>5. /\ B!Idle = [pc |-> B!Idle.pc, sku |-> B!Idle.sku, set |-> B!Idle.set,
                       doomed |-> B!Idle.doomed, locks |-> B!Idle.locks]
          /\ B!Idle.pc = "idle" /\ B!Idle.set = {} /\ B!Idle.doomed = {}
          /\ Touched(B!Idle) = {} /\ WithPrimary(B!Idle.set) /\ IsFiniteSet(B!Idle.set)
      BY FS_EmptySet DEF Touched, WithPrimary, B!Ids, B!Idle
    <2>6. IsFiniteSet(barcodes')
      <3>1. IsFiniteSet(left)
        BY <2>3, FS_Subset DEF BarcodeInv, BarcodeTypes
      <3> QED
        BY <1>5, <2>1, <3>1, FS_Union
    <2>7. barcodes' \subseteq Assignments' /\ Assignments' = Assignments
      BY <1>3, <1>5, <2>1, <2>3 DEF BarcodeInv, BarcodeTypes, Assignments
    <2>8. BarcodeTypes'
      BY <1>3, <2>4, <2>5, <2>6, <2>7 DEF BarcodeInv, BarcodeTypes
    <2>9. /\ \A a, b \in barcodes : a.id = b.id => a.sku = b.sku
          /\ \A d \in BarcodeCalls : \A a \in barcodes :
                 a.id \in Touched(barcodeCall[d]) => a.sku = barcodeCall[d].sku
          /\ \A d, f \in BarcodeCalls :
                 Touched(barcodeCall[d]) \cap Touched(barcodeCall[f]) # {} =>
                     barcodeCall[d].sku = barcodeCall[f].sku
      BY DEF BarcodeInv, IdsAreOwned
    <2>10. \A d \in BarcodeCalls : Touched(barcodeCall[d])' = Touched(barcodeCall'[d])
      BY DEF Touched, B!Ids
    <2>11. \A a, b \in barcodes' : a.id = b.id => a.sku = b.sku
      BY <1>5, <2>1, <2>2, <2>3, <2>9
    <2>12. \A d \in BarcodeCalls : \A a \in barcodes' :
                 a.id \in Touched(barcodeCall'[d]) => a.sku = barcodeCall'[d].sku
      <3> SUFFICES ASSUME NEW d \in BarcodeCalls, NEW a \in barcodes', a.id \in Touched(barcodeCall'[d])
                   PROVE  a.sku = barcodeCall'[d].sku
        OBVIOUS
      <3>1. d # c /\ barcodeCall'[d] = barcodeCall[d]
        BY <2>4, <2>5
      <3>2. CASE a \in left
        BY <2>3, <2>9, <3>1, <3>2
      <3>3. CASE a \in set
        BY <2>1, <2>2, <3>1, <3>3
      <3> QED
        BY <1>5, <3>2, <3>3
    <2>13. \A d, f \in BarcodeCalls :
                 Touched(barcodeCall'[d]) \cap Touched(barcodeCall'[f]) # {} =>
                     barcodeCall'[d].sku = barcodeCall'[f].sku
      BY <2>4, <2>5, <2>9
    <2>14. IdsAreOwned'
      BY <2>10, <2>11, <2>12, <2>13 DEF IdsAreOwned
    <2>15. \A other \in Skus : other # sku => B!Of(other)' = B!Of(other)
      <3> SUFFICES ASSUME NEW other \in Skus, other # sku, NEW a
                   PROVE  a \in barcodes' /\ a.sku = other <=> a \in barcodes /\ a.sku = other
        BY DEF B!Of
      <3>1. ASSUME a \in barcodes', a.sku = other PROVE a \in barcodes
        BY <1>5, <2>1, <2>3, <3>1
      <3>2. ASSUME a \in barcodes, a.sku = other PROVE a \in barcodes'
        BY <1>2, <1>5, <2>1, <3>2
      <3> QED
        BY <3>1, <3>2
    <2>16. ASSUME sku \notin clashed PROVE B!Of(sku)' = set
      <3>1. \A a \in barcodes : a.sku = sku => a.id \in Touched(barcodeCall[c])
        BY <1>1, <1>3, <2>16 DEF BarcodeInv, SavesAreWhole, B!Ids, B!Of
      <3>2. \A a \in left : a.sku # sku
        BY <2>3, <3>1
      <3> QED
        BY <1>5, <2>1, <3>2 DEF B!Of
    <2>17. PrimariesHeld'
      <3>1. ASSUME NEW other \in Skus \ clashed' PROVE WithPrimary(B!Of(other))'
        <4>1. other \notin clashed
          BY <1>3
        <4>2. CASE other = sku
          BY <2>1, <2>16, <4>1, <4>2 DEF WithPrimary, Primaries
        <4>3. CASE other # sku
          <5>1. B!Of(other)' = B!Of(other) /\ WithPrimary(B!Of(other))
            BY <2>15, <4>1, <4>3 DEF BarcodeInv, PrimariesHeld
          <5> QED
            BY <5>1 DEF WithPrimary, Primaries
        <4> QED
          BY <4>2, <4>3
      <3>2. ASSUME NEW d \in BarcodeCalls, barcodeCall'[d].sku \notin clashed'
            PROVE  WithPrimary(barcodeCall'[d].set)
        BY <1>3, <2>4, <2>5, <3>2 DEF BarcodeInv, PrimariesHeld
      <3>3. \A d \in BarcodeCalls : WithPrimary(barcodeCall'[d].set) <=> WithPrimary(barcodeCall[d].set)'
        BY DEF WithPrimary, Primaries
      <3> QED
        BY <3>1, <3>2, <3>3 DEF PrimariesHeld
    <2>18. SavesAreWhole'
      <3> SUFFICES ASSUME NEW d \in BarcodeCalls, barcodeCall'[d].pc = "upsert",
                          barcodeCall'[d].sku \notin clashed'
                   PROVE  (B!Ids(B!Of(barcodeCall[d].sku)) \subseteq Touched(barcodeCall[d]))'
        BY DEF SavesAreWhole
      <3>1. d # c /\ barcodeCall'[d] = barcodeCall[d] /\ barcodeCall[d].sku # sku
        BY <1>3, <2>4, <2>5
      <3>2. barcodeCall[d].sku \in Skus
        BY <3>1 DEF BarcodeInv, BarcodeTypes
      <3>3. PICK other \in Skus : other = barcodeCall[d].sku
        BY <3>2
      <3>4. B!Of(other)' = B!Of(other) /\ B!Ids(B!Of(other)) \subseteq Touched(barcodeCall[d])
        BY <1>3, <2>15, <3>1, <3>3 DEF BarcodeInv, SavesAreWhole
      <3>5. B!Of(barcodeCall[d].sku)' = B!Of(other)
        BY <3>1, <3>3, <3>4 DEF B!Of
      <3> QED
        BY <2>10, <3>1, <3>4, <3>5 DEF B!Ids
    <2> QED
      BY <2>8, <2>14, <2>17, <2>18 DEF BarcodeInv
  <1> QED
    BY <1>3, <1>4, <1>5

\* A variant that has barcodes has one primary, unless two saves of it have interleaved
\* (VariantBarcodeSet.ts, ManageBarcodes.ts).
THEOREM OnePrimaryBarcode == B!Spec => []B!OnePrimary
  <1>1. B!Init => BarcodeInv
    <2> SUFFICES ASSUME B!Init PROVE BarcodeInv
      OBVIOUS
    <2>1. /\ barcodes = {} /\ lastBarcode = 0 /\ DOMAIN barcodeCall = BarcodeCalls
          /\ \A c \in BarcodeCalls : barcodeCall[c] = B!Idle
      BY DEF B!Init
    <2>2. /\ B!Idle = [pc |-> B!Idle.pc, sku |-> B!Idle.sku, set |-> B!Idle.set,
                       doomed |-> B!Idle.doomed, locks |-> B!Idle.locks]
          /\ B!Idle.pc = "idle" /\ B!Idle.set = {} /\ B!Idle.doomed = {}
          /\ Touched(B!Idle) = {} /\ WithPrimary(B!Idle.set)
      BY DEF Touched, WithPrimary, B!Ids, B!Idle
    <2>3. IsFiniteSet({})
      BY FS_EmptySet
    <2>4. BarcodeTypes
      BY <2>1, <2>2, <2>3 DEF BarcodeTypes
    <2>5. IdsAreOwned
      BY <2>1, <2>2 DEF IdsAreOwned
    <2>6. \A sku : B!Of(sku) = {}
      BY <2>1 DEF B!Of
    <2>7. PrimariesHeld /\ SavesAreWhole
      BY <2>1, <2>2, <2>6 DEF PrimariesHeld, SavesAreWhole, WithPrimary
    <2> QED
      BY <2>4, <2>5, <2>7 DEF BarcodeInv
  <1>2. ASSUME BarcodeInv, B!Next PROVE BarcodeInv'
    <2>1. PICK c \in BarcodeCalls :
            \/ \E sku \in Skus : B!FindSetBySku(c, sku)
            \/ \E value \in Values, makePrimary \in BOOLEAN : B!Assign(c, value, makePrimary)
            \/ \E id \in 1..lastBarcode : B!Revoke(c, id)
            \/ B!Generate(c) \/ B!DeleteMany(c) \/ B!Upsert(c) \/ B!Fail(c)
      BY <1>2 DEF B!Next
    <2>2. CASE \E sku \in Skus : B!FindSetBySku(c, sku)
      BY <1>2, <2>2, BarcodeSetLoaded
    <2>3. CASE \E value \in Values, makePrimary \in BOOLEAN : B!Assign(c, value, makePrimary)
      BY <1>2, <2>3, BarcodeAssigned
    <2>4. CASE \E id \in 1..lastBarcode : B!Revoke(c, id)
      BY <1>2, <2>4, BarcodeRevoked
    <2>5. CASE B!Generate(c)
      <3>1. \E value \in Values : B!Assign(c, value, FALSE)
        BY <2>5 DEF B!Generate
      <3> QED
        BY <1>2, <3>1, BarcodeAssigned
    <2>6. CASE B!DeleteMany(c)
      BY <1>2, <2>6, BarcodesDeleted
    <2>7. CASE B!Upsert(c)
      BY <1>2, <2>7, BarcodesUpserted
    <2>8. CASE B!Fail(c)
      BY <1>2, <2>8, BarcodeCallEnds DEF B!Fail
    <2> QED
      BY <2>1, <2>2, <2>3, <2>4, <2>5, <2>6, <2>7, <2>8
  <1>3. ASSUME BarcodeInv, UNCHANGED B!vars PROVE BarcodeInv'
    <2>1. UNCHANGED <<barcodes, lastBarcode, barcodeCall, clashed>>
      BY <1>3 DEF B!vars
    <2>2. BarcodeTypes'
      BY <1>3, <2>1 DEF BarcodeInv, BarcodeTypes, Assignments
    <2>3. IdsAreOwned'
      BY <1>3, <2>1 DEF BarcodeInv, IdsAreOwned, Touched, B!Ids
    <2>4. PrimariesHeld'
      BY <1>3, <2>1 DEF BarcodeInv, PrimariesHeld, WithPrimary, Primaries, B!Of
    <2>5. SavesAreWhole'
      BY <1>3, <2>1 DEF BarcodeInv, SavesAreWhole, Touched, B!Ids, B!Of
    <2> QED
      BY <2>2, <2>3, <2>4, <2>5 DEF BarcodeInv
  <1>4. BarcodeInv => B!OnePrimary
    <2> SUFFICES ASSUME BarcodeInv, NEW sku \in Skus \ clashed, B!Of(sku) # {}
                 PROVE  B!Cardinality(Primaries(B!Of(sku))) = 1
      BY DEF B!OnePrimary, Primaries
    <2>1. PICK p : Primaries(B!Of(sku)) = {p}
      BY DEF BarcodeInv, PrimariesHeld, WithPrimary
    <2>2. Cardinality({p}) = 1
      BY FS_Singleton
    <2> QED
      BY <2>1, <2>2 DEF B!Cardinality, Cardinality
  <1>5. BarcodeInv /\ [B!Next]_(B!vars) => BarcodeInv'
    BY <1>2, <1>3
  <1> QED
    BY <1>1, <1>4, <1>5, PTL DEF B!Spec

-----------------------------------------------------------------------------
(***************************************************************************)
(* Serial numbers.  A call holds a copy of the item that its transition    *)
(* was allowed from, so what it writes back is a path of the lifecycle,    *)
(* even where it undoes the work of others.  The ledger is counted from    *)
(* the history: an entry comes before its transition, so it is owed by the *)
(* call until the call saves, or is one of a call that changes nothing.    *)
(***************************************************************************)
CONSTANTS Serials, Costed, SerialRequests, SerialCommands, MaxSerialCrashes, NoItem, Unread
VARIABLES item, serialLedger, expensed, serialCall, serialPc, copy, serialHalted, silent, stale

I == INSTANCE SerializedItems WITH
       Requests <- SerialRequests, Commands <- SerialCommands, MaxCrashes <- MaxSerialCrashes,
       Absent <- NoItem, None <- Unread, ledger <- serialLedger, call <- serialCall,
       pc <- serialPc, halted <- serialHalted

SerialOps == {"receive", "sell", "return", "restock", "writeOff", "rmaRestock",
              "rmaQuarantine", "rmaScrap"}
SerialAssumption ==
    /\ SerialCommands \subseteq [op : SerialOps, serial : Serials]
    /\ IsFiniteSet(SerialRequests)

Transition == [from : I!Statuses, to : I!Statuses, op : SerialOps]

\* The status before the transition at i, and the one on record at the end.
Before(history, i) == IF i = 1 THEN "pending" ELSE history[i - 1].to
Reached(history) == Before(history, Len(history) + 1)

\* The items whose history is a path to their status.
Genuine ==
    {row \in [status : I!Statuses, history : Seq(Transition)] :
        /\ row.status = Reached(row.history)
        /\ \A i \in 1..Len(row.history) :
            /\ row.history[i].from = Before(row.history, i)
            /\ row.history[i].to \in I!Allowed[Before(row.history, i)]}

SerialSteps == {"check", "register", "insert", "find", "append", "cost", "expense", "consume",
                "save", "done", "rejected"}
Holding == {"append", "cost", "expense", "consume", "save"}

SerialTypes ==
    /\ NoItem \notin Genuine
    /\ item \in [Serials -> Genuine \cup {NoItem}]
    /\ serialLedger \in [Serials -> Int] /\ silent \in [Serials -> Int]
    /\ expensed \in [Serials -> Nat]
    /\ serialCall \in [SerialRequests -> SerialCommands]
    /\ serialPc \in [SerialRequests -> SerialSteps]
    /\ copy \in [SerialRequests -> Genuine \cup {Unread}]

\* What a call holds when it has found its item.
Holds(r) ==
    /\ copy[r] \in Genuine /\ item[I!S(r)] # NoItem /\ I!Permits(copy[r], r)
    /\ serialPc[r] = "append" => I!Effect(I!Op(r)) # 0
    /\ serialPc[r] \in {"cost", "expense", "consume"} => I!Op(r) = "writeOff"
    /\ serialPc[r] \in {"consume", "save"} /\ I!Op(r) = "writeOff" => expensed[I!S(r)] > 0

Untold == \A s \in Serials : item[s] = NoItem => serialLedger[s] = 0 /\ silent[s] = 0

SerialInv ==
    /\ SerialTypes /\ Untold /\ I!LedgerFollowsHistory
    /\ \A r \in SerialRequests : serialPc[r] \in Holding => Holds(r)

-----------------------------------------------------------------------------
\* The sums of the module are those of the theorems.
LEMMA SameSum == \A f, S : I!SumFunctionOnSet(f, S) = SumFunctionOnSet(f, S)
BY DEF I!SumFunctionOnSet, SumFunctionOnSet, I!FoldFunctionOnSet, FoldFunctionOnSet,
       I!MapThenFoldSet, MapThenFoldSet

\* What a transition makes of an item is an item.
LEMMA MovedGenuine ==
    ASSUME NEW row \in Genuine, NEW to \in I!Statuses, NEW op \in SerialOps,
           I!CanMove(row.status, to)
    PROVE  /\ I!Moved(row, to, op) \in Genuine
           /\ I!Moved(row, to, op).status = to
           /\ row.status = to => I!Moved(row, to, op) = row
           /\ row.status # to =>
                I!Moved(row, to, op).history =
                    Append(row.history, [from |-> row.status, to |-> to, op |-> op])
  <1>1. CASE row.status = to
    BY <1>1 DEF I!Moved
  <1>2. CASE row.status # to
    <2> DEFINE entry == [from |-> row.status, to |-> to, op |-> op]
               next  == [status |-> to, history |-> Append(row.history, entry)]
               old   == row.history
               new   == Append(row.history, entry)
    <2>1. I!Moved(row, to, op) = next
      BY <1>2 DEF I!Moved
    <2>2. row.status \in I!Statuses /\ old \in Seq(Transition) /\ entry \in Transition
      BY DEF Genuine, Transition
    <2>3. /\ new \in Seq(Transition) /\ Len(new) = Len(old) + 1 /\ Len(old) \in Nat
          /\ new[Len(old) + 1] = entry /\ \A i \in 1..Len(old) : new[i] = old[i]
      BY <2>2
    <2>4. \A i \in 1..(Len(old) + 1) : Before(new, i) = Before(old, i)
      BY <2>3 DEF Before
    <2>5. Before(old, Len(old) + 1) = row.status
      BY DEF Genuine, Reached
    <2>6. Reached(new) = to
      BY <2>3 DEF Reached, Before
    <2>7. to \in I!Allowed[row.status]
      BY <1>2 DEF I!CanMove
    <2>8. ASSUME NEW i \in 1..Len(new)
          PROVE  new[i].from = Before(new, i) /\ new[i].to \in I!Allowed[Before(new, i)]
      <3>1. CASE i = Len(old) + 1
        BY <3>1, <2>3, <2>4, <2>5, <2>7
      <3>2. CASE i # Len(old) + 1
        <4>1. i \in 1..Len(old)
          BY <3>2, <2>3
        <4>2. new[i] = old[i] /\ Before(new, i) = Before(old, i)
          BY <4>1, <2>3, <2>4
        <4> QED
          BY <4>1, <4>2 DEF Genuine
      <3> QED
        BY <3>1, <3>2
    <2>9. next \in Genuine
      BY <2>3, <2>6, <2>8 DEF Genuine
    <2> QED
      BY <1>2, <2>1, <2>9
  <1> QED
    BY <1>1, <1>2

LEMMA TargetsAre ==
    ASSUME SerialAssumption, serialCall \in [SerialRequests -> SerialCommands],
           NEW r \in SerialRequests
    PROVE  /\ I!Op(r) \in SerialOps /\ I!S(r) \in Serials
           /\ Len(I!Targets(r)) \in {1, 2}
           /\ \A i \in 1..Len(I!Targets(r)) : I!Targets(r)[i] \in I!Statuses
           /\ I!Effect(I!Op(r)) \in {-1, 0, 1}
           /\ I!Effect(I!Op(r)) # 0 => Len(I!Targets(r)) = 1 /\ I!Op(r) # "writeOff"
           /\ I!Op(r) = "writeOff" => I!Targets(r) = <<"written_off">>
           /\ I!Op(r) = "rmaScrap" => I!Targets(r) = <<"returned", "written_off">>
           /\ I!Op(r) \notin {"writeOff", "rmaScrap"} =>
                \A i \in 1..Len(I!Targets(r)) : I!Targets(r)[i] # "written_off"
  <1>1. I!Op(r) \in SerialOps /\ I!S(r) \in Serials
    BY DEF SerialAssumption, I!Op, I!S
  <1> HIDE DEF I!Op
  <1> DEFINE op == I!Op(r)
  <1>2. I!Effect(op) \in {-1, 0, 1} /\ (I!Effect(op) # 0 => op \in {"receive", "sell"})
    BY <1>1 DEF I!Effect, SerialOps
  <1>3. CASE op \in {"receive", "sell", "return", "restock"}
    BY <1>1, <1>2, <1>3 DEF I!Targets, SerialOps, I!Statuses
  <1>4. CASE op \in {"writeOff", "rmaRestock", "rmaQuarantine", "rmaScrap"}
    BY <1>1, <1>2, <1>4 DEF I!Targets, SerialOps, I!Statuses
  <1> QED
    BY <1>1, <1>3, <1>4 DEF SerialOps

-----------------------------------------------------------------------------
\* The entries of a history, and of one that a transition is added to.
LEMMA RecordedIs ==
    ASSUME NEW row \in Genuine
    PROVE  /\ I!Recorded(row.history) \in Int
           /\ row.history = <<>> => I!Recorded(row.history) = 0
  <1> DEFINE h == row.history
             f == [i \in DOMAIN h |-> I!Effect(h[i].op)]
  <1>1. h \in Seq(Transition) /\ DOMAIN h = 1..Len(h) /\ Len(h) \in Nat
    BY DEF Genuine
  <1>2. \A i \in DOMAIN h : f[i] \in Int
    BY <1>1 DEF I!Effect
  <1>3. IsFiniteSet(DOMAIN h)
    <2>1. IsFiniteSet(1..Len(h))
      <3>1. 1 \in Int /\ Len(h) \in Int
        BY <1>1
      <3> QED
        BY <3>1, FS_Interval
    <2> QED
      BY <1>1, <2>1
  <1>4. I!Recorded(h) = SumFunctionOnSet(f, DOMAIN h)
    BY SameSum DEF I!Recorded
  <1>5. Summable(f, DOMAIN h)
    BY <1>2, <1>3 DEF Summable
  <1>6. I!Recorded(h) \in Int
    BY <1>4, <1>5, SumType
  <1>7. ASSUME h = <<>> PROVE I!Recorded(h) = 0
    <2>1. DOMAIN h = {}
      BY <1>7
    <2> HIDE DEF f
    <2> QED
      BY <2>1, <1>4, SumEmpty
  <1> QED
    BY <1>6, <1>7

LEMMA SumOneMore ==
    ASSUME NEW n \in Nat, NEW k, \A i \in 1..(n + 1) : k[i] \in Int
    PROVE  SumFunctionOnSet(k, 1..(n + 1)) = SumFunctionOnSet(k, 1..n) + k[n + 1]
  <1>1. PICK S, x : S = 1..n /\ x = n + 1
    OBVIOUS
  <1>2. 1..(n + 1) = S \cup {x} /\ x \notin S
    BY <1>1
  <1>3. IsFiniteSet(1..(n + 1))
    BY FS_Interval
  <1>4. Summable(k, S \cup {x})
    BY <1>2, <1>3 DEF Summable
  <1>5. SumFunctionOnSet(k, S \cup {x}) = SumFunctionOnSet(k, S) + k[x]
    BY <1>2, <1>4, SumAddElement
  <1> QED
    BY <1>1, <1>2, <1>5

LEMMA RecordedMoved ==
    ASSUME NEW row \in Genuine, NEW to \in I!Statuses, NEW op \in SerialOps,
           I!CanMove(row.status, to)
    PROVE  /\ I!Recorded(row.history) \in Int
           /\ I!Recorded(I!Moved(row, to, op).history)
                = I!Recorded(row.history) + IF row.status = to THEN 0 ELSE I!Effect(op)
  <1>0. I!Recorded(row.history) \in Int
    BY RecordedIs
  <1>1. CASE row.status = to
    <2>1. I!Moved(row, to, op) = row
      BY <1>1 DEF I!Moved
    <2> QED
      BY <1>0, <1>1, <2>1
  <1>2. CASE row.status # to
    <2> DEFINE entry == [from |-> row.status, to |-> to, op |-> op]
               old == row.history
               new == Append(row.history, entry)
               f == [i \in DOMAIN old |-> I!Effect(old[i].op)]
               k == [i \in DOMAIN new |-> I!Effect(new[i].op)]
    <2>1. I!Moved(row, to, op).history = new /\ I!Moved(row, to, op) \in Genuine
      BY <1>2, MovedGenuine
    <2>2. old \in Seq(Transition) /\ new \in Seq(Transition) /\ entry \in Transition
      BY <2>1 DEF Genuine, Transition
    <2>3. /\ Len(old) \in Nat /\ DOMAIN old = 1..Len(old) /\ DOMAIN new = 1..(Len(old) + 1)
          /\ new[Len(old) + 1] = entry /\ \A i \in 1..Len(old) : new[i] = old[i]
      BY <2>2
    <2>4. /\ Len(old) + 1 \notin DOMAIN old
          /\ DOMAIN new = DOMAIN old \cup {Len(old) + 1}
      BY <2>3
    <2>5. IsFiniteSet(DOMAIN old) /\ IsFiniteSet(DOMAIN new)
      <3>1. 1 \in Int /\ Len(old) \in Int /\ Len(old) + 1 \in Int
        BY <2>3
      <3>2. IsFiniteSet(1..Len(old)) /\ IsFiniteSet(1..(Len(old) + 1))
        BY <3>1, FS_Interval
      <3> QED
        BY <2>3, <3>2
    <2>6. /\ \A i \in DOMAIN old : f[i] \in Int /\ f[i] = k[i]
          /\ \A i \in DOMAIN new : k[i] \in Int
          /\ k[Len(old) + 1] = I!Effect(op)
      BY <2>2, <2>3, <2>4 DEF I!Effect
    <2>7. /\ I!Recorded(old) = SumFunctionOnSet(f, DOMAIN old)
          /\ I!Recorded(new) = SumFunctionOnSet(k, DOMAIN new)
      BY SameSum DEF I!Recorded
    <2> HIDE DEF f, k, old, new
    <2>8. SumFunctionOnSet(f, DOMAIN old) = SumFunctionOnSet(k, DOMAIN old)
      BY <2>5, <2>6, SumSame DEF Summable
    <2>9. SumFunctionOnSet(k, DOMAIN new) = SumFunctionOnSet(k, DOMAIN old) + k[Len(old) + 1]
      BY <2>3, <2>6, SumOneMore
    <2>10. I!Recorded(new) = I!Recorded(old) + I!Effect(op)
      BY <2>6, <2>7, <2>8, <2>9
    <2> QED
      BY <1>0, <1>2, <2>1, <2>10 DEF old
  <1> QED
    BY <1>1, <1>2

\* What a call writes back.
LEMMA DraftFacts ==
    ASSUME SerialAssumption, serialCall \in [SerialRequests -> SerialCommands],
           NEW r \in SerialRequests, copy[r] \in Genuine, I!Permits(copy[r], r)
    PROVE  /\ I!Draft(r) \in Genuine
           /\ I!Recorded(copy[r].history) \in Int
           /\ I!Recorded(I!Draft(r).history) = I!Recorded(copy[r].history) +
                IF I!Draft(r) = copy[r] THEN 0 ELSE I!Effect(I!Op(r))
           /\ copy[r].status = "written_off" \/ I!Op(r) = "writeOff"
                => I!Draft(r).status = "written_off"
           /\ I!Draft(r).status = "written_off" =>
                I!Op(r) = "writeOff" \/ Last(I!Draft(r).history).op = "rmaScrap"
  <1> DEFINE op == I!Op(r)
             to == I!Targets(r)
             once == I!Moved(copy[r], to[1], op)
  <1>1. /\ op \in SerialOps /\ Len(to) \in {1, 2} /\ to[1] \in I!Statuses
        /\ Len(to) = 2 => to[2] \in I!Statuses
        /\ I!Effect(op) \in {-1, 0, 1}
        /\ I!Effect(op) # 0 => Len(to) = 1 /\ op # "writeOff"
        /\ op = "writeOff" => to = <<"written_off">>
        /\ op = "rmaScrap" => to = <<"returned", "written_off">>
        /\ op \notin {"writeOff", "rmaScrap"} => \A i \in 1..Len(to) : to[i] # "written_off"
    BY TargetsAre
  <1>2. I!CanMove(copy[r].status, to[1]) /\ (Len(to) = 2 => I!CanMove(to[1], to[2]))
    BY DEF I!Permits
  <1>3. I!Draft(r) = IF Len(to) = 1 THEN once ELSE I!Moved(once, to[2], op)
    BY DEF I!Draft
  <1> HIDE DEF op, to
  <1>4. once \in Genuine /\ once.status = to[1]
    BY <1>1, <1>2, MovedGenuine
  <1>5. /\ I!Recorded(copy[r].history) \in Int
        /\ I!Recorded(once.history)
             = I!Recorded(copy[r].history) + IF copy[r].status = to[1] THEN 0 ELSE I!Effect(op)
    BY <1>1, <1>2, RecordedMoved
  <1>6. once = copy[r] <=> copy[r].status = to[1]
    BY <1>1, <1>2, <1>4, MovedGenuine
  <1>7. copy[r].status = "written_off" => to[1] = "written_off"
    BY <1>2 DEF I!CanMove, I!Allowed
  <1>8. CASE Len(to) = 1
    <2>1. I!Draft(r) = once
      BY <1>3, <1>8
    <2> QED
      BY <1>1, <1>4, <1>5, <1>6, <1>7, <1>8, <2>1 DEF op
  <1>9. CASE Len(to) = 2
    <2>1. I!Draft(r) = I!Moved(once, to[2], op)
      BY <1>3, <1>9
    <2> HIDE DEF once
    <2>2. I!CanMove(once.status, to[2]) /\ to[2] \in I!Statuses
      BY <1>1, <1>2, <1>4, <1>9
    <2>3. I!Draft(r) \in Genuine /\ I!Draft(r).status = to[2]
      <3>1. I!Moved(once, to[2], op) \in Genuine /\ I!Moved(once, to[2], op).status = to[2]
        BY <1>1, <1>4, <2>2, MovedGenuine
      <3> QED
        BY <2>1, <3>1
    <2>4. I!Effect(op) = 0
      BY <1>1, <1>9
    <2>5. I!Recorded(I!Draft(r).history) = I!Recorded(once.history)
      BY <1>1, <1>4, <2>1, <2>2, <2>4, RecordedMoved
    <2>6. op # "writeOff" /\ to[1] # "written_off"
      BY <1>1, <1>9
    <2>7. ASSUME to[2] = "written_off" PROVE Last(I!Draft(r).history).op = "rmaScrap"
      <3>1. op = "rmaScrap"
        BY <1>1, <1>9, <2>6, <2>7
      <3>2. I!Draft(r).history =
              Append(once.history, [from |-> once.status, to |-> to[2], op |-> op])
        BY <1>1, <1>4, <2>1, <2>2, <2>6, <2>7, MovedGenuine
      <3>3. once.history \in Seq(Transition)
        BY <1>4 DEF Genuine
      <3>4. Last(Append(once.history, [from |-> once.status, to |-> to[2], op |-> op])).op = op
        BY <3>3 DEF Last
      <3> QED
        BY <3>1, <3>2, <3>4
    <2> QED
      BY <1>5, <1>7, <2>3, <2>4, <2>5, <2>6, <2>7 DEF op
  <1> QED
    BY <1>1, <1>8, <1>9

-----------------------------------------------------------------------------
\* What the calls owe to the history of a serial number.
LEMMA OwedFacts ==
    ASSUME SerialAssumption, serialCall \in [SerialRequests -> SerialCommands],
           serialCall' = serialCall, NEW s
    PROVE  /\ I!Owed(s) \in Int
           /\ I!Owing(s) = {} => I!Owed(s) = 0
           /\ I!Owing(s)' = I!Owing(s) => I!Owed(s)' = I!Owed(s)
           /\ \A r \in SerialRequests :
                /\ r \notin I!Owing(s) /\ I!Owing(s)' = I!Owing(s) \cup {r}
                     => I!Owed(s)' = I!Owed(s) + I!Effect(I!Op(r))
                /\ r \notin I!Owing(s)' /\ I!Owing(s) = I!Owing(s)' \cup {r}
                     => I!Owed(s)' = I!Owed(s) - I!Effect(I!Op(r))
  <1>1. PICK f : f = [r \in SerialRequests |-> I!Effect(I!Op(r))]
    OBVIOUS
  <1>2. \A r \in SerialRequests : f[r] = I!Effect(I!Op(r)) /\ f[r] \in Int
    BY <1>1, TargetsAre
  <1>3. f = [r \in SerialRequests |-> I!Effect(I!Op(r))']
    BY <1>1 DEF I!Effect, I!Op
  <1>4. PICK these, those : these = I!Owing(s) /\ those = I!Owing(s)'
    OBVIOUS
  <1>5. these \subseteq SerialRequests /\ those \subseteq SerialRequests
    BY <1>4 DEF I!Owing
  <1>6. Summable(f, these) /\ Summable(f, those)
    BY <1>2, <1>5, FS_Subset DEF Summable, SerialAssumption
  <1>7. I!Owed(s) = SumFunctionOnSet(f, these)
    BY <1>1, <1>4, SameSum DEF I!Owed
  <1>8. I!Owed(s)' = SumFunctionOnSet(f, those)
    BY <1>3, <1>4, SameSum DEF I!Owed
  <1>9. SumFunctionOnSet(f, these) \in Int /\ SumFunctionOnSet(f, those) \in Int
    BY <1>6, SumType
  <1>10. these = {} => SumFunctionOnSet(f, these) = 0
    BY SumEmpty
  <1>11. ASSUME NEW r \in SerialRequests, r \notin these, those = these \cup {r}
         PROVE  SumFunctionOnSet(f, those) = SumFunctionOnSet(f, these) + f[r]
    BY <1>6, <1>11, SumAddElement
  <1>12. ASSUME NEW r \in SerialRequests, r \notin those, these = those \cup {r}
         PROVE  SumFunctionOnSet(f, these) = SumFunctionOnSet(f, those) + f[r]
    BY <1>6, <1>12, SumAddElement
  <1>13. ASSUME NEW r \in SerialRequests
         PROVE  /\ r \notin these /\ those = these \cup {r} =>
                     SumFunctionOnSet(f, those) = SumFunctionOnSet(f, these) + I!Effect(I!Op(r))
                /\ r \notin those /\ these = those \cup {r} =>
                     SumFunctionOnSet(f, those) = SumFunctionOnSet(f, these) - I!Effect(I!Op(r))
    BY <1>2, <1>9, <1>11, <1>12
  <1> QED
    BY <1>4, <1>7, <1>8, <1>9, <1>10, <1>13

\* these step of one call leaves what the others hold and owe.
OthersStay(r) ==
    /\ serialCall' = serialCall
    /\ \A x \in SerialRequests : x # r => serialPc'[x] = serialPc[x] /\ copy'[x] = copy[x]

LEMMA OthersOwe ==
    ASSUME NEW r \in SerialRequests, OthersStay(r), NEW s
    PROVE  /\ \A x \in SerialRequests : x # r => (x \in I!Owing(s)' <=> x \in I!Owing(s))
           /\ s # I!S(r) => r \notin I!Owing(s) /\ r \notin I!Owing(s)'
           /\ I!Owing(s) \subseteq SerialRequests /\ I!Owing(s)' \subseteq SerialRequests
  <1>1. ASSUME NEW x \in SerialRequests, x # r PROVE x \in I!Owing(s)' <=> x \in I!Owing(s)
    <2>1. I!Draft(x)' = I!Draft(x)
      <3>1. I!Op(x)' = I!Op(x) /\ copy'[x] = copy[x]
        BY <1>1 DEF OthersStay, I!Op
      <3>2. I!Targets(x)' = I!Targets(x)
        BY <3>1 DEF I!Targets
      <3>3. I!Draft(x)' = LET to == I!Targets(x)'
                              once == I!Moved(copy'[x], to[1], I!Op(x)')
                          IN  IF Len(to) = 1 THEN once ELSE I!Moved(once, to[2], I!Op(x)')
        BY DEF I!Draft, I!Moved
      <3> QED
        BY <3>1, <3>2, <3>3 DEF I!Draft
    <2> QED
      BY <1>1, <2>1 DEF OthersStay, I!Owing, I!S, I!Op, I!Effect
  <1> QED
    BY <1>1 DEF I!Owing, I!S, OthersStay

LEMMA OthersHold ==
    ASSUME NEW r \in SerialRequests, OthersStay(r), NEW x \in SerialRequests, x # r,
           Holds(x), item[I!S(x)] # NoItem => item'[I!S(x)] # NoItem,
           expensed[I!S(x)] > 0 => expensed'[I!S(x)] > 0
    PROVE  Holds(x)'
  <1>1. I!Permits(copy[x], x)' <=> I!Permits(copy[x], x)
    BY DEF OthersStay, I!Permits, I!Targets, I!CanMove, I!Op
  <1> QED
    BY <1>1 DEF Holds, OthersStay, I!Op, I!S, I!Effect

\* A step that leaves item, ledger and debts alone.
LEMMA SerialGoesOn ==
    ASSUME SerialAssumption, SerialInv, NEW r \in SerialRequests, NEW at \in SerialSteps,
           I!Goto(r, at), serialCall' = serialCall, serialPc[r] # "save",
           at = "save" => I!Effect(I!Op(r)) = 0,
           copy' = copy \/ /\ item[I!S(r)] # NoItem
                           /\ copy' = [copy EXCEPT ![r] = item[I!S(r)]],
           UNCHANGED <<item, serialLedger, silent, stale>>,
           \/ expensed' = expensed
           \/ expensed' = [expensed EXCEPT ![I!S(r)] = @ + 1],
           at \in Holding => Holds(r)'
    PROVE  SerialInv'
  <1>1. serialPc' = [serialPc EXCEPT ![r] = at] /\ serialPc'[r] = at
    BY DEF I!Goto, SerialInv, SerialTypes
  <1>2. I!S(r) \in Serials
    BY TargetsAre DEF SerialInv, SerialTypes
  <1>3. OthersStay(r)
    BY <1>1 DEF OthersStay, SerialInv, SerialTypes
  <1>4. SerialTypes'
    BY <1>1, <1>2 DEF SerialInv, SerialTypes
  <1>5. \A s \in Serials : expensed[s] > 0 => expensed'[s] > 0
    BY <1>2 DEF SerialInv, SerialTypes
  <1>6. ASSUME NEW x \in SerialRequests, serialPc'[x] \in Holding PROVE Holds(x)'
    <2>1. CASE x = r
      BY <1>1, <1>6, <2>1
    <2>2. CASE x # r
      <3>1. Holds(x) /\ I!S(x) \in Serials
        BY <1>3, <1>6, <2>2, TargetsAre DEF OthersStay, SerialInv, SerialTypes
      <3> QED
        BY <1>3, <1>5, <2>2, <3>1, OthersHold
    <2> QED
      BY <2>1, <2>2
  <1>7. ASSUME NEW s \in Serials \ stale, item[s] # NoItem
        PROVE  serialLedger[s] = silent[s] + I!Recorded(item[s].history) + I!Owed(s)'
    <2>1. r \notin I!Owing(s) /\ r \notin I!Owing(s)'
      BY <1>1 DEF I!Owing, I!Op, I!Effect
    <2>2. I!Owing(s)' = I!Owing(s)
      BY <1>3, <2>1, OthersOwe
    <2>3. I!Owed(s)' = I!Owed(s)
      BY <2>2, OwedFacts DEF SerialInv, SerialTypes
    <2> QED
      BY <1>7, <2>3 DEF SerialInv, I!LedgerFollowsHistory
  <1>8. I!LedgerFollowsHistory'
    BY <1>7 DEF I!LedgerFollowsHistory, I!Recorded, I!Effect
  <1>9. Untold'
    BY DEF SerialInv, Untold
  <1> QED
    BY <1>4, <1>6, <1>8, <1>9 DEF SerialInv

\* The first row of a serial number has nothing to tell, and the ledger nothing of it.
LEMMA SerialInserted ==
    ASSUME SerialAssumption, SerialInv, NEW r \in SerialRequests, I!Insert(r),
           serialCall' = serialCall
    PROVE  SerialInv'
  <1> DEFINE new == [status |-> "pending", history |-> <<>>]
  <1>0. serialPc[r] = "insert" /\ I!S(r) \in Serials
    BY TargetsAre DEF I!Insert, SerialInv, SerialTypes
  <1>1. CASE item[I!S(r)] # NoItem
    <2>1. I!Goto(r, "rejected") /\ UNCHANGED <<item, serialLedger, silent, stale, copy, expensed>>
      BY <1>1 DEF I!Insert
    <2> QED
      BY <1>0, <2>1, SerialGoesOn DEF SerialSteps, Holding
  <1>2. CASE item[I!S(r)] = NoItem
    <2>1. /\ item' = [item EXCEPT ![I!S(r)] = new]
          /\ serialPc' = [serialPc EXCEPT ![r] = "find"]
          /\ UNCHANGED <<serialLedger, silent, stale, copy, expensed>>
      BY <1>2 DEF I!Insert, I!Goto
    <2>2. new \in Genuine /\ new # NoItem
      <3>1. <<>> \in Seq(Transition) /\ Len(<<>>) = 0
        OBVIOUS
      <3>2. new \in Genuine
        BY <3>1 DEF Genuine, Reached, Before, I!Statuses
      <3> QED
        BY <3>2 DEF SerialInv, SerialTypes
    <2>3. serialPc'[r] = "find"
      BY <2>1 DEF SerialInv, SerialTypes
    <2>4. OthersStay(r)
      BY <2>1 DEF OthersStay, SerialInv, SerialTypes
    <2>5. SerialTypes'
      BY <1>0, <2>1, <2>2 DEF SerialInv, SerialTypes, SerialSteps
    <2>6. \A s \in Serials : item[s] # NoItem => item'[s] = item[s]
      BY <1>0, <1>2, <2>1 DEF SerialInv, SerialTypes
    <2>7. ASSUME NEW x \in SerialRequests, serialPc'[x] \in Holding PROVE Holds(x)'
      <3>1. x # r /\ Holds(x) /\ I!S(x) \in Serials
        BY <2>3, <2>4, <2>7, TargetsAre DEF OthersStay, SerialInv, SerialTypes, Holding
      <3> QED
        BY <2>1, <2>4, <2>6, <3>1, OthersHold
    <2>8. \A s : I!Owing(s)' = I!Owing(s)
      BY <2>3, <1>0, <2>4, OthersOwe DEF I!Owing
    <2>9. ASSUME NEW s \in Serials \ stale, item'[s] # NoItem
          PROVE  serialLedger[s] = silent[s] + I!Recorded(item'[s].history) + I!Owed(s)'
      <3>1. I!Owed(s)' = I!Owed(s)
        BY <2>8, OwedFacts DEF SerialInv, SerialTypes
      <3>2. CASE s # I!S(r)
        BY <2>1, <2>9, <3>1, <3>2 DEF SerialInv, SerialTypes, I!LedgerFollowsHistory
      <3>3. CASE s = I!S(r)
        <4>1. I!Owing(s) = {}
          BY <1>2, <3>3 DEF I!Owing, SerialInv, Holding, Holds
        <4>2. I!Owed(s) = 0
          BY <4>1, OwedFacts DEF SerialInv, SerialTypes
        <4>3. item'[s] = new
          BY <1>0, <2>1, <3>3 DEF SerialInv, SerialTypes
        <4>4. I!Recorded(item'[s].history) = 0
          BY <2>2, <4>3, RecordedIs
        <4>5. serialLedger[s] = 0 /\ silent[s] = 0
          BY <1>2, <3>3 DEF SerialInv, Untold
        <4> QED
          BY <3>1, <4>2, <4>4, <4>5
      <3> QED
        BY <3>2, <3>3
    <2>10. I!LedgerFollowsHistory'
      BY <2>1, <2>9 DEF I!LedgerFollowsHistory, I!Recorded, I!Effect
    <2>11. Untold'
      BY <2>1, <2>6 DEF SerialInv, Untold
    <2> QED
      BY <2>5, <2>7, <2>10, <2>11 DEF SerialInv
  <1> QED
    BY <1>1, <1>2

\* An entry is owed until the transition is saved, or is one of a call that has none.
LEMMA SerialAppended ==
    ASSUME SerialAssumption, SerialInv, NEW r \in SerialRequests, I!AppendEntry(r),
           serialCall' = serialCall
    PROVE  SerialInv'
  <1> DEFINE n == I!Effect(I!Op(r))
  <1>1. /\ serialPc[r] = "append" /\ serialPc' = [serialPc EXCEPT ![r] = "save"]
        /\ serialLedger' = [serialLedger EXCEPT ![I!S(r)] = @ + n]
        /\ silent' = IF I!Draft(r) = copy[r] THEN [silent EXCEPT ![I!S(r)] = @ + n] ELSE silent
        /\ UNCHANGED <<item, expensed, copy, stale>>
    BY DEF I!AppendEntry, I!Goto
  <1>2. /\ I!S(r) \in Serials /\ n \in Int /\ I!Op(r) # "writeOff" /\ Holds(r) /\ n # 0
    BY <1>1, TargetsAre DEF SerialInv, SerialTypes, Holding, Holds
  <1>3. serialPc'[r] = "save" /\ OthersStay(r)
    BY <1>1 DEF OthersStay, SerialInv, SerialTypes
  <1>4. SerialTypes'
    BY <1>1, <1>2 DEF SerialInv, SerialTypes, SerialSteps
  <1>5. I!Op(r)' = I!Op(r) /\ I!S(r)' = I!S(r) /\ copy'[r] = copy[r]
    BY <1>1 DEF I!Op, I!S
  <1>6. I!Targets(r)' = I!Targets(r) /\ I!Draft(r)' = I!Draft(r)
    <2>1. I!Targets(r)' = I!Targets(r)
      BY <1>5 DEF I!Targets
    <2>2. I!Draft(r)' = LET to == I!Targets(r)'
                            once == I!Moved(copy'[r], to[1], I!Op(r)')
                        IN  IF Len(to) = 1 THEN once ELSE I!Moved(once, to[2], I!Op(r)')
      BY DEF I!Draft, I!Moved
    <2> QED
      BY <1>5, <2>1, <2>2 DEF I!Draft
  <1>7. Holds(r)'
    <2>1. I!Permits(copy[r], r)'
      BY <1>2, <1>5, <1>6 DEF Holds, I!Permits, I!CanMove
    <2> QED
      BY <1>1, <1>2, <1>3, <1>5, <2>1 DEF Holds
  <1>8. ASSUME NEW x \in SerialRequests, serialPc'[x] \in Holding PROVE Holds(x)'
    <2>1. CASE x # r
      <3>1. Holds(x)
        BY <1>3, <1>8, <2>1 DEF OthersStay, SerialInv
      <3> QED
        BY <1>1, <1>3, <2>1, <3>1, OthersHold
    <2> QED
      BY <1>7, <2>1
  <1>9. ASSUME NEW s \in Serials \ stale, item[s] # NoItem
        PROVE  serialLedger'[s] = silent'[s] + I!Recorded(item[s].history) + I!Owed(s)'
    <2>0. /\ serialLedger[s] = silent[s] + I!Recorded(item[s].history) + I!Owed(s)
          /\ serialLedger[s] \in Int /\ silent[s] \in Int
          /\ I!Recorded(item[s].history) \in Int /\ I!Owed(s) \in Int
      <3>1. item[s] \in Genuine
        BY <1>9 DEF SerialInv, SerialTypes
      <3> QED
        BY <1>9, <3>1, RecordedIs, OwedFacts DEF SerialInv, SerialTypes, I!LedgerFollowsHistory
    <2>1. CASE s # I!S(r)
      <3>1. serialLedger'[s] = serialLedger[s] /\ silent'[s] = silent[s]
        BY <1>1, <2>1 DEF SerialInv, SerialTypes
      <3>2. I!Owing(s)' = I!Owing(s)
        BY <1>3, <2>1, OthersOwe
      <3>3. I!Owed(s)' = I!Owed(s)
        BY <3>2, OwedFacts DEF SerialInv, SerialTypes
      <3> QED
        BY <2>0, <3>1, <3>3
    <2>2. CASE s = I!S(r)
      <3>1. serialLedger'[s] = serialLedger[s] + n
        BY <1>1, <1>2, <2>2 DEF SerialInv, SerialTypes
      <3>2. r \notin I!Owing(s)
        BY <1>1 DEF I!Owing
      <3>3. CASE I!Draft(r) = copy[r]
        <4>1. silent'[s] = silent[s] + n
          BY <1>1, <1>2, <2>2, <3>3 DEF SerialInv, SerialTypes
        <4>2. r \notin I!Owing(s)'
          BY <1>5, <1>6, <3>3 DEF I!Owing
        <4>3. I!Owing(s)' = I!Owing(s)
          BY <1>3, <3>2, <4>2, OthersOwe
        <4>4. I!Owed(s)' = I!Owed(s)
          BY <4>3, OwedFacts DEF SerialInv, SerialTypes
        <4> QED
          BY <1>2, <2>0, <3>1, <4>1, <4>4
      <3>4. CASE I!Draft(r) # copy[r]
        <4>1. silent'[s] = silent[s]
          BY <1>1, <3>4
        <4>2. r \in I!Owing(s)'
          <5>1. I!Effect(I!Op(r))' # 0
            BY <1>2, <1>5 DEF I!Effect
          <5> QED
            BY <1>3, <1>5, <1>6, <2>2, <3>4, <5>1 DEF I!Owing
        <4>3. I!Owing(s)' = I!Owing(s) \cup {r}
          BY <1>3, <4>2, OthersOwe
        <4>4. I!Owed(s)' = I!Owed(s) + n
          BY <3>2, <4>3, OwedFacts DEF SerialInv, SerialTypes
        <4> QED
          BY <1>2, <2>0, <3>1, <4>1, <4>4
      <3> QED
        BY <3>3, <3>4
    <2> QED
      BY <2>1, <2>2
  <1>10. I!LedgerFollowsHistory'
    BY <1>1, <1>9 DEF I!LedgerFollowsHistory, I!Recorded, I!Effect
  <1>11. Untold'
    BY <1>1, <1>2 DEF SerialInv, SerialTypes, Untold, Holds
  <1> QED
    BY <1>4, <1>8, <1>10, <1>11 DEF SerialInv

\* What is saved is what was read and the transition, unless another call has saved since.
LEMMA SerialSaved ==
    ASSUME SerialAssumption, SerialInv, NEW r \in SerialRequests, I!Save(r),
           serialCall' = serialCall
    PROVE  SerialInv'
  <1> DEFINE n == I!Effect(I!Op(r))
  <1>1. /\ serialPc[r] = "save" /\ serialPc' = [serialPc EXCEPT ![r] = "done"]
        /\ item' = [item EXCEPT ![I!S(r)] = I!Draft(r)]
        /\ stale' = IF item[I!S(r)] # copy[r] THEN stale \cup {I!S(r)} ELSE stale
        /\ UNCHANGED <<serialLedger, silent, expensed, copy>>
    BY DEF I!Save, I!Goto
  <1>2. I!S(r) \in Serials /\ Holds(r) /\ n \in Int
    BY <1>1, TargetsAre DEF SerialInv, SerialTypes, Holding
  <1>3. serialPc'[r] = "done" /\ OthersStay(r)
    BY <1>1 DEF OthersStay, SerialInv, SerialTypes
  <1>4. /\ I!Draft(r) \in Genuine
        /\ I!Recorded(copy[r].history) \in Int
        /\ I!Recorded(I!Draft(r).history)
             = I!Recorded(copy[r].history) + IF I!Draft(r) = copy[r] THEN 0 ELSE n
    BY <1>2, DraftFacts DEF SerialInv, SerialTypes, Holds
  <1>5. SerialTypes'
    BY <1>1, <1>2, <1>4 DEF SerialInv, SerialTypes, SerialSteps
  <1>6. item'[I!S(r)] = I!Draft(r) /\ \A s \in Serials : s # I!S(r) => item'[s] = item[s]
    BY <1>1, <1>2 DEF SerialInv, SerialTypes
  <1>7. \A s \in Serials : item[s] # NoItem <=> item'[s] # NoItem
    BY <1>2, <1>4, <1>6 DEF Holds, SerialInv, SerialTypes
  <1>8. ASSUME NEW x \in SerialRequests, serialPc'[x] \in Holding PROVE Holds(x)'
    <2>1. x # r /\ Holds(x) /\ I!S(x) \in Serials
      BY <1>3, <1>8, TargetsAre DEF OthersStay, SerialInv, SerialTypes, Holding
    <2> QED
      BY <1>1, <1>3, <1>7, <2>1, OthersHold
  <1>9. ASSUME NEW s \in Serials, s \notin stale', item'[s] # NoItem
        PROVE  serialLedger[s] = silent[s] + I!Recorded(item'[s].history) + I!Owed(s)'
    <2>0. /\ serialLedger[s] = silent[s] + I!Recorded(item[s].history) + I!Owed(s)
          /\ serialLedger[s] \in Int /\ silent[s] \in Int /\ I!Owed(s) \in Int
      BY <1>1, <1>7, <1>9, OwedFacts DEF SerialInv, SerialTypes, I!LedgerFollowsHistory
    <2>1. CASE s # I!S(r)
      <3>1. I!Owing(s)' = I!Owing(s)
        BY <1>3, <2>1, OthersOwe
      <3>2. I!Owed(s)' = I!Owed(s)
        BY <3>1, OwedFacts DEF SerialInv, SerialTypes
      <3> QED
        BY <1>6, <2>0, <2>1, <3>2
    <2>2. CASE s = I!S(r)
      <3>1. item[s] = copy[r]
        BY <1>1, <1>9, <2>2
      <3>2. r \notin I!Owing(s)'
        BY <1>3 DEF I!Owing
      <3>3. CASE I!Draft(r) = copy[r] \/ n = 0
        <4>1. r \notin I!Owing(s)
          BY <3>3 DEF I!Owing
        <4>2. I!Owing(s)' = I!Owing(s)
          BY <1>3, <3>2, <4>1, OthersOwe
        <4>3. I!Owed(s)' = I!Owed(s)
          BY <4>2, OwedFacts DEF SerialInv, SerialTypes
        <4> QED
          BY <1>4, <1>6, <2>0, <2>2, <3>1, <3>3, <4>3
      <3>4. CASE I!Draft(r) # copy[r] /\ n # 0
        <4>1. r \in I!Owing(s)
          BY <1>1, <2>2, <3>4 DEF I!Owing
        <4>2. I!Owing(s) = I!Owing(s)' \cup {r}
          BY <1>3, <3>2, <4>1, OthersOwe
        <4>3. I!Owed(s)' = I!Owed(s) - n
          BY <3>2, <4>2, OwedFacts DEF SerialInv, SerialTypes
        <4> QED
          BY <1>2, <1>4, <1>6, <2>0, <2>2, <3>1, <3>4, <4>3
      <3> QED
        BY <3>3, <3>4
    <2> QED
      BY <2>1, <2>2
  <1>10. I!LedgerFollowsHistory'
    BY <1>1, <1>9 DEF I!LedgerFollowsHistory, I!Recorded, I!Effect
  <1>11. Untold'
    BY <1>1, <1>7 DEF SerialInv, Untold
  <1> QED
    BY <1>5, <1>8, <1>10, <1>11 DEF SerialInv

LEMMA SerialFound ==
    ASSUME SerialAssumption, SerialInv, NEW r \in SerialRequests, I!Find(r),
           serialCall' = serialCall
    PROVE  SerialInv'
  <1> DEFINE at == IF I!Effect(I!Op(r)) # 0 THEN "append"
                   ELSE IF I!Op(r) = "writeOff" THEN "cost" ELSE "save"
  <1>0. serialPc[r] = "find" /\ I!S(r) \in Serials
    BY TargetsAre DEF I!Find, SerialInv, SerialTypes
  <1>1. CASE item[I!S(r)] # NoItem /\ I!Permits(item[I!S(r)], r)
    <2>1. /\ copy' = [copy EXCEPT ![r] = item[I!S(r)]] /\ I!Goto(r, at)
          /\ UNCHANGED <<item, serialLedger, expensed, silent, stale>>
      <3>1. /\ copy' = [copy EXCEPT ![r] = item[I!S(r)]]
            /\ I!Goto(r, CASE I!Effect(I!Op(r)) # 0  -> "append"
                           [] I!Op(r) = "writeOff" -> "cost"
                           [] OTHER                -> "save")
            /\ UNCHANGED <<item, serialLedger, expensed, silent, stale>>
        BY <1>1 DEF I!Find, I!tables
      <3>2. I!Op(r) = "writeOff" => I!Effect(I!Op(r)) = 0
        BY DEF I!Effect
      <3>3. at = CASE I!Effect(I!Op(r)) # 0  -> "append"
                   [] I!Op(r) = "writeOff" -> "cost"
                   [] OTHER                -> "save"
        BY <3>2
      <3> QED
        BY <3>1, <3>3
    <2>2. serialPc'[r] = at /\ copy'[r] = item[I!S(r)]
      BY <2>1 DEF I!Goto, SerialInv, SerialTypes
    <2>3. I!Op(r)' = I!Op(r) /\ I!S(r)' = I!S(r)
      BY DEF I!Op, I!S
    <2>4. I!Permits(copy[r], r)'
      <3>1. I!Targets(r)' = I!Targets(r)
        BY <2>3 DEF I!Targets
      <3> QED
        BY <1>1, <2>2, <3>1 DEF I!Permits, I!CanMove
    <2>5. copy'[r] \in Genuine
      BY <1>0, <1>1, <2>2 DEF SerialInv, SerialTypes
    <2>6. at = "append" <=> I!Effect(I!Op(r))' # 0
      BY <2>3 DEF I!Effect
    <2>7. Holds(r)'
      BY <1>1, <2>1, <2>2, <2>3, <2>4, <2>5, <2>6 DEF Holds
    <2>8. at \in SerialSteps /\ (at = "save" => I!Effect(I!Op(r)) = 0)
      BY DEF SerialSteps
    <2> HIDE DEF at
    <2> QED
      BY <1>0, <1>1, <2>1, <2>7, <2>8, SerialGoesOn
  <1>2. CASE ~(item[I!S(r)] # NoItem /\ I!Permits(item[I!S(r)], r))
    <2>1. I!Goto(r, "rejected") /\ UNCHANGED <<item, serialLedger, expensed, silent, stale, copy>>
      BY <1>2 DEF I!Find, I!tables
    <2> QED
      BY <1>0, <2>1, SerialGoesOn DEF SerialSteps, Holding
  <1> QED
    BY <1>1, <1>2

\* The steps of a call between what it reads and what it writes.
LEMMA SerialBetween ==
    ASSUME SerialAssumption, SerialInv, NEW r \in SerialRequests,
           I!Check(r) \/ I!Register(r) \/ I!FindCost(r) \/ I!Expense(r) \/ I!ConsumeLayer(r),
           serialCall' = serialCall
    PROVE  SerialInv'
  <1>0. I!Op(r)' = I!Op(r) /\ I!S(r)' = I!S(r) /\ I!S(r) \in Serials
    BY TargetsAre DEF I!Op, I!S, SerialInv, SerialTypes
  <1>1. CASE I!Check(r) \/ I!Register(r)
    <2>1. /\ serialPc[r] # "save" /\ UNCHANGED <<item, serialLedger, expensed, silent, stale, copy>>
          /\ \E at \in SerialSteps \ Holding : I!Goto(r, at)
      BY <1>1 DEF I!Check, I!Register, I!tables, SerialSteps, Holding
    <2>2. PICK at \in SerialSteps \ Holding : I!Goto(r, at)
      BY <2>1
    <2> QED
      BY <2>1, <2>2, SerialGoesOn DEF Holding
  <1>2. CASE I!FindCost(r) \/ I!Expense(r) \/ I!ConsumeLayer(r)
    <2>1. PICK at \in {"expense", "rejected", "consume", "save"} :
            /\ I!Goto(r, at) /\ serialPc[r] \in {"cost", "expense", "consume"}
            /\ UNCHANGED <<item, serialLedger, silent, stale, copy>>
            /\ \/ expensed' = expensed /\ (at = "save" => serialPc[r] = "consume")
                  /\ at # "consume"
               \/ expensed' = [expensed EXCEPT ![I!S(r)] = @ + 1] /\ at = "consume"
      BY <1>2 DEF I!FindCost, I!Expense, I!ConsumeLayer, I!tables
    <2>2. Holds(r) /\ I!Op(r) = "writeOff"
      BY <2>1 DEF SerialInv, Holding, Holds
    <2>3. I!Effect(I!Op(r)) = 0 /\ I!Effect(I!Op(r))' = 0
      BY <1>0, <2>2 DEF I!Effect
    <2>4. serialPc'[r] = at
      BY <2>1 DEF I!Goto, SerialInv, SerialTypes
    <2>5. at \in {"consume", "save"} => expensed'[I!S(r)] > 0
      BY <1>0, <2>1, <2>2 DEF SerialInv, SerialTypes, Holds
    <2>6. ASSUME at \in Holding PROVE Holds(r)'
      <3>1. I!Targets(r)' = I!Targets(r)
        BY <1>0 DEF I!Targets
      <3>2. I!Permits(copy[r], r)'
        BY <2>1, <2>2, <3>1 DEF I!Permits, I!CanMove, Holds
      <3> QED
        BY <1>0, <2>1, <2>2, <2>3, <2>4, <2>5, <3>2 DEF Holds
    <2> QED
      BY <2>1, <2>3, <2>6, SerialGoesOn DEF SerialSteps
  <1> QED
    BY <1>1, <1>2

LEMMA SerialsStart == ASSUME SerialAssumption, NoItem \notin Genuine, I!Init PROVE SerialInv
  <1>1. SerialTypes
    BY DEF I!Init, SerialTypes, SerialSteps
  <1>2. \A r \in SerialRequests : serialPc[r] \in {"check", "find"}
    BY DEF I!Init
  <1>3. \A s \in Serials : item[s] = NoItem /\ serialLedger[s] = 0 /\ silent[s] = 0
    BY DEF I!Init
  <1> QED
    BY <1>1, <1>2, <1>3 DEF SerialInv, Untold, I!LedgerFollowsHistory, Holding

LEMMA SerialsSame ==
    ASSUME SerialAssumption, SerialInv,
           UNCHANGED <<item, serialLedger, expensed, serialCall, serialPc, copy, silent, stale>>
    PROVE  SerialInv'
  <1>1. \A r \in SerialRequests : I!Permits(copy[r], r)' <=> I!Permits(copy[r], r)
    BY DEF I!Permits, I!CanMove, I!Targets, I!Op
  <1>2. \A r \in SerialRequests : Holds(r) => Holds(r)'
    BY <1>1 DEF Holds, I!Op, I!S, I!Effect
  <1>3. I!LedgerFollowsHistory'
    <2>1. ASSUME NEW s PROVE I!Owing(s)' = I!Owing(s)
      <3>1. \A r \in SerialRequests : I!Op(r)' = I!Op(r) /\ copy'[r] = copy[r]
        BY DEF I!Op
      <3>2. \A r \in SerialRequests : I!Targets(r)' = I!Targets(r)
        BY <3>1 DEF I!Targets
      <3>3. \A r \in SerialRequests : I!Draft(r)' = I!Draft(r)
        BY <3>1, <3>2 DEF I!Draft, I!Moved
      <3> QED
        BY <3>1, <3>3 DEF I!Owing, I!S, I!Effect
    <2>2. \A s : I!Owed(s)' = I!Owed(s)
      BY <2>1, OwedFacts DEF SerialInv, SerialTypes
    <2> QED
      BY <2>2 DEF SerialInv, I!LedgerFollowsHistory, I!Recorded, I!Effect
  <1>4. SerialTypes' /\ Untold'
    BY DEF SerialInv, SerialTypes, Untold
  <1> QED
    BY <1>2, <1>3, <1>4 DEF SerialInv

LEMMA SerialsStep ==
    ASSUME SerialAssumption, SerialInv, [I!Next]_(I!vars)
    PROVE  SerialInv'
  <1>1. CASE UNCHANGED I!vars
    BY <1>1, SerialsSame DEF I!vars, I!tables
  <1>2. CASE I!Next
    <2>1. PICK r \in SerialRequests : I!Step(r) \/ I!Crash(r)
      BY <1>2 DEF I!Next
    <2>2. CASE I!Step(r)
      <3>1. I!Execute(r) /\ serialCall' = serialCall
        BY <2>2 DEF I!Step
      <3> QED
        BY <3>1, SerialBetween, SerialFound, SerialInserted, SerialAppended, SerialSaved
        DEF I!Execute
    <2>3. CASE I!Crash(r)
      <3>1. serialCall' = serialCall /\ serialPc' = serialPc /\ copy' = copy
            /\ UNCHANGED <<item, serialLedger, expensed, silent, stale>>
        BY <2>3 DEF I!Crash, I!tables
      <3> QED
        BY <3>1, SerialsSame
    <2> QED
      BY <2>1, <2>2, <2>3
  <1> QED
    BY <1>1, <1>2

\* What its history says of an item, as a path.
LEMMA PathIs ==
    ASSUME NEW row \in Genuine
    PROVE  LET path == <<"pending">> \o [i \in DOMAIN row.history |-> row.history[i].to]
           IN  /\ row.status = Last(path)
               /\ \A i \in DOMAIN row.history :
                    row.history[i].from = path[i] /\ path[i + 1] \in I!Allowed[path[i]]
  <1> DEFINE h == row.history
             tail == [i \in DOMAIN h |-> h[i].to]
             path == <<"pending">> \o tail
  <1>1. h \in Seq(Transition) /\ DOMAIN h = 1..Len(h) /\ Len(h) \in Nat
    BY DEF Genuine
  <1>2. tail \in Seq(I!Statuses) /\ Len(tail) = Len(h) /\ \A i \in 1..Len(h) : tail[i] = h[i].to
    <2>1. \A i \in 1..Len(h) : h[i].to \in I!Statuses
      <3>1. \A i \in 1..Len(h) : h[i] \in Transition
        BY <1>1
      <3> QED
        BY <3>1 DEF Transition
    <2>2. tail \in [1..Len(h) -> I!Statuses]
      BY <1>1, <2>1
    <2> QED
      BY <1>1, <2>2
  <1>3. /\ <<"pending">> \in Seq(I!Statuses) /\ Len(<<"pending">>) = 1 /\ <<"pending">>[1] = "pending"
    BY DEF I!Statuses
  <1> HIDE DEF tail
  <1>4. Len(path) = Len(h) + 1 /\ \A i \in 1..(Len(h) + 1) : path[i] = Before(h, i)
    <2>1. Len(path) = 1 + Len(tail) /\ path[1] = "pending"
      BY <1>2, <1>3
    <2>2. ASSUME NEW i \in 1..(Len(h) + 1), i # 1 PROVE path[i] = tail[i - 1]
      BY <1>1, <1>2, <1>3, <2>2
    <2>3. ASSUME NEW i \in 1..(Len(h) + 1), i # 1 PROVE i - 1 \in 1..Len(h)
      BY <1>1, <2>3
    <2> HIDE DEF path
    <2> QED
      BY <1>1, <1>2, <2>1, <2>2, <2>3 DEF Before
  <1>5. row.status = Last(path)
    <2>1. row.status = Before(h, Len(h) + 1)
      BY DEF Genuine, Reached
    <2> HIDE DEF path
    <2> QED
      BY <1>1, <1>4, <2>1 DEF Last
  <1>6. ASSUME NEW i \in DOMAIN h
        PROVE  h[i].from = path[i] /\ path[i + 1] \in I!Allowed[path[i]]
    <2> HIDE DEF path
    <2>1. i \in 1..(Len(h) + 1) /\ i + 1 \in 1..(Len(h) + 1) /\ i + 1 # 1 /\ (i + 1) - 1 = i
      BY <1>1
    <2>2. path[i] = Before(h, i) /\ path[i + 1] = h[i].to
      BY <1>4, <2>1 DEF Before
    <2> QED
      BY <1>1, <2>2 DEF Genuine
  <1> QED
    BY <1>5, <1>6 DEF tail

LEMMA SerialsAlways ==
    ASSUME SerialAssumption, NoItem \notin Genuine
    PROVE  I!Spec => []SerialInv
  <1>1. I!Init => SerialInv
    BY SerialsStart
  <1>2. SerialInv /\ [I!Next]_(I!vars) => SerialInv'
    BY SerialsStep
  <1> QED
    BY <1>1, <1>2, PTL DEF I!Spec

\* The history of a serial number is a path of its lifecycle, whichever calls overlap, and
\* the ledger says what the receipts and sales in it say, but for entries that changed no
\* status, entries whose transition is not saved, and items that an old copy overwrote
\* (ManageSerializedItems.ts): for any serial numbers and calls.
THEOREM SerialsAreTraced ==
    ASSUME SerialAssumption, NoItem \notin Genuine
    PROVE  I!Spec => [](I!HistoryIsPath /\ I!LedgerFollowsHistory)
  <1>1. SerialInv => I!HistoryIsPath /\ I!LedgerFollowsHistory
    <2> SUFFICES ASSUME SerialInv, NEW s \in Serials, item[s] # NoItem
                 PROVE  LET path == <<"pending">> \o
                              [i \in DOMAIN item[s].history |-> item[s].history[i].to]
                        IN  /\ item[s].status = I!Last(path)
                            /\ \A i \in DOMAIN item[s].history :
                                item[s].history[i].from = path[i] /\ path[i + 1] \in I!Allowed[path[i]]
      BY DEF SerialInv, I!HistoryIsPath
    <2>1. item[s] \in Genuine
      BY DEF SerialInv, SerialTypes
    <2> QED
      BY <2>1, PathIs DEF I!Last, Last
  <1> QED
    BY <1>1, SerialsAlways, PTL

\* An item that is written off stays so, unless an old copy comes back; and what writeOff
\* has written off is in the journal, however calls overlap (ManageSerializedItems.ts).
THEOREM WriteOffsStay ==
    ASSUME SerialAssumption, NoItem \notin Genuine
    PROVE  I!Spec => [][I!KeepsWriteOffs]_(I!vars)
  <1>1. ASSUME SerialInv, [I!Next]_(I!vars) PROVE [I!KeepsWriteOffs]_(I!vars)
    <2> SUFFICES ASSUME I!Next PROVE I!KeepsWriteOffs
      BY <1>1
    <2> SUFFICES ASSUME NEW s \in Serials, item[s] # NoItem, item'[s] # item[s]
                 PROVE  /\ item[s].status = "written_off" =>
                             item'[s].status = "written_off" \/ s \in stale'
                        /\ item'[s].status = "written_off" =>
                             expensed[s] > 0 \/ Last(item'[s].history).op = "rmaScrap"
      BY DEF I!KeepsWriteOffs, I!Last, Last
    <2>1. PICK r \in SerialRequests : I!Step(r) \/ I!Crash(r)
      BY DEF I!Next
    <2>2. I!Insert(r) \/ I!Save(r)
      <3>1. item' # item
        OBVIOUS
      <3> QED
        BY <2>1, <3>1 DEF I!Step, I!Execute, I!Check, I!Register, I!Find, I!AppendEntry,
             I!FindCost, I!Expense, I!ConsumeLayer, I!Crash, I!tables
    <2>3. I!S(r) \in Serials
      BY <1>1, TargetsAre DEF SerialInv, SerialTypes
    <2>4. I!Save(r) /\ s = I!S(r)
      <3>1. ~I!Insert(r)
        BY <1>1, <2>3 DEF I!Insert, SerialInv, SerialTypes
      <3> QED
        BY <1>1, <2>2, <2>3, <3>1 DEF I!Save, SerialInv, SerialTypes
    <2>5. /\ item'[s] = I!Draft(r) /\ serialPc[r] = "save"
          /\ s \notin stale' => item[s] = copy[r]
      BY <1>1, <2>4 DEF I!Save, SerialInv, SerialTypes
    <2>6. Holds(r)
      BY <1>1, <2>5 DEF SerialInv, Holding
    <2>7. /\ copy[r].status = "written_off" \/ I!Op(r) = "writeOff"
               => I!Draft(r).status = "written_off"
          /\ I!Draft(r).status = "written_off" =>
               I!Op(r) = "writeOff" \/ Last(I!Draft(r).history).op = "rmaScrap"
      BY <1>1, <2>6, DraftFacts DEF Holds, SerialInv, SerialTypes
    <2> QED
      BY <2>4, <2>5, <2>6, <2>7 DEF Holds
  <1> QED
    BY <1>1, SerialsAlways, PTL DEF I!Spec

-----------------------------------------------------------------------------
(***************************************************************************)
(* Lots.  The entries and the layers are, call for call, what the calls    *)
(* that have written them had to say (EntriesAre, LayersAre), and the row  *)
(* is what the calls that have saved it have added and taken (RowIs),      *)
(* because a call that saves has read the row as it is (Current).  The     *)
(* rest is arithmetic: sums over entries and layers are sums over calls.   *)
(***************************************************************************)
CONSTANTS LotNumbers, LotCalls, LotCommands, Capacity, MaxStops, NoRecord
VARIABLES lotRow, lotEntries, lotLayers, batch, lotCall, lotPc, lotRead, lotHalted

L == INSTANCE Lots WITH
       Calls <- LotCalls, Commands <- LotCommands, Missing <- NoRecord, row <- lotRow,
       entries <- lotEntries, layers <- lotLayers, call <- lotCall, pc <- lotPc,
       loaded <- lotRead, halted <- lotHalted

StatusOps == {"quarantine", "recall", "release"}
LotAssumption ==
    /\ LotCommands \subseteq
         [op : {"receive"}, lot : LotNumbers \cup {L!NoLot}, amount : Nat, cost : Int]
         \cup [op : {"dispatch"}, amount : Nat]
         \cup [op : StatusOps, lot : LotNumbers]
    /\ IsFiniteSet(LotCalls)
    /\ L!NoLot \notin LotNumbers
    /\ NoRecord \notin L!Item

LotSteps == {"check", "load", "save", "append", "layer", "mark", "done", "refused"}

LotTypes ==
    /\ lotCall \in [LotCalls -> LotCommands]
    /\ lotPc \in [LotCalls -> LotSteps]
    /\ DOMAIN lotRead = LotCalls
    /\ lotRow \in L!Item \cup {NoRecord}

\* Calls come to their steps as the kind of call that they are; what a receipt has entered
\* names a lot.
InOrder(c) ==
    /\ lotPc[c] = "layer" => lotCall[c].op = "receive"
    /\ lotPc[c] = "mark" => lotCall[c].op \in StatusOps
    /\ lotPc[c] \in {"save", "append"} => lotCall[c].op \in {"receive", "dispatch"}
    /\ lotPc[c] \in {"layer", "done"} /\ lotCall[c].op = "receive" => lotCall[c].lot # L!NoLot

\* What a call has read is an earlier row, and the present one if the version is the same.
Current(c) ==
    lotPc[c] = "save" =>
        /\ lotRead[c] # NoRecord =>
             /\ lotRead[c] \in L!Item /\ lotRow \in L!Item
             /\ lotRead[c].version <= lotRow.version
             /\ lotRead[c].version = lotRow.version => lotRead[c] = lotRow
        /\ lotCall[c].op = "dispatch" =>
             lotRead[c] \in L!Item /\ lotCall[c].amount <= lotRead[c].quantity

In == L!Receipts({"append", "layer", "done"})
Out == L!Sales({"append", "done"})
Entered == L!Receipts({"layer", "done"})
Sold == L!Sales({"done"})
EntriesAre == lotEntries = {L!Entry(c) : c \in Entered \cup Sold}
LayersAre == lotLayers = {L!Layer(c) : c \in L!Receipts({"done"})}
RowIs == L!OnHand(lotRow) = L!Amount(In) - L!Amount(Out)

LotInv ==
    /\ LotTypes /\ EntriesAre /\ LayersAre /\ RowIs
    /\ \A c \in LotCalls : InOrder(c) /\ Current(c)

-----------------------------------------------------------------------------
LEMMA SumOfLots == \A f, S : L!SumFunctionOnSet(f, S) = SumFunctionOnSet(f, S)
BY DEF L!SumFunctionOnSet, SumFunctionOnSet, L!FoldFunctionOnSet, FoldFunctionOnSet,
       L!MapThenFoldSet, MapThenFoldSet

LEMMA LotCommandsAre ==
    ASSUME LotAssumption, lotCall \in [LotCalls -> LotCommands], NEW c \in LotCalls
    PROVE  /\ lotCall[c].op \in {"receive", "dispatch"} \cup StatusOps
           /\ lotCall[c].op = "receive" => lotCall[c].lot \in LotNumbers \cup {L!NoLot}
           /\ lotCall[c].op \in {"receive", "dispatch"} => lotCall[c].amount \in Nat
  <1>1. lotCall[c] \in [op : {"receive"}, lot : LotNumbers \cup {L!NoLot}, amount : Nat, cost : Int]
         \cup [op : {"dispatch"}, amount : Nat]
         \cup [op : StatusOps, lot : LotNumbers]
    BY DEF LotAssumption
  <1> QED
    BY <1>1 DEF StatusOps

\* The amounts of calls that receive or take out, as one function of the calls.
UnitsMoved == [c \in LotCalls |-> IF lotCall[c].op \in {"receive", "dispatch"}
                               THEN lotCall[c].amount ELSE 0]
Moving == {c \in LotCalls : lotCall[c].op \in {"receive", "dispatch"}}

LEMMA AmountIs ==
    ASSUME LotAssumption, lotCall \in [LotCalls -> LotCommands], NEW S \in SUBSET Moving
    PROVE  /\ Summable(UnitsMoved, S)
           /\ L!Amount(S) = SumFunctionOnSet(UnitsMoved, S)
           /\ L!Amount(S) \in Nat
  <1>1. \A c \in S : UnitsMoved[c] = lotCall[c].amount /\ UnitsMoved[c] \in Nat
    BY LotCommandsAre DEF UnitsMoved, Moving
  <1>2. IsFiniteSet(S)
    BY FS_Subset DEF LotAssumption, Moving
  <1> DEFINE f == [c \in S |-> lotCall[c].amount]
  <1>3. L!Amount(S) = SumFunctionOnSet(f, S)
    BY SumOfLots DEF L!Amount
  <1>4. Summable(UnitsMoved, S) /\ \A c \in S : UnitsMoved[c] = f[c]
    BY <1>1, <1>2 DEF Summable
  <1> HIDE DEF f
  <1>5. SumFunctionOnSet(UnitsMoved, S) = SumFunctionOnSet(f, S)
    BY <1>4, SumSame
  <1>6. SumFunctionOnSet(UnitsMoved, S) \in Nat
    BY <1>1, <1>2, SumNat
  <1> QED
    BY <1>3, <1>4, <1>5, <1>6

LEMMA LotsStart == ASSUME LotAssumption, L!Init PROVE LotInv
  <1>1. LotTypes
    BY DEF L!Init, LotTypes, LotSteps
  <1>2. Entered = {} /\ Sold = {} /\ L!Receipts({"done"}) = {} /\ In = {} /\ Out = {}
    BY DEF L!Init, Entered, Sold, In, Out, L!Receipts, L!Sales
  <1>3. EntriesAre /\ LayersAre
    BY <1>2 DEF EntriesAre, LayersAre, L!Init
  <1>4. L!Amount({}) = 0
    BY SumOfLots, SumEmpty DEF L!Amount
  <1>5. RowIs
    BY <1>2, <1>4 DEF RowIs, L!OnHand, L!Init
  <1>6. \A c \in LotCalls : lotPc[c] \in {"check", "load"}
    BY DEF L!Init
  <1> QED
    BY <1>1, <1>3, <1>5, <1>6 DEF LotInv, InOrder, Current

\* What does not depend on the step that a call is at.
LEMMA LotFixed ==
    ASSUME lotCall' = lotCall, NEW c
    PROVE  L!Entry(c)' = L!Entry(c) /\ L!Layer(c)' = L!Layer(c)
BY DEF L!Entry, L!Layer

\* Which of the calls that the invariant speaks of there are after c has gone to a step.
LEMMA WritersAt ==
    ASSUME lotCall' = lotCall, LotTypes, NEW c \in LotCalls, NEW at, L!Goto(c, at)
    PROVE  LET Moves(S, next, op, steps) ==
                 /\ c \in S <=> lotCall[c].op = op /\ lotPc[c] \in steps
                 /\ (lotCall[c].op = op => (lotPc[c] \in steps <=> at \in steps)) => next = S
                 /\ lotCall[c].op = op /\ at \in steps => next = S \cup {c}
           IN  /\ Moves(In, In', "receive", {"append", "layer", "done"})
               /\ Moves(Out, Out', "dispatch", {"append", "done"})
               /\ Moves(Entered, Entered', "receive", {"layer", "done"})
               /\ Moves(Sold, Sold', "dispatch", {"done"})
               /\ Moves(L!Receipts({"done"}), L!Receipts({"done"})', "receive", {"done"})
  <1> DEFINE Moves(S, next, op, steps) ==
                 /\ c \in S <=> lotCall[c].op = op /\ lotPc[c] \in steps
                 /\ (lotCall[c].op = op => (lotPc[c] \in steps <=> at \in steps)) => next = S
                 /\ lotCall[c].op = op /\ at \in steps => next = S \cup {c}
             Both(steps) == /\ Moves(L!Receipts(steps), L!Receipts(steps)', "receive", steps)
                            /\ Moves(L!Sales(steps), L!Sales(steps)', "dispatch", steps)
  <1>1. ASSUME NEW steps PROVE Both(steps)
    <2>1. \A d \in LotCalls : lotPc'[d] = IF d = c THEN at ELSE lotPc[d]
      BY DEF L!Goto, LotTypes
    <2>2. Moves(L!Receipts(steps), L!Receipts(steps)', "receive", steps)
      BY <2>1 DEF L!Receipts
    <2>3. Moves(L!Sales(steps), L!Sales(steps)', "dispatch", steps)
      BY <2>1 DEF L!Sales
    <2> QED
      BY <2>2, <2>3
  <1>2. Both({"append", "layer", "done"}) /\ Both({"layer", "done"})
    <2> HIDE DEF Both
    <2> QED
      BY <1>1
  <1>3. Both({"append", "done"}) /\ Both({"done"})
    <2> HIDE DEF Both
    <2> QED
      BY <1>1
  <1> QED
    BY <1>2, <1>3 DEF In, Out, Entered, Sold

LEMMA SameAmounts ==
    ASSUME lotCall' = lotCall, lotRow' = lotRow, In' = In, Out' = Out, RowIs
    PROVE  RowIs'
BY DEF RowIs, L!Amount, L!OnHand

LEMMA SameRecords ==
    ASSUME lotCall' = lotCall, lotEntries' = lotEntries, lotLayers' = lotLayers,
           Entered' = Entered, Sold' = Sold, L!Receipts({"done"})' = L!Receipts({"done"}),
           EntriesAre, LayersAre
    PROVE  EntriesAre' /\ LayersAre'
BY LotFixed DEF EntriesAre, LayersAre

\* A step of one call that adds nothing to the row, the ledger or the layers.
LEMMA LotGoesOn ==
    ASSUME LotInv, lotCall' = lotCall, UNCHANGED <<lotRow, lotEntries, lotLayers>>,
           NEW c \in LotCalls, NEW at \in LotSteps, L!Goto(c, at),
           \/ {lotPc[c], at} \cap {"append", "layer", "done"} = {}
           \/ lotCall[c].op \notin {"receive", "dispatch"},
           DOMAIN lotRead' = LotCalls,
           \A d \in LotCalls : d # c => lotRead'[d] = lotRead[d],
           InOrder(c)', Current(c)'
    PROVE  LotInv'
  <1>1. LotTypes'
    BY DEF LotInv, LotTypes, L!Goto
  <1>2. /\ Entered' = Entered /\ Sold' = Sold /\ L!Receipts({"done"})' = L!Receipts({"done"})
        /\ In' = In /\ Out' = Out
    BY WritersAt DEF LotInv
  <1>3. RowIs' /\ EntriesAre' /\ LayersAre'
    BY <1>2, SameAmounts, SameRecords DEF LotInv
  <1>4. ASSUME NEW d \in LotCalls, d # c PROVE InOrder(d)' /\ Current(d)'
    <2>1. lotPc'[d] = lotPc[d] /\ lotRead'[d] = lotRead[d] /\ InOrder(d) /\ Current(d)
      BY <1>4 DEF LotInv, LotTypes, L!Goto
    <2> QED
      BY <2>1 DEF InOrder, Current
  <1> QED
    BY <1>1, <1>3, <1>4 DEF LotInv

LEMMA LotSaved ==
    ASSUME LotAssumption, LotInv, lotCall' = lotCall, NEW c \in LotCalls, L!Save(c)
    PROVE  LotInv'
  <1> DEFINE old == IF lotRead[c] = NoRecord THEN L!CreateNew ELSE lotRead[c]
             n == lotCall[c].amount
             left == IF lotCall[c].op = "receive" THEN old.quantity + n ELSE old.quantity - n
  <1>1. /\ lotPc[c] = "save" /\ L!UpToDate(c) /\ lotRow' = L!Draft(c) /\ L!Goto(c, "append")
        /\ UNCHANGED <<lotEntries, lotLayers, lotRead>>
    BY DEF L!Save, L!At
  <1>2. /\ lotCall[c].op \in {"receive", "dispatch"} /\ n \in Nat
    BY <1>1, LotCommandsAre DEF LotInv, LotTypes, InOrder
  <1>3. lotRead[c] = lotRow
    BY <1>1 DEF L!UpToDate, LotInv, Current
  <1>4. lotRow \in L!Item \cup {NoRecord} /\ NoRecord \notin L!Item
    BY DEF LotInv, LotTypes, LotAssumption
  <1>5. old \in L!Item /\ old.quantity = L!OnHand(lotRow)
    BY <1>3, <1>4 DEF L!OnHand, L!CreateNew, L!Item
  <1>6. left \in Nat
    BY <1>1, <1>2, <1>4, <1>5 DEF LotInv, Current, L!Item
  <1>7. L!Draft(c) = L!Revised(old, left, old.allocated, old.inTransit)
    <2>1. lotCall[c].op = "dispatch" => old = lotRead[c]
      BY <1>1, <1>4 DEF LotInv, Current
    <2> QED
      BY <1>2, <2>1 DEF L!Draft, L!ReceiveStock, L!DispatchStock
  <1>8. lotRow' \in L!Item /\ lotRow'.version = old.version + 1 /\ L!OnHand(lotRow)' = left
    <2>1. lotRow' \in L!Item /\ lotRow'.version = old.version + 1 /\ lotRow'.quantity = left
      <3> HIDE DEF old, left
      <3> QED
        BY <1>1, <1>5, <1>6, <1>7 DEF L!Revised, L!Item
    <2> QED
      BY <1>4, <2>1 DEF L!OnHand
  <1>9. /\ In' = IF lotCall[c].op = "receive" THEN In \cup {c} ELSE In
        /\ Out' = IF lotCall[c].op = "dispatch" THEN Out \cup {c} ELSE Out
        /\ c \notin In /\ c \notin Out
        /\ Entered' = Entered /\ Sold' = Sold /\ L!Receipts({"done"})' = L!Receipts({"done"})
    BY <1>1, <1>2, WritersAt DEF LotInv
  <1>10. /\ In \in SUBSET Moving /\ Out \in SUBSET Moving /\ c \in Moving
    BY <1>2 DEF In, Out, Moving, L!Receipts, L!Sales
  <1>11. ASSUME NEW S \in SUBSET Moving, c \notin S
         PROVE  L!Amount(S \cup {c}) = L!Amount(S) + n
    <2>1. S \cup {c} \in SUBSET Moving
      BY <1>10
    <2>2. Summable(UnitsMoved, S \cup {c}) /\ UnitsMoved[c] = n
      BY <1>2, <2>1, AmountIs DEF UnitsMoved, LotInv, LotTypes
    <2>3. SumFunctionOnSet(UnitsMoved, S \cup {c}) = SumFunctionOnSet(UnitsMoved, S) + n
      BY <1>11, <2>2, SumAddElement
    <2> QED
      BY <2>1, <2>3, AmountIs DEF LotInv, LotTypes
  <1>12. L!Amount(In) \in Nat /\ L!Amount(Out) \in Nat
    BY <1>10, AmountIs DEF LotInv, LotTypes
  <1>13. \A S : L!Amount(S)' = L!Amount(S)
    BY DEF L!Amount
  <1>14. left = L!Amount(In') - L!Amount(Out')
    <2>1. old.quantity = L!Amount(In) - L!Amount(Out)
      BY <1>5 DEF LotInv, RowIs
    <2>2. CASE lotCall[c].op = "receive"
      <3>1. L!Amount(In') = L!Amount(In) + n /\ L!Amount(Out') = L!Amount(Out)
        BY <1>9, <1>10, <1>11, <2>2
      <3> QED
        BY <1>2, <1>12, <2>1, <2>2, <3>1
    <2>3. CASE lotCall[c].op = "dispatch"
      <3>1. L!Amount(In') = L!Amount(In) /\ L!Amount(Out') = L!Amount(Out) + n
        BY <1>9, <1>10, <1>11, <2>3
      <3> QED
        BY <1>2, <1>12, <2>1, <2>3, <3>1
    <2> QED
      BY <1>2, <2>2, <2>3
  <1>15. RowIs'
    <2>1. PICK S, T : S = In' /\ T = Out'
      OBVIOUS
    <2>2. (L!Amount(In) - L!Amount(Out))' = L!Amount(S) - L!Amount(T)
      BY <2>1 DEF L!Amount
    <2> QED
      BY <1>8, <1>14, <2>1, <2>2 DEF RowIs
  <1>16. EntriesAre' /\ LayersAre'
    BY <1>1, <1>9, SameRecords DEF LotInv
  <1>17. LotTypes'
    BY <1>1, <1>8 DEF LotInv, LotTypes, L!Goto, LotSteps
  <1>18. \A d \in LotCalls : lotPc'[d] = IF d = c THEN "append" ELSE lotPc[d]
    BY <1>1 DEF LotInv, LotTypes, L!Goto
  <1>19. \A d \in LotCalls : InOrder(d)'
    BY <1>2, <1>18 DEF LotInv, InOrder
  <1>20. ASSUME NEW d \in LotCalls, lotPc'[d] = "save" PROVE Current(d)'
    <2>1. lotPc[d] = "save" /\ Current(d) /\ lotRead'[d] = lotRead[d]
      BY <1>1, <1>18, <1>20 DEF LotInv
    <2>2. lotRead[d] # NoRecord =>
             lotRead[d] \in L!Item /\ lotRead[d].version <= old.version
               /\ lotRead[d].version \in Nat /\ old.version \in Nat
      <3>1. lotRead[d] # NoRecord => lotRow \in L!Item /\ old = lotRow
        BY <1>3, <1>4, <2>1 DEF Current
      <3> HIDE DEF old
      <3> QED
        BY <1>5, <2>1, <3>1 DEF Current, L!Item
    <2> HIDE DEF old
    <2> QED
      BY <1>8, <2>1, <2>2 DEF Current
  <1>21. \A d \in LotCalls : Current(d)'
    <2>1. \A d \in LotCalls : lotPc'[d] # "save" => Current(d)'
      BY DEF Current
    <2> QED
      BY <1>20, <2>1
  <1> QED
    BY <1>15, <1>16, <1>17, <1>19, <1>21 DEF LotInv

\* A step that adds a record of what call c has to say.
LEMMA LotWrites ==
    ASSUME LotAssumption, LotInv, lotCall' = lotCall, NEW c \in LotCalls,
           L!Append(c) \/ L!SaveLayer(c)
    PROVE  LotInv'
  <1>1. PICK at : /\ L!Goto(c, at) /\ UNCHANGED <<lotRow, lotRead>>
                  /\ at \in {"layer", "done"} /\ lotPc[c] \in {"append", "layer"}
                  /\ L!Append(c) => at = IF lotCall[c].op = "receive" THEN "layer" ELSE "done"
                  /\ L!SaveLayer(c) => at = "done"
    <2>1. PICK at : L!Append(c) \/ L!SaveLayer(c) => at = IF L!Append(c) /\ lotCall[c].op = "receive" THEN "layer" ELSE "done"
      OBVIOUS
    <2>2. L!Append(c) => lotPc[c] = "append" /\ L!Goto(c, IF lotCall[c].op = "receive" THEN "layer" ELSE "done")
      BY DEF L!Append, L!At
    <2>3. L!SaveLayer(c) => lotPc[c] = "layer" /\ L!Goto(c, "done")
      BY DEF L!SaveLayer, L!At
    <2>4. L!Append(c) => UNCHANGED <<lotRow, lotRead>>
      BY DEF L!Append
    <2>5. L!SaveLayer(c) => UNCHANGED <<lotRow, lotRead>>
      BY DEF L!SaveLayer
    <2> QED
      BY <2>1, <2>2, <2>3, <2>4, <2>5
  <1>2. LotTypes'
    BY <1>1 DEF LotInv, LotTypes, L!Goto, LotSteps
  <1>3. In' = In /\ Out' = Out
    <2>1. CASE L!Append(c)
      <3>1. lotPc[c] = "append" /\ L!Goto(c, at) /\ LotTypes
        BY <1>1, <2>1 DEF L!Append, L!At, LotInv
      <3> QED
        BY <1>1, <2>1, <3>1, WritersAt
    <2>2. CASE L!SaveLayer(c)
      <3>1. lotPc[c] = "layer" /\ L!Goto(c, at) /\ LotTypes /\ lotCall[c].op = "receive"
        BY <1>1, <2>2 DEF L!SaveLayer, L!At, LotInv, InOrder
      <3> QED
        BY <1>1, <2>2, <3>1, WritersAt
    <2> QED
      BY <1>1, <2>1, <2>2
  <1>4. RowIs'
    BY <1>1, <1>3, SameAmounts DEF LotInv
  <1>5. EntriesAre' /\ LayersAre'
    <2>1. CASE L!Append(c)
      <3>1. /\ lotEntries' = lotEntries \cup {L!Entry(c)} /\ lotLayers' = lotLayers
            /\ lotPc[c] = "append" /\ lotCall[c].op \in {"receive", "dispatch"}
        BY <2>1 DEF L!Append, L!At, LotInv, InOrder
      <3>2. (Entered \cup Sold)' = Entered \cup Sold \cup {c} /\ L!Receipts({"done"})' = L!Receipts({"done"})
        <4>1. CASE lotCall[c].op = "receive"
          <5>1. Entered' = Entered \cup {c} /\ Sold' = Sold /\ L!Receipts({"done"})' = L!Receipts({"done"})
            BY <1>1, <2>1, <3>1, <4>1, WritersAt DEF LotInv
          <5> QED
            BY <5>1
        <4>2. CASE lotCall[c].op = "dispatch"
          <5>1. Entered' = Entered /\ Sold' = Sold \cup {c} /\ L!Receipts({"done"})' = L!Receipts({"done"})
            BY <1>1, <2>1, <3>1, <4>2, WritersAt DEF LotInv
          <5> QED
            BY <5>1
        <4> QED
          BY <3>1, <4>1, <4>2
      <3> QED
        BY <3>1, <3>2, LotFixed DEF LotInv, EntriesAre, LayersAre
    <2>2. CASE L!SaveLayer(c)
      <3>1. /\ lotEntries' = lotEntries /\ lotLayers' = lotLayers \cup {L!Layer(c)}
            /\ lotPc[c] = "layer" /\ lotCall[c].op = "receive"
        BY <2>2 DEF L!SaveLayer, L!At, LotInv, InOrder
      <3>2. Entered' = Entered /\ Sold' = Sold /\ L!Receipts({"done"})' = L!Receipts({"done"}) \cup {c}
        BY <1>1, <2>2, <3>1, WritersAt DEF LotInv
      <3> QED
        BY <3>1, <3>2, LotFixed DEF LotInv, EntriesAre, LayersAre
    <2> QED
      BY <1>1, <2>1, <2>2
  <1>6. InOrder(c)'
    <2>1. lotPc'[c] = at
      BY <1>1 DEF L!Goto, LotInv, LotTypes
    <2>2. lotCall[c].op = "receive" => lotCall[c].lot # L!NoLot
      <3>1. CASE L!Append(c)
        BY <3>1 DEF L!Append, L!Bookable
      <3>2. CASE L!SaveLayer(c)
        BY <3>2 DEF L!SaveLayer, L!At, LotInv, InOrder
      <3> QED
        BY <1>1, <3>1, <3>2
    <2>3. L!SaveLayer(c) \/ lotCall[c].op = "receive" => lotPc'[c] = "done" \/ lotCall[c].op = "receive"
      BY <1>1, <2>1
    <2> QED
      BY <1>1, <2>1, <2>2, <2>3 DEF InOrder
  <1>7. Current(c)'
    BY <1>1 DEF Current, L!Goto, LotInv, LotTypes
  <1>8. ASSUME NEW d \in LotCalls, d # c PROVE InOrder(d)' /\ Current(d)'
    <2>1. lotPc'[d] = lotPc[d] /\ lotRead' = lotRead /\ lotRow' = lotRow /\ InOrder(d) /\ Current(d)
      BY <1>1, <1>8 DEF LotInv, LotTypes, L!Goto
    <2> QED
      BY <2>1 DEF InOrder, Current
  <1> QED
    BY <1>2, <1>4, <1>5, <1>6, <1>7, <1>8 DEF LotInv

\* A call that finds the row has read it as it is.
LEMMA LotLoaded ==
    ASSUME LotAssumption, LotInv, lotCall' = lotCall, NEW c \in LotCalls, L!Load(c)
    PROVE  LotInv'
  <1>1. /\ lotPc[c] = "load" /\ lotCall[c].op \in {"receive", "dispatch"} /\ L!Goto(c, "save")
        /\ lotRead' = [lotRead EXCEPT ![c] = lotRow]
        /\ UNCHANGED <<lotRow, lotEntries, lotLayers>>
        /\ lotCall[c].op = "dispatch" =>
             lotRow # NoRecord /\ lotRow.quantity >= lotCall[c].amount
    BY DEF L!Load, L!At, L!Permits, L!Stock
  <1>2. /\ lotRead'[c] = lotRow /\ lotPc'[c] = "save" /\ DOMAIN lotRead' = LotCalls
        /\ \A d \in LotCalls : d # c => lotRead'[d] = lotRead[d]
    BY <1>1 DEF L!Goto, LotInv, LotTypes
  <1>3. InOrder(c)'
    BY <1>1, <1>2 DEF InOrder
  <1>4. Current(c)'
    <2>1. lotRow # NoRecord => lotRow \in L!Item /\ lotRow.version \in Nat /\ lotRow.quantity \in Nat
      BY DEF LotInv, LotTypes, L!Item
    <2>2. lotCall[c].op = "dispatch" => lotCall[c].amount \in Nat
      BY LotCommandsAre DEF LotInv, LotTypes
    <2> QED
      BY <1>1, <1>2, <2>1, <2>2 DEF Current
  <1> QED
    BY <1>1, <1>2, <1>3, <1>4, LotGoesOn DEF LotSteps

\* The other steps; none brings a call to its writes.
LEMMA LotOthers ==
    ASSUME LotAssumption, LotInv, lotCall' = lotCall, NEW c \in LotCalls,
           \/ L!CheckCapacity(c) \/ L!Refuse(c) \/ L!Conflict(c)
           \/ L!FindBatch(c) \/ L!MarkBatch(c) \/ L!ReleaseBatch(c)
    PROVE  LotInv'
  <1>1. /\ UNCHANGED <<lotRow, lotEntries, lotLayers>>
        /\ lotRead' = lotRead \/ lotRead' = [lotRead EXCEPT ![c] = batch[lotCall[c].lot]]
    BY DEF L!CheckCapacity, L!Refuse, L!Conflict, L!FindBatch, L!MarkBatch, L!ReleaseBatch, L!Stock
  <1>2. DOMAIN lotRead' = LotCalls /\ \A d \in LotCalls : d # c => lotRead'[d] = lotRead[d]
    BY <1>1 DEF LotInv, LotTypes
  <1>3. PICK at \in {"load", "refused", "mark", "done"} :
          /\ L!Goto(c, at)
          /\ at \in {"mark", "done"} => lotCall[c].op \in StatusOps
          /\ lotPc[c] \in {"check", "load", "save", "mark"}
    <2>1. ASSUME L!MarkBatch(c) PROVE lotCall[c].op \in StatusOps
      BY <2>1 DEF L!MarkBatch, L!At, LotInv, InOrder
    <2>2. ASSUME L!CheckCapacity(c) \/ L!Refuse(c) \/ L!Conflict(c)
          PROVE  /\ \E at \in {"load", "refused"} : L!Goto(c, at)
                 /\ lotPc[c] \in {"check", "load", "save", "mark"}
      BY <2>2 DEF L!CheckCapacity, L!Refuse, L!Conflict, L!At
    <2>4. ASSUME L!FindBatch(c)
          PROVE  L!Goto(c, "mark") /\ lotPc[c] = "load" /\ lotCall[c].op \in StatusOps
      BY <2>4 DEF L!FindBatch, L!At, StatusOps
    <2>3. ASSUME L!MarkBatch(c) \/ L!ReleaseBatch(c)
          PROVE  /\ \E at \in {"refused", "done"} : L!Goto(c, at)
                 /\ lotPc[c] \in {"load", "mark"}
                 /\ L!MarkBatch(c) \/ lotCall[c].op = "release"
      BY <2>3 DEF L!MarkBatch, L!ReleaseBatch, L!At
    <2> QED
      BY <2>1, <2>2, <2>3, <2>4 DEF StatusOps
  <1>4. lotPc'[c] = at
    BY <1>3 DEF L!Goto, LotInv, LotTypes
  <1>5. Current(c)'
    BY <1>4 DEF Current
  <1>6. InOrder(c)'
    BY <1>3, <1>4 DEF InOrder, StatusOps
  <1>7. \/ {lotPc[c], at} \cap {"append", "layer", "done"} = {}
        \/ lotCall[c].op \notin {"receive", "dispatch"}
    BY <1>3 DEF StatusOps
  <1> QED
    BY <1>1, <1>2, <1>3, <1>5, <1>6, <1>7, LotGoesOn DEF LotSteps

LEMMA LotsStep ==
    ASSUME LotAssumption, LotInv, [L!Next]_(L!vars)
    PROVE  LotInv'
  <1>1. CASE UNCHANGED L!vars \/ \E c \in LotCalls : L!Throw(c) \/ L!Stop(c)
    <2>1. UNCHANGED <<lotRow, lotEntries, lotLayers, lotCall, lotPc, lotRead>>
      BY <1>1 DEF L!vars, L!Throw, L!Stop, L!Stock
    <2>2. In' = In /\ Out' = Out /\ Entered' = Entered /\ Sold' = Sold
          /\ L!Receipts({"done"})' = L!Receipts({"done"})
      BY <2>1 DEF In, Out, Entered, Sold, L!Receipts, L!Sales
    <2>3. RowIs' /\ EntriesAre' /\ LayersAre'
      BY <2>1, <2>2, SameAmounts, SameRecords DEF LotInv
    <2> QED
      BY <2>1, <2>3 DEF LotInv, LotTypes, InOrder, Current
  <1>2. CASE L!Next
    <2>1. lotCall' = lotCall
      BY <1>2 DEF L!Next, L!CheckCapacity, L!Load, L!Refuse, L!Save, L!Conflict, L!Append,
           L!SaveLayer, L!Throw, L!FindBatch, L!MarkBatch, L!ReleaseBatch, L!Stop, L!Stock
    <2> QED
      BY <1>1, <1>2, <2>1, LotLoaded, LotSaved, LotWrites, LotOthers DEF L!Next
  <1> QED
    BY <1>1, <1>2

LEMMA LotsAlways == ASSUME LotAssumption PROVE L!Spec => []LotInv
  <1>1. L!Init => LotInv
    BY LotsStart
  <1>2. LotInv /\ [L!Next]_(L!vars) => LotInv'
    BY LotsStep
  <1> QED
    BY <1>1, <1>2, PTL DEF L!Spec

-----------------------------------------------------------------------------
\* The units of records that are made of calls, one of each.
LEMMA UnitsOfCalls ==
    ASSUME LotAssumption, NEW S \in SUBSET LotCalls, NEW g, NEW k,
           \A c \in S : k[c] \in Int /\ g[c].quantity = k[c] /\ g[c].by = c
    PROVE  /\ L!Units({g[c] : c \in S}) = SumFunctionOnSet(k, S)
           /\ Summable(k, S)
  <1> DEFINE records == {g[c] : c \in S}
             h == [e \in records |-> e.quantity]
  <1>1. IsFiniteSet(S)
    BY FS_Subset DEF LotAssumption
  <1>2. \A c \in S : k[c] \in Int /\ h[g[c]] = k[c]
    OBVIOUS
  <1>3. \A c, d \in S : g[c] = g[d] => c = d
    OBVIOUS
  <1>4. L!Units(records) = SumFunctionOnSet(h, records)
    BY SumOfLots DEF L!Units
  <1>5. PICK m : m = h
    OBVIOUS
  <1> HIDE DEF h
  <1>6. \A c \in S : k[c] \in Int /\ m[g[c]] = k[c]
    BY <1>2, <1>5
  <1> HIDE <1>5
  <1>7. SumFunctionOnSet(m, records) = SumFunctionOnSet(k, S)
    <2>1. \A r : r \in records <=> \E c \in S : r = g[c]
      OBVIOUS
    <2> HIDE DEF records
    <2> QED
      BY <1>1, <1>3, <1>6, <2>1, SumImage
  <1> QED
    BY <1>1, <1>4, <1>5, <1>7 DEF Summable

\* What a sum over entries or layers is.
LEMMA UnitsAre ==
    ASSUME LotAssumption, LotTypes, NEW S \in SUBSET Moving
    PROVE  /\ (\A c \in S : lotCall[c].op = "receive") =>
                /\ L!Units({L!Entry(c) : c \in S}) = L!Amount(S)
                /\ L!Units({L!Layer(c) : c \in S}) = L!Amount(S)
           /\ (\A c \in S : lotCall[c].op = "dispatch") =>
                L!Units({L!Entry(c) : c \in S}) = 0 - L!Amount(S)
  <1> DEFINE entry == [c \in LotCalls |-> L!Entry(c)]
             layer == [c \in LotCalls |-> L!Layer(c)]
             sale == [c \in LotCalls |-> 0 - UnitsMoved[c]]
  <1>1. S \in SUBSET LotCalls /\ \A c \in S : UnitsMoved[c] \in Nat /\ UnitsMoved[c] = lotCall[c].amount
    BY LotCommandsAre DEF LotTypes, Moving, UnitsMoved
  <1>2. L!Amount(S) = SumFunctionOnSet(UnitsMoved, S) /\ L!Amount(S) \in Nat /\ Summable(UnitsMoved, S)
    BY AmountIs DEF LotTypes
  <1>3. /\ {L!Entry(c) : c \in S} = {entry[c] : c \in S}
        /\ {L!Layer(c) : c \in S} = {layer[c] : c \in S}
    BY <1>1
  <1>4. ASSUME \A c \in S : lotCall[c].op = "receive"
        PROVE  /\ L!Units({L!Entry(c) : c \in S}) = L!Amount(S)
               /\ L!Units({L!Layer(c) : c \in S}) = L!Amount(S)
    <2>1. \A c \in S : /\ UnitsMoved[c] \in Int
                       /\ entry[c].quantity = UnitsMoved[c] /\ entry[c].by = c
                       /\ layer[c].quantity = UnitsMoved[c] /\ layer[c].by = c
      BY <1>1, <1>4 DEF L!Entry, L!Layer
    <2> HIDE DEF entry, layer
    <2>2. L!Units({entry[c] : c \in S}) = SumFunctionOnSet(UnitsMoved, S)
      BY <1>1, <2>1, UnitsOfCalls
    <2>3. L!Units({layer[c] : c \in S}) = SumFunctionOnSet(UnitsMoved, S)
      BY <1>1, <2>1, UnitsOfCalls
    <2> QED
      BY <1>2, <1>3, <2>2, <2>3
  <1>5. ASSUME \A c \in S : lotCall[c].op = "dispatch"
        PROVE  L!Units({L!Entry(c) : c \in S}) = 0 - L!Amount(S)
    <2>1. \A c \in S : /\ sale[c] \in Int /\ sale[c] = 0 - UnitsMoved[c]
                       /\ entry[c].quantity = sale[c] /\ entry[c].by = c
      BY <1>1, <1>5 DEF L!Entry
    <2> DEFINE none == [c \in S |-> 0]
    <2>2. \A c \in S : none[c] = 0 /\ none[c] = sale[c] + UnitsMoved[c]
      BY <1>1, <2>1
    <2> HIDE DEF entry, sale, none
    <2>3. L!Units({entry[c] : c \in S}) = SumFunctionOnSet(sale, S) /\ Summable(sale, S)
      BY <1>1, <2>1, UnitsOfCalls
    <2>4. SumFunctionOnSet(none, S) = SumFunctionOnSet(sale, S) + SumFunctionOnSet(UnitsMoved, S)
      BY <1>2, <2>2, <2>3, SumPlus
    <2>5. SumFunctionOnSet(none, S) = 0
      BY <1>2, <2>2, SumZero DEF Summable
    <2>6. SumFunctionOnSet(sale, S) \in Int
      BY <2>3, SumType
    <2>7. SumFunctionOnSet(sale, S) = 0 - L!Amount(S)
      BY <1>2, <2>4, <2>5, <2>6
    <2> QED
      BY <1>3, <2>3, <2>7
  <1> QED
    BY <1>4, <1>5

\* Sums of amounts over two sets of calls.
LEMMA AmountsAdd ==
    ASSUME LotAssumption, LotTypes, NEW S \in SUBSET Moving, NEW T \in SUBSET Moving,
           S \cap T = {}
    PROVE  /\ L!Amount(S \cup T) = L!Amount(S) + L!Amount(T)
           /\ L!Amount(S) \in Nat /\ L!Amount(T) \in Nat
  <1>1. S \cup T \in SUBSET Moving
    OBVIOUS
  <1>2. Summable(UnitsMoved, S) /\ Summable(UnitsMoved, T)
    BY AmountIs DEF LotTypes
  <1>3. SumFunctionOnSet(UnitsMoved, S \cup T) = SumFunctionOnSet(UnitsMoved, S) + SumFunctionOnSet(UnitsMoved, T)
    BY <1>2, SumUnion
  <1> QED
    BY <1>1, <1>3, AmountIs DEF LotTypes

LEMMA CallsMove ==
    ASSUME NEW steps
    PROVE  /\ L!Receipts(steps) \in SUBSET Moving /\ L!Sales(steps) \in SUBSET Moving
           /\ \A c \in L!Receipts(steps) : lotCall[c].op = "receive"
           /\ \A c \in L!Sales(steps) : lotCall[c].op = "dispatch"
BY DEF L!Receipts, L!Sales, Moving

\* The ledger is what receipts have entered less what sales have.
LEMMA LedgerIs ==
    ASSUME LotAssumption, LotInv
    PROVE  L!Units(lotEntries) = L!Amount(Entered) - L!Amount(Sold)
  <1> DEFINE of(S) == {L!Entry(c) : c \in S}
             q == [e \in of(Entered) \cup of(Sold) |-> e.quantity]
  <1>1. /\ Entered \in SUBSET Moving /\ Sold \in SUBSET Moving /\ Moving \in SUBSET LotCalls
        /\ \A c \in Entered : lotCall[c].op = "receive"
        /\ \A c \in Sold : lotCall[c].op = "dispatch"
        /\ Entered \cap Sold = {}
    BY CallsMove DEF Entered, Sold, Moving
  <1>2. L!Units(of(Entered)) = L!Amount(Entered) /\ L!Units(of(Sold)) = 0 - L!Amount(Sold)
    BY <1>1, UnitsAre DEF LotInv
  <1>3. L!Amount(Entered) \in Nat /\ L!Amount(Sold) \in Nat
    BY <1>1, AmountsAdd DEF LotInv
  <1>4. \A c, d : L!Entry(c) = L!Entry(d) => c = d
    BY DEF L!Entry
  <1>5. of(Entered) \cap of(Sold) = {} /\ lotEntries = of(Entered) \cup of(Sold)
    BY <1>1, <1>4 DEF LotInv, EntriesAre
  <1>6. ASSUME NEW e \in of(Entered) \cup of(Sold) PROVE q[e] \in Int
    <2>1. PICK c \in Moving : e = L!Entry(c)
      BY <1>1
    <2>2. lotCall[c].amount \in Nat
      BY <1>1, LotCommandsAre DEF LotInv, LotTypes, Moving
    <2> QED
      BY <2>1, <2>2 DEF L!Entry
  <1>7. IsFiniteSet(of(Entered)) /\ IsFiniteSet(of(Sold))
    <2> DEFINE entry == [c \in LotCalls |-> L!Entry(c)]
    <2>1. IsFiniteSet({entry[c] : c \in Entered}) /\ IsFiniteSet({entry[c] : c \in Sold})
      <3>1. IsFiniteSet(Entered) /\ IsFiniteSet(Sold)
        BY <1>1, FS_Subset DEF LotAssumption
      <3> HIDE DEF entry
      <3> QED
        BY <3>1, ImageIsFinite
    <2>2. {entry[c] : c \in Entered} = of(Entered) /\ {entry[c] : c \in Sold} = of(Sold)
      BY <1>1
    <2> QED
      BY <2>1, <2>2
  <1> DEFINE A1 == of(Entered)
             A2 == of(Sold)
  <1>8. Summable(q, A1) /\ Summable(q, A2) /\ A1 \cap A2 = {}
    BY <1>5, <1>6, <1>7 DEF Summable
  <1>9. L!Units(A1 \cup A2) = SumFunctionOnSet(q, A1 \cup A2)
    BY SumOfLots DEF L!Units
  <1>10. L!Units(A1) = SumFunctionOnSet(q, A1) /\ L!Units(A2) = SumFunctionOnSet(q, A2)
    <2> DEFINE q1 == [e \in A1 |-> e.quantity]
               q2 == [e \in A2 |-> e.quantity]
    <2>1. L!Units(A1) = SumFunctionOnSet(q1, A1) /\ L!Units(A2) = SumFunctionOnSet(q2, A2)
      BY SumOfLots DEF L!Units
    <2>2. (\A e \in A1 : q[e] = q1[e]) /\ (\A e \in A2 : q[e] = q2[e])
      OBVIOUS
    <2> HIDE DEF q, q1, q2, A1, A2
    <2>3. SumFunctionOnSet(q, A1) = SumFunctionOnSet(q1, A1)
      BY <1>8, <2>2, SumSame
    <2>4. SumFunctionOnSet(q, A2) = SumFunctionOnSet(q2, A2)
      BY <1>8, <2>2, SumSame
    <2> QED
      BY <2>1, <2>3, <2>4
  <1>11. L!Units(A1 \cup A2) = L!Units(A1) + L!Units(A2)
    <2>1. SumFunctionOnSet(q, A1 \cup A2) = SumFunctionOnSet(q, A1) + SumFunctionOnSet(q, A2)
      <3> HIDE DEF q, A1, A2
      <3> QED
        BY <1>8, SumUnion
    <2> QED
      BY <1>9, <1>10, <2>1
  <1>12. L!Units(lotEntries) = L!Amount(Entered) + (0 - L!Amount(Sold))
    <2>1. lotEntries = A1 \cup A2 /\ L!Units(A1) = L!Amount(Entered) /\ L!Units(A2) = 0 - L!Amount(Sold)
      BY <1>2, <1>5
    <2> HIDE DEF A1, A2
    <2> QED
      BY <1>11, <2>1
  <1> QED
    BY <1>3, <1>12

\* No units of a lot are layered that the ledger lacks.
LEMMA LayersExplained ==
    ASSUME LotAssumption, LotInv, NEW l \in LotNumbers
    PROVE  L!Units(L!OfLot(lotLayers, l)) <= L!Units(L!OfLot(lotEntries, l))
  <1> DEFINE D == {c \in L!Receipts({"done"}) : lotCall[c].lot = l}
             T == {c \in Entered : lotCall[c].lot = l}
  <1>1. \A c \in LotCalls : L!Layer(c).lot = lotCall[c].lot
    BY DEF L!Layer
  <1>2. /\ \A c \in L!Receipts({"done"}) : c \in Entered
        /\ \A c \in Entered : c \in LotCalls /\ lotCall[c].op = "receive" /\ L!Entry(c).lot = lotCall[c].lot
        /\ \A c \in Sold : L!Entry(c).lot = L!NoLot
    BY DEF L!Entry, Entered, Sold, L!Receipts, L!Sales
  <1>3. l # L!NoLot
    BY DEF LotAssumption
  <1>4. L!OfLot(lotLayers, l) = {L!Layer(c) : c \in D}
    BY <1>1, <1>2 DEF L!OfLot, LotInv, LayersAre
  <1>5. L!OfLot(lotEntries, l) = {L!Entry(c) : c \in T}
    BY <1>2, <1>3 DEF L!OfLot, LotInv, EntriesAre
  <1>6. /\ D \in SUBSET Moving /\ T \in SUBSET Moving /\ T \ D \in SUBSET Moving
        /\ D \cap (T \ D) = {} /\ D \cup (T \ D) = T
        /\ (\A c \in D : lotCall[c].op = "receive") /\ (\A c \in T : lotCall[c].op = "receive")
    BY <1>2 DEF Moving
  <1> HIDE DEF D, T
  <1>7. L!Units({L!Layer(c) : c \in D}) = L!Amount(D) /\ L!Units({L!Entry(c) : c \in T}) = L!Amount(T)
    BY <1>6, UnitsAre DEF LotInv
  <1>8. L!Amount(T) = L!Amount(D) + L!Amount(T \ D) /\ L!Amount(D) \in Nat /\ L!Amount(T \ D) \in Nat
    BY <1>6, AmountsAdd DEF LotInv
  <1> QED
    BY <1>4, <1>5, <1>7, <1>8

\* What picking offers is what receipts have entered of the lots that have a layer.
LEMMA OfferedIs ==
    ASSUME LotAssumption, LotInv
    PROVE  LET unlayered == {c \in L!Receipts({"layer"}) :
                               \A layer \in lotLayers : layer.lot # lotCall[c].lot}
           IN  /\ unlayered \in SUBSET Entered
               /\ L!Offered = L!Amount(Entered) - L!Amount(unlayered)
  <1> DEFINE waiting == {c \in L!Receipts({"layer"}) :
                     \A layer \in lotLayers : layer.lot # lotCall[c].lot}
             shown == Entered \ waiting
  <1>1. /\ \A c \in Entered : c \in LotCalls /\ lotCall[c].op = "receive"
                              /\ L!Entry(c).lot = lotCall[c].lot
        /\ \A c \in Sold : L!Entry(c).lot = L!NoLot
        /\ \A c \in L!Receipts({"layer"}) : c \in Entered
        /\ \A c \in L!Receipts({"done"}) : c \in Entered
        /\ \A c \in Entered : c \in L!Receipts({"layer"}) \/ c \in L!Receipts({"done"})
    BY DEF L!Entry, Entered, Sold, L!Receipts, L!Sales
  <1>2. \A c \in L!Receipts({"done"}) :
          L!Layer(c) \in lotLayers /\ L!Layer(c).lot = lotCall[c].lot /\ lotCall[c].lot # L!NoLot
    BY DEF LotInv, LayersAre, L!Layer, InOrder, L!Receipts
  <1>3. \A layer \in lotLayers : layer.lot # L!NoLot
    BY <1>2 DEF LotInv, LayersAre
  <1>4. \A c \in Entered : c \in shown <=> \E layer \in lotLayers : layer.lot = lotCall[c].lot
    BY <1>1, <1>2
  <1>5. {e \in lotEntries : \E layer \in lotLayers : layer.lot = e.lot} = {L!Entry(c) : c \in shown}
    <2> HIDE DEF waiting
    <2> QED
      BY <1>1, <1>3, <1>4 DEF LotInv, EntriesAre
  <1>6. /\ waiting \in SUBSET Entered /\ Entered \in SUBSET Moving
    BY <1>1 DEF Moving
  <1> HIDE DEF waiting
  <1>7. /\ shown \in SUBSET Moving /\ waiting \in SUBSET Moving /\ shown \cap waiting = {} /\ shown \cup waiting = Entered
        /\ \A c \in shown : lotCall[c].op = "receive"
    BY <1>1, <1>6
  <1> HIDE DEF shown
  <1>8. L!Offered = L!Amount(shown)
    BY <1>5, <1>7, UnitsAre DEF L!Offered, LotInv
  <1>9. L!Amount(Entered) = L!Amount(shown) + L!Amount(waiting) /\ L!Amount(shown) \in Nat /\ L!Amount(waiting) \in Nat
    BY <1>7, AmountsAdd DEF LotInv
  <1>10. L!Offered = L!Amount(Entered) - L!Amount(waiting)
    BY <1>8, <1>9
  <1> QED
    BY <1>6, <1>10 DEF waiting

\* No receipt and no sale of a lot is lost on the row, whichever overlap; layers never
\* exceed the ledger; picking by expiry offers what is in stock and all that was sold, but
\* for receipts on their way; and a recall finds no sale (Lots.tla says for which code): for
\* any lots and calls.
THEOREM LotsAreTraced == ASSUME LotAssumption PROVE L!Spec => []L!LotsTraced
  <1>1. LotInv => L!LotsTraced
    <2> SUFFICES ASSUME LotInv PROVE L!LotsTraced
      OBVIOUS
    <2> DEFINE RA == L!Receipts({"append"})
               SA == L!Sales({"append"})
               unlayered == {c \in L!Receipts({"layer"}) :
                               \A layer \in lotLayers : layer.lot # lotCall[c].lot}
    <2>1. /\ RA \in SUBSET Moving /\ SA \in SUBSET Moving
          /\ Entered \in SUBSET Moving /\ Sold \in SUBSET Moving
      BY CallsMove DEF Entered, Sold
    <2>2. /\ In = RA \cup Entered /\ RA \cap Entered = {}
          /\ Out = SA \cup Sold /\ SA \cap Sold = {}
      BY DEF In, Out, Entered, Sold, L!Receipts, L!Sales
    <2>3. /\ unlayered \in SUBSET Entered
          /\ L!Offered = L!Amount(Entered) - L!Amount(unlayered)
      BY OfferedIs
    <2>4. unlayered \in SUBSET Moving /\ unlayered \cap {} = {} /\ {} \in SUBSET Moving
      BY <2>1, <2>3
    <2>5. L!OnHand(lotRow) = L!Amount(In) - L!Amount(Out)
      BY DEF LotInv, RowIs
    <2>6. L!Units(lotEntries) = L!Amount(Entered) - L!Amount(Sold)
      BY LedgerIs
    <2> HIDE DEF RA, SA, unlayered
    <2>7. /\ L!Amount(In) = L!Amount(RA) + L!Amount(Entered)
          /\ L!Amount(RA) \in Nat /\ L!Amount(Entered) \in Nat
      BY <2>1, <2>2, AmountsAdd DEF LotInv
    <2>8. /\ L!Amount(Out) = L!Amount(SA) + L!Amount(Sold)
          /\ L!Amount(SA) \in Nat /\ L!Amount(Sold) \in Nat
      BY <2>1, <2>2, AmountsAdd DEF LotInv
    <2>9. L!Amount(unlayered) \in Nat
      BY <2>4, AmountsAdd DEF LotInv
    <2>10. L!StockKept
      <3>1. L!OnHand(lotRow) - L!Units(lotEntries) = L!Amount(RA) - L!Amount(SA)
        BY <2>5, <2>6, <2>7, <2>8
      <3>2. \A l \in LotNumbers : L!Units(L!OfLot(lotLayers, l)) <= L!Units(L!OfLot(lotEntries, l))
        BY LayersExplained
      <3> QED
        BY <2>5, <3>1, <3>2 DEF L!StockKept, In, Out, RA, SA
    <2>11. L!OffersExplained
      <3>1. L!Offered = L!OnHand(lotRow) + L!Amount(Out) - L!Amount(RA) - L!Amount(unlayered)
        BY <2>3, <2>5, <2>7, <2>8, <2>9
      <3> QED
        BY <3>1 DEF L!OffersExplained, RA, Out, unlayered
    <2>12. L!NothingTraced
      <3>1. ASSUME NEW l \in LotNumbers, NEW e \in lotEntries, e.lot = l, e.quantity < 0
            PROVE  FALSE
        <4>1. PICK c \in Entered \cup Sold : e = L!Entry(c)
          BY DEF LotInv, EntriesAre
        <4>2. c \in LotCalls /\ lotCall[c].op = IF c \in Entered THEN "receive" ELSE "dispatch"
          BY DEF Entered, Sold, L!Receipts, L!Sales
        <4>3. lotCall[c].op = "receive"
          BY <3>1, <4>1, <4>2 DEF L!Entry, LotAssumption
        <4>4. lotCall[c].amount \in Nat /\ e.quantity = lotCall[c].amount
          BY <4>1, <4>2, <4>3, LotCommandsAre DEF L!Entry, LotInv, LotTypes
        <4> QED
          BY <3>1, <4>4
      <3> QED
        BY <3>1 DEF L!NothingTraced, L!Traced, L!OfLot
    <2> QED
      BY <2>10, <2>11, <2>12 DEF L!LotsTraced
  <1> QED
    BY <1>1, LotsAlways, PTL

-----------------------------------------------------------------------------
(***************************************************************************)
(* The connection pool, over a registry of which it needs to know nothing. *)
(* A tenant has one entry at most (KeyOnce), and unless lookups or an      *)
(* eviction of it have overlapped, a request that is about to add one      *)
(* finds none, nor an eviction that would drop it (Lone).  The requests    *)
(* that have been promised room count as if they had taken it (RoomLeft).  *)
(***************************************************************************)
CONSTANTS PoolRequests, MaxSize, MaxClients
VARIABLES cache, client, request, idleSweep, server, collided

P == INSTANCE TenantPool WITH Requests <- PoolRequests, sweep <- idleSweep

PoolAssumption ==
    /\ MaxSize \in Nat \ {0}
    /\ IsFiniteSet(Tenants)
    /\ IsFiniteSet(PoolRequests) /\ PoolRequests # {}

Entries == [tenant : Tenants, id : Nat]
Clients == [tenant : Tenants, state : {"open", "closing", "closed"}]
PoolSteps == {"idle", "lookup", "evict", "create", "has"}

PoolTypes ==
    /\ cache \in Seq(Entries)
    /\ client \in Seq(Clients)
    /\ request \in [PoolRequests -> [tenant : Tenants \cup {P!NoTenant}, pc : PoolSteps,
                                     victim : Nat, got : Nat]]
    /\ \A r \in PoolRequests : request[r].pc # "idle" => request[r].tenant \in Tenants
    /\ idleSweep \in [keys : SUBSET Tenants, id : Nat, tenant : Tenants \cup {P!NoTenant}]

KeyOnce(s) == \A i, j \in DOMAIN s : s[i].tenant = s[j].tenant => i = j

\* Entries, the eviction in work and the victims of requests name clients.
Named ==
    /\ \A e \in ToSet(cache) : e.id \in DOMAIN client /\ client[e.id].tenant = e.tenant
    /\ idleSweep.id # P!None => /\ idleSweep.id \in DOMAIN client /\ client[idleSweep.id].tenant = idleSweep.tenant
                            /\ client[idleSweep.id].state # "open"
    /\ \A r \in PoolRequests : /\ request[r].victim <= Len(client)
                              /\ \A e \in ToSet(cache) : request[r].victim # e.id

\* On a tenant without collisions at most one request is on its way to an entry, and it
\* finds none; an eviction in work is of the entry that there is.
Lone(t) ==
    /\ \A r1, r2 \in P!Waiting(t) : r1 = r2
    /\ P!Waiting(t) # {} => /\ \A e \in ToSet(cache) : e.tenant # t
                            /\ idleSweep.id # P!None => idleSweep.tenant # t
    /\ idleSweep.id # P!None /\ idleSweep.tenant = t =>
         \A e \in ToSet(cache) : e.tenant = t => e.id = idleSweep.id

Promised == {r \in PoolRequests : request[r].pc \in {"evict", "create"}}
RoomLeft == Len(cache) + Cardinality(Promised) <= MaxSize - 1 + Cardinality(PoolRequests)

Unstarted ==
    server = "starting" =>
        /\ cache = <<>> /\ client = <<>> /\ idleSweep.id = P!None /\ idleSweep.keys = {}
        /\ \A r \in PoolRequests : request[r].pc = "idle"

OpenOnes ==
    \A k \in DOMAIN client : client[k].state = "open" =>
        \/ client[k].tenant \in collided
        \/ \E e \in ToSet(cache) : e.id = k
CachedOpen ==
    server \in {"starting", "serving"} =>
        \A e \in ToSet(cache) : client[e.id].state = "open" \/ idleSweep.id = e.id

PoolInv ==
    /\ PoolTypes /\ KeyOnce(cache) /\ Named /\ RoomLeft /\ Unstarted /\ OpenOnes /\ CachedOpen
    /\ \A t \in Tenants \ collided : Lone(t)

-----------------------------------------------------------------------------
\* What is in a sequence of entries after its first is gone, one is added, or that of a
\* tenant is dropped.
LEMMA TailKeys ==
    ASSUME NEW s \in Seq(Entries), KeyOnce(s), s # <<>>
    PROVE  /\ Tail(s) \in Seq(Entries) /\ KeyOnce(Tail(s)) /\ Len(Tail(s)) = Len(s) - 1
           /\ Head(s) \in ToSet(s)
           /\ ToSet(Tail(s)) = {e \in ToSet(s) : e.tenant # Head(s).tenant}
  <1>1. Distinct(s)
    BY DEF KeyOnce, Distinct
  <1>2. /\ Tail(s) \in Seq(Entries) /\ Len(Tail(s)) = Len(s) - 1
        /\ ToSet(s) = ToSet(Tail(s)) \cup {Head(s)} /\ Head(s) \notin ToSet(Tail(s))
    BY <1>1, TailOf
  <1>3. DOMAIN s = 1..Len(s) /\ DOMAIN Tail(s) = 1..(Len(s) - 1) /\ Len(s) \in Nat \ {0}
        /\ Head(s) = s[1] /\ \A i \in 1..(Len(s) - 1) : Tail(s)[i] = s[i + 1]
    OBVIOUS
  <1>4. KeyOnce(Tail(s))
    BY <1>3 DEF KeyOnce
  <1>5. ASSUME NEW e \in ToSet(Tail(s)) PROVE e.tenant # Head(s).tenant
    <2>1. PICK i \in 1..(Len(s) - 1) : e = s[i + 1]
      BY <1>3 DEF ToSet
    <2>2. i + 1 \in DOMAIN s /\ i + 1 # 1 /\ 1 \in DOMAIN s
      BY <1>3
    <2> QED
      BY <1>3, <2>1, <2>2 DEF KeyOnce
  <1> QED
    BY <1>2, <1>4, <1>5

LEMMA AppendKeys ==
    ASSUME NEW s \in Seq(Entries), KeyOnce(s), NEW e \in Entries,
           \A d \in ToSet(s) : d.tenant # e.tenant
    PROVE  /\ Append(s, e) \in Seq(Entries) /\ KeyOnce(Append(s, e))
           /\ Len(Append(s, e)) = Len(s) + 1
           /\ ToSet(Append(s, e)) = ToSet(s) \cup {e}
  <1> DEFINE n == Len(s)
  <1>1. /\ n \in Nat /\ DOMAIN s = 1..n /\ Append(s, e) \in Seq(Entries)
        /\ Len(Append(s, e)) = n + 1 /\ DOMAIN Append(s, e) = 1..(n + 1)
        /\ Append(s, e)[n + 1] = e /\ \A i \in 1..n : Append(s, e)[i] = s[i]
    OBVIOUS
  <1>2. \A i \in 1..n : s[i] \in ToSet(s)
    BY <1>1 DEF ToSet
  <1>3. \A i \in 1..(n + 1) : i \in 1..n \/ i = n + 1
    BY <1>1
  <1> HIDE DEF n
  <1>4. KeyOnce(Append(s, e))
    BY <1>1, <1>2, <1>3 DEF KeyOnce
  <1>5. \A i \in 1..n : i \in 1..(n + 1)
    BY <1>1
  <1>6. ToSet(Append(s, e)) = ToSet(s) \cup {e}
    <2>1. n + 1 \in 1..(n + 1)
      BY <1>1
    <2> QED
      BY <1>1, <1>3, <1>5, <2>1 DEF ToSet
  <1> QED
    BY <1>1, <1>4, <1>6 DEF n

LEMMA WithoutKeys ==
    ASSUME NEW s \in Seq(Entries), KeyOnce(s), NEW t
    PROVE  /\ P!Without(s, t) \in Seq(Entries) /\ KeyOnce(P!Without(s, t))
           /\ ToSet(P!Without(s, t)) = {e \in ToSet(s) : e.tenant # t}
           /\ Len(P!Without(s, t)) <= Len(s)
           /\ (\E e \in ToSet(s) : e.tenant = t) => Len(P!Without(s, t)) = Len(s) - 1
  <1> DEFINE n == Len(s)
  <1>0. n \in Nat /\ DOMAIN s = 1..n
    OBVIOUS
  <1>1. CASE \A i \in DOMAIN s : s[i].tenant # t
    <2>1. P!Without(s, t) = s
      BY <1>1 DEF P!Without
    <2>2. \A e \in ToSet(s) : e.tenant # t
      BY <1>1 DEF ToSet
    <2>3. {e \in ToSet(s) : e.tenant # t} = ToSet(s)
      BY <2>2
    <2>4. Len(s) <= Len(s)
      BY <1>0
    <2> QED
      BY <2>1, <2>2, <2>3, <2>4
  <1>2. CASE \E i \in DOMAIN s : s[i].tenant = t
    <2>1. PICK k \in 1..n : s[k].tenant = t /\ P!Without(s, t) = P!RemoveAt(s, k)
      BY <1>0, <1>2 DEF P!Without
    <2> DEFINE w == P!RemoveAt(s, k)
    <2>2. /\ w \in Seq(Entries) /\ Len(w) = n - 1 /\ DOMAIN w = 1..(n - 1)
          /\ \A i \in 1..(n - 1) : w[i] = IF i < k THEN s[i] ELSE s[i + 1]
      <3>1. w = SubSeq(s, 1, k - 1) \o SubSeq(s, k + 1, Len(s))
        BY DEF P!RemoveAt
      <3>2. /\ SubSeq(s, 1, k - 1) \in Seq(Entries) /\ Len(SubSeq(s, 1, k - 1)) = k - 1
            /\ \A i \in 1..(k - 1) : SubSeq(s, 1, k - 1)[i] = s[i]
        BY <1>0
      <3>3. /\ SubSeq(s, k + 1, Len(s)) \in Seq(Entries) /\ Len(SubSeq(s, k + 1, Len(s))) = n - k
            /\ \A i \in 1..(n - k) : SubSeq(s, k + 1, Len(s))[i] = s[k + i]
        BY <1>0
      <3>4. PICK u \in Seq(Entries), v \in Seq(Entries) :
               u = SubSeq(s, 1, k - 1) /\ v = SubSeq(s, k + 1, Len(s))
        BY <3>2, <3>3
      <3>5. u \in Seq(Entries) /\ v \in Seq(Entries) /\ w = u \o v /\ Len(u) = k - 1 /\ Len(v) = n - k
            /\ (\A i \in 1..(k - 1) : u[i] = s[i]) /\ (\A i \in 1..(n - k) : v[i] = s[k + i])
        BY <3>1, <3>2, <3>3, <3>4
      <3> HIDE <3>4 DEF w, n
      <3>6. w \in Seq(Entries) /\ Len(w) = n - 1 /\ DOMAIN w = 1..(n - 1)
        <4>1. w \in Seq(Entries) /\ Len(w) = Len(u) + Len(v)
          <5>1. u \in Seq(Entries) /\ v \in Seq(Entries) /\ w = u \o v
            BY <3>5
          <5>2. ASSUME NEW x \in Seq(Entries), NEW y \in Seq(Entries)
                PROVE  x \o y \in Seq(Entries) /\ Len(x \o y) = Len(x) + Len(y)
            OBVIOUS
          <5> QED
            BY <5>1, <5>2
        <4>2. Len(w) = n - 1
          BY <1>0, <3>5, <4>1
        <4> QED
          BY <4>1, <4>2
      <3>7. ASSUME NEW i \in 1..(n - 1) PROVE w[i] = IF i < k THEN s[i] ELSE s[i + 1]
        <4>1. CASE i < k
          BY <1>0, <3>5, <4>1
        <4>2. CASE ~(i < k)
          <5>1. i - (k - 1) \in 1..(n - k) /\ k + (i - (k - 1)) = i + 1
            BY <1>0, <4>2
          <5>2. w[i] = v[i - (k - 1)]
            BY <1>0, <3>5, <4>2, <5>1
          <5> QED
            BY <3>5, <4>2, <5>1, <5>2
        <4> QED
          BY <4>1, <4>2
      <3> QED
        BY <3>6, <3>7
    <2> HIDE DEF w, n
    <2>3. KeyOnce(w)
      <3>1. \A i \in 1..(n - 1) : i \in 1..n /\ i + 1 \in 1..n
        BY <1>0
      <3>2. ASSUME NEW i \in 1..(n - 1), NEW j \in 1..(n - 1), w[i].tenant = w[j].tenant PROVE i = j
        <4>1. PICK a \in 1..n : w[i] = s[a] /\ a = IF i < k THEN i ELSE i + 1
          BY <2>2, <3>1
        <4>2. PICK b \in 1..n : w[j] = s[b] /\ b = IF j < k THEN j ELSE j + 1
          BY <2>2, <3>1
        <4>3. a = b
          BY <1>0, <3>2, <4>1, <4>2 DEF KeyOnce
        <4> QED
          BY <1>0, <4>1, <4>2, <4>3
      <3> QED
        BY <2>2, <3>2 DEF KeyOnce
    <2>4. ToSet(w) = {e \in ToSet(s) : e.tenant # t}
      <3>1. ASSUME NEW i \in 1..(n - 1) PROVE w[i] \in ToSet(s) /\ w[i].tenant # t
        <4>1. PICK a \in 1..n : w[i] = s[a] /\ a # k
          <5>1. CASE i < k
            BY <1>0, <2>2, <5>1
          <5>2. CASE ~(i < k)
            <6>1. i + 1 \in 1..n /\ i + 1 # k
              BY <1>0, <5>2
            <6> QED
              BY <2>2, <5>2, <6>1
          <5> QED
            BY <5>1, <5>2
        <4> QED
          BY <1>0, <2>1, <4>1 DEF KeyOnce, ToSet
      <3>2. ASSUME NEW a \in 1..n, a # k PROVE s[a] \in ToSet(w)
        <4>1. CASE a < k
          <5>1. a \in 1..(n - 1)
            BY <1>0, <4>1
          <5> QED
            BY <2>2, <4>1, <5>1 DEF ToSet
        <4>2. CASE ~(a < k)
          <5>1. a - 1 \in 1..(n - 1) /\ ~(a - 1 < k) /\ (a - 1) + 1 = a
            BY <1>0, <3>2, <4>2
          <5>2. w[a - 1] = s[a]
            BY <2>2, <5>1
          <5> QED
            BY <2>2, <5>1, <5>2 DEF ToSet
        <4> QED
          BY <4>1, <4>2
      <3>3. \A e \in ToSet(w) : \E i \in 1..(n - 1) : e = w[i]
        BY <2>2 DEF ToSet
      <3>4. \A e \in ToSet(s) : \E a \in 1..n : e = s[a]
        BY <1>0 DEF ToSet
      <3> QED
        BY <2>1, <3>1, <3>2, <3>3, <3>4
    <2>5. P!Without(s, t) = w
      BY <2>1 DEF w
    <2>6. Len(w) = Len(s) - 1 /\ Len(s) \in Nat
      BY <1>0, <2>2 DEF n
    <2> QED
      BY <2>2, <2>3, <2>4, <2>5, <2>6
  <1> QED
    BY <1>1, <1>2

LEMMA SetEntryKeys ==
    ASSUME NEW s \in Seq(Entries), KeyOnce(s), NEW e \in Entries
    PROVE  /\ P!SetEntry(s, e) \in Seq(Entries) /\ KeyOnce(P!SetEntry(s, e))
           /\ Len(P!SetEntry(s, e)) <= Len(s) + 1
           /\ ToSet(P!SetEntry(s, e)) = {d \in ToSet(s) : d.tenant # e.tenant} \cup {e}
  <1>0. Len(s) \in Nat /\ DOMAIN s = 1..Len(s)
    OBVIOUS
  <1>1. CASE \A i \in DOMAIN s : s[i].tenant # e.tenant
    <2>1. P!SetEntry(s, e) = Append(s, e)
      BY <1>1 DEF P!SetEntry
    <2>2. \A d \in ToSet(s) : d.tenant # e.tenant
      BY <1>1 DEF ToSet
    <2>3. {d \in ToSet(s) : d.tenant # e.tenant} = ToSet(s)
      BY <2>2
    <2>4. /\ Append(s, e) \in Seq(Entries) /\ KeyOnce(Append(s, e))
          /\ Len(Append(s, e)) = Len(s) + 1 /\ ToSet(Append(s, e)) = ToSet(s) \cup {e}
      BY <2>2, AppendKeys
    <2> QED
      BY <1>0, <2>1, <2>3, <2>4
  <1>2. CASE \E i \in DOMAIN s : s[i].tenant = e.tenant
    <2> DEFINE w == [i \in DOMAIN s |-> IF s[i].tenant = e.tenant THEN e ELSE s[i]]
    <2>1. P!SetEntry(s, e) = w
      BY <1>2 DEF P!SetEntry
    <2>2. w \in Seq(Entries) /\ Len(w) = Len(s) /\ DOMAIN w = DOMAIN s
      <3>1. w \in [1..Len(s) -> Entries]
        BY <1>0
      <3> QED
        BY <1>0, <3>1
    <2>3. \A i \in DOMAIN s : w[i] = IF s[i].tenant = e.tenant THEN e ELSE s[i]
      OBVIOUS
    <2> HIDE DEF w
    <2>4. KeyOnce(w)
      BY <2>2, <2>3 DEF KeyOnce
    <2>5. ToSet(w) = {d \in ToSet(s) : d.tenant # e.tenant} \cup {e}
      BY <1>2, <2>2, <2>3 DEF ToSet
    <2>6. Len(w) <= Len(s) + 1
      BY <1>0, <2>2
    <2> QED
      BY <2>1, <2>2, <2>4, <2>5, <2>6
  <1> QED
    BY <1>1, <1>2

\* How many requests are promised room after one has moved.
LEMMA PromisesOf ==
    ASSUME PoolAssumption, PoolTypes, NEW r \in PoolRequests, NEW new,
           request' = [request EXCEPT ![r] = new]
    PROVE  /\ Cardinality(Promised) \in Nat /\ Cardinality(Promised)' \in Nat
           /\ Cardinality(Promised)' <= Cardinality(PoolRequests)
           /\ Cardinality(PoolRequests) \in Nat
           /\ Cardinality(Promised)' <= Cardinality(Promised) + 1
           /\ new.pc \notin {"evict", "create"} \/ r \in Promised
                => Cardinality(Promised)' <= Cardinality(Promised)
           /\ new.pc \notin {"evict", "create"} /\ r \in Promised
                => Cardinality(Promised)' = Cardinality(Promised) - 1
  <1>1. Promised' = IF new.pc \in {"evict", "create"} THEN Promised \cup {r} ELSE Promised \ {r}
    BY DEF Promised, PoolTypes
  <1>2. Promised \in SUBSET PoolRequests /\ Promised' \in SUBSET PoolRequests
    BY DEF Promised
  <1>3. IsFiniteSet(PoolRequests) /\ IsFiniteSet(Promised) /\ IsFiniteSet(Promised')
    BY <1>2, FS_Subset DEF PoolAssumption
  <1>4. /\ Cardinality(PoolRequests) \in Nat /\ Cardinality(Promised) \in Nat
        /\ Cardinality(Promised') \in Nat /\ Cardinality(Promised') <= Cardinality(PoolRequests)
    BY <1>2, <1>3, FS_CardinalityType, FS_Subset
  <1>5. /\ r \in Promised => Promised \cup {r} = Promised
        /\ r \notin Promised => Promised \ {r} = Promised
    OBVIOUS
  <1>6. r \notin Promised => Cardinality(Promised \cup {r}) = Cardinality(Promised) + 1
    BY <1>3, FS_AddElement
  <1>7. r \in Promised => Cardinality(Promised \ {r}) = Cardinality(Promised) - 1
    BY <1>3, FS_RemoveElement
  <1>8. PICK n : n = Cardinality(Promised')
    OBVIOUS
  <1>9. CASE new.pc \in {"evict", "create"}
    <2>1. n = Cardinality(Promised \cup {r})
      BY <1>1, <1>8, <1>9
    <2>2. n = IF r \in Promised THEN Cardinality(Promised) ELSE Cardinality(Promised) + 1
      BY <1>5, <1>6, <2>1
    <2> QED
      BY <1>4, <1>8, <1>9, <2>2
  <1>10. CASE new.pc \notin {"evict", "create"}
    <2>1. n = Cardinality(Promised \ {r})
      BY <1>1, <1>8, <1>10
    <2>2. n = IF r \in Promised THEN Cardinality(Promised) - 1 ELSE Cardinality(Promised)
      BY <1>5, <1>7, <2>1
    <2> QED
      BY <1>4, <1>8, <1>10, <2>2
  <1> QED
    BY <1>9, <1>10

Free(t) ==
    /\ P!Waiting(t) = {} /\ \A e \in ToSet(cache) : e.tenant # t
    /\ idleSweep.id # P!None => idleSweep.tenant # t

WaitSteps == {"lookup", "evict", "create"}

\* A step of a request that leaves the clients alone, and of the cache at most the order.
LEMMA RequestMoves ==
    ASSUME PoolAssumption, PoolInv, NEW r \in PoolRequests,
           NEW new \in [tenant : Tenants \cup {P!NoTenant}, pc : PoolSteps, victim : {P!None, request[r].victim}, got : Nat],
           new.pc # "idle" => new.tenant \in Tenants,
           request' = [request EXCEPT ![r] = new],
           cache' \in Seq(Entries), KeyOnce(cache'), ToSet(cache') = ToSet(cache), Len(cache') = Len(cache),
           client' = client, idleSweep' = idleSweep, server' = server,
           server # "starting", collided \subseteq collided',
           new.pc \in {"evict", "create"} => Len(cache) <= MaxSize - 1,
           new.pc \in WaitSteps /\ new.tenant \notin collided' =>
               Free(new.tenant) \/ r \in P!Waiting(new.tenant)
    PROVE  PoolInv'
  <1>1. PoolTypes'
    BY DEF PoolInv, PoolTypes, P!None
  <1>2. Named'
    <2>1. \A e \in ToSet(cache) : e.id \in DOMAIN client
      BY DEF PoolInv, Named
    <2>2. \A e \in ToSet(cache) : e.id # P!None
      BY <2>1 DEF PoolInv, PoolTypes, P!None
    <2>3. Len(client) \in Nat /\ P!None <= Len(client)
      BY DEF PoolInv, PoolTypes, P!None
    <2>4. \A q \in PoolRequests : request'[q] = IF q = r THEN new ELSE request[q]
      BY DEF PoolInv, PoolTypes
    <2> QED
      BY <2>2, <2>3, <2>4 DEF PoolInv, Named
  <1>3. RoomLeft'
    <2>1. PICK n : n = Cardinality(Promised)'
      OBVIOUS
    <2>2. /\ Cardinality(Promised) \in Nat /\ n \in Nat /\ n <= Cardinality(PoolRequests)
          /\ Cardinality(PoolRequests) \in Nat
          /\ new.pc \notin {"evict", "create"} => n <= Cardinality(Promised)
      BY <2>1, PromisesOf DEF PoolInv
    <2>3. Len(cache) \in Nat /\ MaxSize \in Nat
      BY DEF PoolInv, PoolTypes, PoolAssumption
    <2>4. Len(cache) + n <= MaxSize - 1 + Cardinality(PoolRequests)
      BY <2>2, <2>3 DEF PoolInv, RoomLeft
    <2> QED
      BY <2>1, <2>4 DEF RoomLeft
  <1>4. Unstarted'
    BY DEF PoolInv, Unstarted
  <1>5. OpenOnes'
    BY DEF PoolInv, OpenOnes
  <1>6. CachedOpen'
    BY DEF PoolInv, CachedOpen
  <1>7. ASSUME NEW t \in Tenants, t \notin collided' PROVE Lone(t)'
    <2>1. Lone(t)
      BY <1>7 DEF PoolInv
    <2>2. /\ \A q \in P!Waiting(t)' : q = r \/ q \in P!Waiting(t)
          /\ r \in P!Waiting(t)' <=> new.tenant = t /\ new.pc \in WaitSteps
      BY DEF P!Waiting, WaitSteps, PoolInv, PoolTypes
    <2>3. CASE r \in P!Waiting(t)' /\ r \notin P!Waiting(t)
      <3>1. Free(t)
        BY <1>7, <2>2, <2>3
      <3> QED
        BY <2>2, <3>1 DEF Lone, Free
    <2>4. CASE ~(r \in P!Waiting(t)' /\ r \notin P!Waiting(t))
      <3>1. \A q \in P!Waiting(t)' : q \in P!Waiting(t)
        BY <2>2, <2>4
      <3> QED
        BY <2>1, <3>1 DEF Lone
    <2> QED
      BY <2>3, <2>4
  <1> QED
    BY <1>1, <1>2, <1>3, <1>4, <1>5, <1>6, <1>7 DEF PoolInv

\* The entry of a tenant that has one.
LEMMA EntryOf ==
    ASSUME PoolTypes, KeyOnce(cache), NEW t, P!Cached(t)
    PROVE  /\ P!Entry(t, P!IdOf(t)) \in ToSet(cache) /\ P!IdOf(t) \in Nat
           /\ \A e \in ToSet(cache) : e.tenant = t => e = P!Entry(t, P!IdOf(t))
  <1>1. \E e \in P!Range(cache) : e.tenant = t
    BY DEF P!Cached, P!Range
  <1>2. PICK e \in P!Range(cache) : e.tenant = t /\ P!IdOf(t) = e.id
    BY <1>1 DEF P!IdOf
  <1>3. e \in ToSet(cache) /\ e \in Entries
    BY <1>2 DEF ToSet, P!Range, PoolTypes
  <1>4. e = P!Entry(t, P!IdOf(t))
    BY <1>2, <1>3 DEF Entries, P!Entry
  <1>5. \A d \in ToSet(cache) : d.tenant = t => d = e
    BY <1>2, <1>3 DEF KeyOnce, ToSet
  <1> QED
    BY <1>3, <1>4, <1>5 DEF Entries, P!Entry

LEMMA PoolServed ==
    ASSUME PoolAssumption, PoolInv, NEW r \in PoolRequests, NEW t \in Tenants, P!Hit(r, t)
    PROVE  PoolInv'
  <1> DEFINE new == [tenant |-> t, pc |-> "has", victim |-> P!None, got |-> P!IdOf(t)]
             entry == P!Entry(t, P!IdOf(t))
             rest == P!Without(cache, t)
  <1>1. /\ server \in {"serving", "stopping"} /\ P!Cached(t)
        /\ cache' = Append(rest, entry) /\ request' = [request EXCEPT ![r] = new]
        /\ UNCHANGED <<client, idleSweep, server, collided>>
    BY DEF P!Hit
  <1>2. /\ entry \in ToSet(cache) /\ P!IdOf(t) \in Nat /\ entry.tenant = t
        /\ \A e \in ToSet(cache) : e.tenant = t => e = entry
    BY <1>1, EntryOf DEF PoolInv, P!Entry
  <1>3. cache \in Seq(Entries) /\ KeyOnce(cache) /\ entry \in Entries
    BY <1>2 DEF PoolInv, PoolTypes, P!Entry, Entries
  <1> HIDE DEF entry, rest
  <1>4. /\ rest \in Seq(Entries) /\ KeyOnce(rest) /\ Len(rest) = Len(cache) - 1
        /\ ToSet(rest) = {e \in ToSet(cache) : e.tenant # t}
    BY <1>2, <1>3, WithoutKeys DEF rest
  <1>5. \A d \in ToSet(rest) : d.tenant # entry.tenant
    BY <1>2, <1>4
  <1>6. /\ cache' \in Seq(Entries) /\ KeyOnce(cache') /\ Len(cache') = Len(rest) + 1
        /\ ToSet(cache') = ToSet(rest) \cup {entry}
    BY <1>1, <1>3, <1>4, <1>5, AppendKeys
  <1>7. ToSet(cache') = ToSet(cache)
    BY <1>2, <1>4, <1>6
  <1>8. Len(cache') = Len(cache)
    BY <1>3, <1>4, <1>6
  <1>9. /\ new \in [tenant : Tenants \cup {P!NoTenant}, pc : PoolSteps, victim : {P!None, request[r].victim}, got : Nat]
        /\ new.pc = "has" /\ new.tenant = t
    BY <1>2 DEF PoolSteps
  <1> HIDE DEF new
  <1> QED
    BY <1>1, <1>6, <1>7, <1>8, <1>9, RequestMoves DEF WaitSteps

LEMMA PoolAsked ==
    ASSUME PoolAssumption, PoolInv, NEW r \in PoolRequests, NEW t \in Tenants, P!Miss(r, t)
    PROVE  PoolInv'
  <1> DEFINE new == [tenant |-> t, pc |-> "lookup", victim |-> P!None, got |-> P!None]
  <1>1. /\ server \in {"serving", "stopping"} /\ ~P!Cached(t) /\ request' = [request EXCEPT ![r] = new]
        /\ UNCHANGED <<cache, client, idleSweep, server>> /\ collided \subseteq collided'
        /\ t \notin collided' => P!Waiting(t) = {} /\ ~(idleSweep.id # P!None /\ idleSweep.tenant = t)
    BY DEF P!Miss
  <1>2. \A e \in ToSet(cache) : e.tenant # t
    BY <1>1 DEF P!Cached, ToSet
  <1>3. cache' \in Seq(Entries) /\ KeyOnce(cache') /\ ToSet(cache') = ToSet(cache) /\ Len(cache') = Len(cache)
    BY <1>1 DEF PoolInv, PoolTypes
  <1>4. /\ new \in [tenant : Tenants \cup {P!NoTenant}, pc : PoolSteps, victim : {P!None, request[r].victim}, got : Nat]
        /\ new.pc = "lookup" /\ new.tenant = t
    BY DEF PoolSteps, P!None
  <1>5. t \notin collided' => Free(t)
    BY <1>1, <1>2 DEF Free
  <1> HIDE DEF new
  <1> QED
    BY <1>1, <1>3, <1>4, <1>5, RequestMoves DEF WaitSteps

LEMMA PoolLeft ==
    ASSUME PoolAssumption, PoolInv, NEW r \in PoolRequests, P!Refused(r) \/ P!EndRequest(r)
    PROVE  PoolInv'
  <1>1. /\ request' = [request EXCEPT ![r] = P!Asleep] /\ request[r].pc # "idle"
        /\ UNCHANGED <<cache, client, idleSweep, server, collided>>
    BY DEF P!Refused, P!EndRequest
  <1>2. server # "starting"
    BY <1>1 DEF PoolInv, Unstarted
  <1>3. cache' \in Seq(Entries) /\ KeyOnce(cache') /\ ToSet(cache') = ToSet(cache) /\ Len(cache') = Len(cache)
    BY <1>1 DEF PoolInv, PoolTypes
  <1>4. /\ P!Asleep \in [tenant : Tenants \cup {P!NoTenant}, pc : PoolSteps, victim : {P!None, request[r].victim}, got : Nat]
        /\ P!Asleep.pc = "idle"
    BY DEF PoolSteps, P!Asleep, P!None
  <1> QED
    BY <1>1, <1>2, <1>3, <1>4, RequestMoves DEF WaitSteps

LEMMA PoolHasRoom ==
    ASSUME PoolAssumption, PoolInv, NEW r \in PoolRequests, P!MakeRoom(r), ~P!Full(Len(cache))
    PROVE  PoolInv'
  <1> DEFINE new == [request[r] EXCEPT !.pc = "create"]
  <1>1. /\ request[r].pc = "lookup" /\ request' = [request EXCEPT ![r] = new]
        /\ UNCHANGED <<cache, client, idleSweep, server, collided>>
    BY DEF P!MakeRoom
  <1>2. server # "starting"
    BY <1>1 DEF PoolInv, Unstarted
  <1>3. cache' \in Seq(Entries) /\ KeyOnce(cache') /\ ToSet(cache') = ToSet(cache) /\ Len(cache') = Len(cache)
    BY <1>1 DEF PoolInv, PoolTypes
  <1>4. /\ new \in [tenant : Tenants \cup {P!NoTenant}, pc : PoolSteps, victim : {P!None, request[r].victim}, got : Nat]
        /\ new.pc = "create" /\ new.tenant = request[r].tenant /\ new.tenant \in Tenants
    <2>1. request[r] \in [tenant : Tenants \cup {P!NoTenant}, pc : PoolSteps, victim : Nat, got : Nat]
      BY DEF PoolInv, PoolTypes
    <2>2. request[r].tenant \in Tenants
      BY <1>1 DEF PoolInv, PoolTypes
    <2> QED
      BY <2>1, <2>2 DEF PoolSteps
  <1>5. Len(cache) <= MaxSize - 1
    <2>1. Len(cache) \in Nat /\ MaxSize \in Nat
      BY DEF PoolInv, PoolTypes, PoolAssumption
    <2> QED
      BY <2>1 DEF P!Full
  <1>6. r \in P!Waiting(new.tenant)
    BY <1>1, <1>4 DEF P!Waiting
  <1> HIDE DEF new
  <1> QED
    BY <1>1, <1>2, <1>3, <1>4, <1>5, <1>6, RequestMoves DEF WaitSteps

\* What a step that begins or ends the closing of a client does to the clients.
LEMMA ClosesOne ==
    ASSUME PoolInv, NEW k \in Nat, NEW s \in {"closing", "closed"},
           client' = [client EXCEPT ![k].state = s]
    PROVE  /\ client' \in Seq(Clients) /\ DOMAIN client' = DOMAIN client /\ Len(client') = Len(client)
           /\ \A j \in DOMAIN client : /\ client'[j].tenant = client[j].tenant
                                       /\ client'[j].state = IF j = k THEN s ELSE client[j].state
  <1>1. client \in [1..Len(client) -> Clients] /\ DOMAIN client = 1..Len(client) /\ Len(client) \in Nat
    BY DEF PoolInv, PoolTypes
  <1>2. client' \in [1..Len(client) -> Clients]
    BY <1>1 DEF Clients
  <1>3. \A j \in DOMAIN client : /\ client'[j].tenant = client[j].tenant
                                 /\ client'[j].state = IF j = k THEN s ELSE client[j].state
    BY <1>1 DEF Clients
  <1> QED
    BY <1>1, <1>2, <1>3

\* The same, when the cache stays as it is.
LEMMA ClientCloses ==
    ASSUME PoolInv, NEW k \in Nat, NEW s \in {"closing", "closed"},
           client' = [client EXCEPT ![k].state = s], cache' = cache,
           server' = server, server # "starting", collided \subseteq collided',
           \A e \in ToSet(cache) : e.id = k => server \notin {"starting", "serving"} \/ idleSweep'.id = k,
           idleSweep.id = P!None \/ idleSweep'.id = idleSweep.id
    PROVE  OpenOnes' /\ CachedOpen'
  <1>1. /\ DOMAIN client' = DOMAIN client
        /\ \A j \in DOMAIN client : /\ client'[j].tenant = client[j].tenant
                                    /\ client'[j].state = IF j = k THEN s ELSE client[j].state
    BY ClosesOne
  <1>2. OpenOnes'
    BY <1>1 DEF PoolInv, OpenOnes
  <1>3. \A e \in ToSet(cache) : e.id \in DOMAIN client /\ e.id # P!None
    BY DEF PoolInv, Named, PoolTypes, P!None
  <1> QED
    BY <1>1, <1>2, <1>3 DEF PoolInv, CachedOpen

LEMMA PoolEvicts ==
    ASSUME PoolAssumption, PoolInv, NEW r \in PoolRequests, P!EvictLRU(r)
    PROVE  PoolInv'
  <1> DEFINE new == [request[r] EXCEPT !.pc = "create", !.victim = P!None]
             k == request[r].victim
  <1>1. /\ request[r].pc = "evict" /\ client' = [client EXCEPT ![k].state = "closed"]
        /\ request' = [request EXCEPT ![r] = new]
        /\ UNCHANGED <<cache, idleSweep, server, collided>>
    BY DEF P!EvictLRU, P!Disconnected
  <1>2. server # "starting" /\ k \in Nat
    BY <1>1 DEF PoolInv, Unstarted, PoolTypes
  <1>3. idleSweep' \in [keys : SUBSET Tenants, id : Nat, tenant : Tenants \cup {P!NoTenant}]
        /\ \A e \in ToSet(cache) : e.id # k
    BY <1>1 DEF PoolInv, PoolTypes, Named
  <1>4. /\ client' \in Seq(Clients) /\ DOMAIN client' = DOMAIN client /\ Len(client') = Len(client)
        /\ \A j \in DOMAIN client : /\ client'[j].tenant = client[j].tenant
                                    /\ client'[j].state = IF j = k THEN "closed" ELSE client[j].state
        /\ OpenOnes' /\ CachedOpen'
    <2> HIDE DEF k
    <2> QED
      BY <1>1, <1>2, <1>3, ClosesOne, ClientCloses
  <1>5. new \in [tenant : Tenants \cup {P!NoTenant}, pc : PoolSteps, victim : Nat, got : Nat]
        /\ new.pc = "create" /\ new.tenant = request[r].tenant /\ new.tenant \in Tenants
        /\ new.victim = P!None
    <2>1. request[r] \in [tenant : Tenants \cup {P!NoTenant}, pc : PoolSteps, victim : Nat, got : Nat]
      BY DEF PoolInv, PoolTypes
    <2>2. request[r].tenant \in Tenants
      BY <1>1 DEF PoolInv, PoolTypes
    <2> QED
      BY <2>1, <2>2 DEF PoolSteps, P!None
  <1> HIDE DEF new, k
  <1>6. PoolTypes' /\ KeyOnce(cache)' /\ Unstarted'
    BY <1>1, <1>2, <1>4, <1>5 DEF PoolInv, PoolTypes, Unstarted, KeyOnce
  <1>7. Named'
    <2>1. \A e \in ToSet(cache) : e.id \in DOMAIN client
      BY DEF PoolInv, Named
    <2>2. \A e \in ToSet(cache) : e.id # P!None
      BY <2>1 DEF PoolInv, PoolTypes, P!None
    <2>3. \A q \in PoolRequests : request'[q] = IF q = r THEN new ELSE request[q]
      BY <1>1 DEF PoolInv, PoolTypes
    <2>4. Len(client) \in Nat /\ P!None <= Len(client)
      BY DEF PoolInv, PoolTypes, P!None
    <2> QED
      BY <1>1, <1>4, <1>5, <2>2, <2>3, <2>4 DEF PoolInv, Named
  <1>8. RoomLeft'
    <2>1. PICK n : n = Cardinality(Promised)'
      OBVIOUS
    <2>2. r \in Promised
      BY <1>1 DEF Promised
    <2>3. /\ Cardinality(Promised) \in Nat /\ n \in Nat /\ n <= Cardinality(Promised)
          /\ Cardinality(PoolRequests) \in Nat
      BY <1>1, <2>1, <2>2, PromisesOf DEF PoolInv
    <2>4. Len(cache) \in Nat /\ MaxSize \in Nat
      BY DEF PoolInv, PoolTypes, PoolAssumption
    <2>5. Len(cache) + n <= MaxSize - 1 + Cardinality(PoolRequests)
      BY <2>3, <2>4 DEF PoolInv, RoomLeft
    <2> QED
      BY <1>1, <2>1, <2>5 DEF RoomLeft
  <1>9. \A t \in Tenants : P!Waiting(t)' = P!Waiting(t)
    BY <1>1, <1>5 DEF P!Waiting, PoolInv, PoolTypes
  <1>10. \A t \in Tenants \ collided' : Lone(t)'
    BY <1>1, <1>9 DEF PoolInv, Lone
  <1> QED
    BY <1>4, <1>6, <1>7, <1>8, <1>10 DEF PoolInv

\* A step of the sweep or of the server that leaves requests, cache and clients alone.
LEMMA PoolPauses ==
    ASSUME PoolAssumption, PoolInv, UNCHANGED <<cache, client, request, collided>>,
           idleSweep'.id = idleSweep.id, idleSweep'.tenant = idleSweep.tenant,
           idleSweep' \in [keys : SUBSET Tenants, id : Nat, tenant : Tenants \cup {P!NoTenant}],
           server' = server \/ server' = "stopping", server' # "starting" \/ idleSweep' = idleSweep
    PROVE  PoolInv'
  <1>1. PoolTypes' /\ KeyOnce(cache)' /\ Unstarted'
    BY DEF PoolInv, PoolTypes, Unstarted, KeyOnce
  <1>2. Named' /\ OpenOnes' /\ CachedOpen'
    BY DEF PoolInv, Named, OpenOnes, CachedOpen
  <1>3. RoomLeft'
    BY DEF PoolInv, RoomLeft, Promised
  <1>4. \A t \in Tenants : P!Waiting(t)' = P!Waiting(t)
    BY DEF P!Waiting
  <1>5. \A t \in Tenants \ collided' : Lone(t)'
    BY <1>4 DEF PoolInv, Lone
  <1> QED
    BY <1>1, <1>2, <1>3, <1>5 DEF PoolInv

LEMMA PoolIdles ==
    ASSUME PoolAssumption, PoolInv, P!FindIdle \/ P!Shutdown
    PROVE  PoolInv'
  <1>1. CASE P!FindIdle
    <2>1. PICK keys \in SUBSET {e.tenant : e \in P!Range(cache)} :
             idleSweep' = [idleSweep EXCEPT !.keys = keys] /\ server = "serving"
             /\ UNCHANGED <<cache, client, request, server, collided>>
      BY <1>1 DEF P!FindIdle
    <2>2. \A e \in P!Range(cache) : e.tenant \in Tenants
      <3>1. \A i \in DOMAIN cache : cache[i] \in Entries
        BY DEF PoolInv, PoolTypes
      <3> QED
        BY <3>1 DEF P!Range, Entries
    <2>3. keys \subseteq Tenants
      BY <2>2
    <2>4. /\ idleSweep'.id = idleSweep.id /\ idleSweep'.tenant = idleSweep.tenant
          /\ idleSweep' \in [keys : SUBSET Tenants, id : Nat, tenant : Tenants \cup {P!NoTenant}]
      BY <2>1, <2>3 DEF PoolInv, PoolTypes
    <2> QED
      BY <2>1, <2>4, PoolPauses
  <1>2. CASE P!Shutdown
    <2>1. /\ server' = "stopping" /\ UNCHANGED <<cache, client, request, idleSweep, collided>>
          /\ idleSweep \in [keys : SUBSET Tenants, id : Nat, tenant : Tenants \cup {P!NoTenant}]
      BY <1>2 DEF P!Shutdown, PoolInv, PoolTypes
    <2> QED
      BY <2>1, PoolPauses
  <1> QED
    BY <1>1, <1>2

LEMMA PoolStartsEviction ==
    ASSUME PoolAssumption, PoolInv, P!Evict
    PROVE  PoolInv'
  <1>1. PICK t \in idleSweep.keys :
          /\ IF P!Cached(t)
             THEN /\ idleSweep' = [keys |-> idleSweep.keys \ {t}, tenant |-> t, id |-> P!IdOf(t)]
                  /\ client' = [client EXCEPT ![P!IdOf(t)].state = "closing"]
                  /\ collided' = IF P!Waiting(t) # {} THEN collided \cup {t} ELSE collided
             ELSE /\ idleSweep' = [idleSweep EXCEPT !.keys = @ \ {t}]
                  /\ UNCHANGED <<client, collided>>
          /\ idleSweep.id = P!None /\ UNCHANGED <<cache, request, server>>
    BY DEF P!Evict, P!Disconnecting
  <1>2. t \in Tenants /\ server # "starting"
    BY <1>1 DEF PoolInv, PoolTypes, Unstarted
  <1>3. CASE ~P!Cached(t)
    <2>1. /\ idleSweep'.id = idleSweep.id /\ idleSweep'.tenant = idleSweep.tenant
          /\ idleSweep' \in [keys : SUBSET Tenants, id : Nat, tenant : Tenants \cup {P!NoTenant}]
      BY <1>1, <1>3 DEF PoolInv, PoolTypes
    <2> QED
      BY <1>1, <1>2, <1>3, <2>1, PoolPauses
  <1>4. CASE P!Cached(t)
    <2> DEFINE k == P!IdOf(t)
    <2>1. /\ P!Entry(t, k) \in ToSet(cache) /\ k \in Nat
          /\ \A e \in ToSet(cache) : e.tenant = t => e = P!Entry(t, k)
      BY <1>4, EntryOf DEF PoolInv
    <2>2. P!Entry(t, k).id = k /\ P!Entry(t, k).tenant = t
      BY DEF P!Entry
    <2>3. k \in DOMAIN client /\ client[k].tenant = t /\ k # P!None
      BY <2>1, <2>2 DEF PoolInv, PoolTypes, Named, P!None
    <2> HIDE DEF k
    <2>4. /\ idleSweep'.id = k /\ idleSweep'.tenant = t
          /\ idleSweep' \in [keys : SUBSET Tenants, id : Nat, tenant : Tenants \cup {P!NoTenant}]
      BY <1>1, <1>2, <1>4, <2>1 DEF PoolInv, PoolTypes, k
    <2>5. /\ client' = [client EXCEPT ![k].state = "closing"]
          /\ collided \subseteq collided'
          /\ t \notin collided' => P!Waiting(t) = {}
      BY <1>1, <1>4 DEF k
    <2>6. /\ client' \in Seq(Clients) /\ DOMAIN client' = DOMAIN client /\ Len(client') = Len(client)
          /\ \A j \in DOMAIN client : /\ client'[j].tenant = client[j].tenant
                                      /\ client'[j].state = IF j = k THEN "closing" ELSE client[j].state
          /\ OpenOnes' /\ CachedOpen'
      BY <1>1, <1>2, <2>1, <2>4, <2>5, ClosesOne, ClientCloses
    <2>7. PoolTypes' /\ KeyOnce(cache)' /\ Unstarted'
      BY <1>1, <1>2, <2>4, <2>6 DEF PoolInv, PoolTypes, Unstarted, KeyOnce
    <2>8. Named'
      BY <1>1, <2>3, <2>4, <2>6 DEF PoolInv, Named
    <2>9. RoomLeft'
      BY <1>1 DEF PoolInv, RoomLeft, Promised
    <2>10. \A u \in Tenants : P!Waiting(u)' = P!Waiting(u)
      BY <1>1 DEF P!Waiting
    <2>11. ASSUME NEW u \in Tenants, u \notin collided' PROVE Lone(u)'
      <3>1. Lone(u) /\ P!Waiting(u)' = P!Waiting(u) /\ cache' = cache
        BY <1>1, <2>5, <2>10, <2>11 DEF PoolInv
      <3>2. CASE u = t
        <4>1. P!Waiting(u)' = {} /\ \A e \in ToSet(cache) : e.tenant = u => e.id = idleSweep'.id
          BY <2>1, <2>2, <2>4, <2>5, <2>11, <3>1, <3>2
        <4> QED
          BY <3>1, <4>1 DEF Lone
      <3>3. CASE u # t
        BY <2>4, <3>1, <3>3 DEF Lone
      <3> QED
        BY <3>2, <3>3
    <2> QED
      BY <2>6, <2>7, <2>8, <2>9, <2>11 DEF PoolInv
  <1> QED
    BY <1>3, <1>4

\* A client of the cache in work, when the sweep closes it or the shutdown does.
LEMMA PoolForgets ==
    ASSUME PoolAssumption, PoolInv, P!EvictDone
    PROVE  PoolInv'
  <1> DEFINE k == idleSweep.id
             t == idleSweep.tenant
  <1>1. /\ k # P!None /\ client' = [client EXCEPT ![k].state = "closed"]
        /\ cache' = P!Without(cache, t)
        /\ idleSweep' = [idleSweep EXCEPT !.id = P!None, !.tenant = P!NoTenant]
        /\ UNCHANGED <<request, server, collided>>
    BY DEF P!EvictDone, P!Disconnected
  <1>2. k \in DOMAIN client /\ client[k].tenant = t /\ k \in Nat
    BY <1>1 DEF PoolInv, PoolTypes, Named
  <1>3. t \in Tenants
    <2>1. client[k] \in Clients
      BY <1>2 DEF PoolInv, PoolTypes
    <2> QED
      BY <1>2, <2>1 DEF Clients
  <1>4. server # "starting"
    BY <1>1 DEF PoolInv, Unstarted
  <1>5. /\ cache' \in Seq(Entries) /\ KeyOnce(cache') /\ Len(cache') <= Len(cache)
        /\ ToSet(cache') = {e \in ToSet(cache) : e.tenant # t}
    BY <1>1, WithoutKeys DEF PoolInv, PoolTypes
  <1>6. /\ client' \in Seq(Clients) /\ DOMAIN client' = DOMAIN client /\ Len(client') = Len(client)
        /\ \A j \in DOMAIN client : /\ client'[j].tenant = client[j].tenant
                                    /\ client'[j].state = IF j = k THEN "closed" ELSE client[j].state
    <2> HIDE DEF k
    <2> QED
      BY <1>1, <1>2, ClosesOne DEF PoolInv
  <1>7. idleSweep'.id = P!None
        /\ idleSweep' \in [keys : SUBSET Tenants, id : Nat, tenant : Tenants \cup {P!NoTenant}]
    BY <1>1 DEF PoolInv, PoolTypes, P!None
  <1>8. PoolTypes' /\ Unstarted'
    BY <1>1, <1>4, <1>5, <1>6, <1>7 DEF PoolInv, PoolTypes, Unstarted
  <1>9. Named'
    BY <1>1, <1>5, <1>6, <1>7 DEF PoolInv, Named
  <1>10. RoomLeft'
    <2>1. Promised' = Promised /\ Promised \in SUBSET PoolRequests
      BY <1>1 DEF Promised
    <2>2. Cardinality(Promised) \in Nat /\ Cardinality(PoolRequests) \in Nat
      BY <2>1, FS_Subset, FS_CardinalityType DEF PoolAssumption
    <2>3. Len(cache) \in Nat /\ Len(cache') \in Nat /\ MaxSize \in Nat
      BY <1>5 DEF PoolInv, PoolTypes, PoolAssumption
    <2> QED
      BY <1>5, <2>1, <2>2, <2>3 DEF PoolInv, RoomLeft
  <1>11. OpenOnes'
    <2> SUFFICES ASSUME NEW j \in DOMAIN client, client'[j].state = "open", client[j].tenant \notin collided
                 PROVE  \E e \in ToSet(cache') : e.id = j
      BY <1>1, <1>6 DEF OpenOnes
    <2>1. j # k /\ client[j].state = "open"
      BY <1>6
    <2>2. PICK e \in ToSet(cache) : e.id = j
      BY <2>1 DEF PoolInv, OpenOnes
    <2>3. e.tenant = client[j].tenant
      BY <2>2 DEF PoolInv, Named
    <2>4. e.tenant # t
      BY <1>1, <1>3, <2>1, <2>2, <2>3 DEF PoolInv, Lone
    <2> QED
      BY <1>5, <2>2, <2>4
  <1>12. CachedOpen'
    <2> SUFFICES ASSUME NEW e \in ToSet(cache), e.tenant # t, server \in {"starting", "serving"}
                 PROVE  client'[e.id].state = "open"
      BY <1>1, <1>5 DEF CachedOpen
    <2>1. e.id \in DOMAIN client /\ client[e.id].tenant = e.tenant
      BY DEF PoolInv, Named
    <2>2. e.id # k
      BY <1>2, <2>1
    <2> QED
      BY <1>6, <2>1, <2>2 DEF PoolInv, CachedOpen
  <1>13. \A u \in Tenants : P!Waiting(u)' = P!Waiting(u)
    BY <1>1 DEF P!Waiting
  <1>14. \A u \in Tenants \ collided' : Lone(u)'
    BY <1>1, <1>5, <1>7, <1>13 DEF PoolInv, Lone
  <1> QED
    BY <1>5, <1>8, <1>9, <1>10, <1>11, <1>12, <1>14 DEF PoolInv

LEMMA PoolCloses ==
    ASSUME PoolAssumption, PoolInv, P!CloseEntry
    PROVE  PoolInv'
  <1>1. PICK e \in P!Range(cache) : P!Disconnected(e.id)
    BY DEF P!CloseEntry
  <1> DEFINE k == e.id
  <1>2. /\ client' = [client EXCEPT ![k].state = "closed"] /\ server = "stopping"
        /\ UNCHANGED <<cache, request, idleSweep, server, collided>>
    BY <1>1 DEF P!CloseEntry, P!Disconnected
  <1>3. k \in Nat
    <2>1. \A i \in DOMAIN cache : cache[i] \in Entries
      BY DEF PoolInv, PoolTypes
    <2> QED
      BY <2>1 DEF P!Range, Entries
  <1>4. idleSweep' \in [keys : SUBSET Tenants, id : Nat, tenant : Tenants \cup {P!NoTenant}]
    BY <1>2 DEF PoolInv, PoolTypes
  <1> HIDE DEF k
  <1>5. /\ client' \in Seq(Clients) /\ DOMAIN client' = DOMAIN client /\ Len(client') = Len(client)
        /\ \A j \in DOMAIN client : /\ client'[j].tenant = client[j].tenant
                                    /\ client'[j].state = IF j = k THEN "closed" ELSE client[j].state
    BY <1>2, <1>3, ClosesOne DEF PoolInv
  <1>6. OpenOnes' /\ CachedOpen'
    BY <1>2, <1>3, <1>4, ClientCloses
  <1>7. PoolTypes' /\ Unstarted' /\ KeyOnce(cache)'
    BY <1>2, <1>5 DEF PoolInv, PoolTypes, Unstarted, KeyOnce
  <1>8. Named' /\ RoomLeft'
    BY <1>2, <1>5 DEF PoolInv, Named, RoomLeft, Promised
  <1>9. \A u \in Tenants : P!Waiting(u)' = P!Waiting(u)
    BY <1>2 DEF P!Waiting
  <1>10. \A u \in Tenants \ collided' : Lone(u)'
    BY <1>2, <1>9 DEF PoolInv, Lone
  <1> QED
    BY <1>6, <1>7, <1>8, <1>10 DEF PoolInv

LEMMA PoolStops ==
    ASSUME PoolAssumption, PoolInv, P!Stop
    PROVE  PoolInv'
  <1>1. /\ cache' = <<>> /\ server' = "stopped" /\ UNCHANGED <<client, request, idleSweep, collided>>
        /\ \A e \in ToSet(cache) : client[e.id].state = "closed"
    BY DEF P!Stop, P!Range, ToSet
  <1>2. ToSet(cache') = {} /\ cache' \in Seq(Entries) /\ Len(cache') = 0
    BY <1>1 DEF ToSet
  <1>3. PoolTypes' /\ Unstarted' /\ KeyOnce(cache')
    BY <1>1, <1>2 DEF PoolInv, PoolTypes, Unstarted, KeyOnce
  <1>4. Named' /\ OpenOnes' /\ CachedOpen'
    BY <1>1, <1>2 DEF PoolInv, Named, OpenOnes, CachedOpen
  <1>5. RoomLeft'
    <2>1. Promised' = Promised /\ Promised \in SUBSET PoolRequests
      BY <1>1 DEF Promised
    <2>2. Cardinality(Promised) \in Nat /\ Cardinality(PoolRequests) \in Nat
      BY <2>1, FS_Subset, FS_CardinalityType DEF PoolAssumption
    <2>3. Len(cache) \in Nat /\ MaxSize \in Nat
      BY DEF PoolInv, PoolTypes, PoolAssumption
    <2> QED
      BY <1>2, <2>1, <2>2, <2>3 DEF PoolInv, RoomLeft
  <1>6. \A u \in Tenants : P!Waiting(u)' = P!Waiting(u)
    BY <1>1 DEF P!Waiting
  <1>7. \A u \in Tenants \ collided' : Lone(u)'
    BY <1>1, <1>2, <1>6 DEF PoolInv, Lone
  <1> QED
    BY <1>3, <1>4, <1>5, <1>7 DEF PoolInv

LEMMA PoolMakesRoom ==
    ASSUME PoolAssumption, PoolInv, NEW r \in PoolRequests, P!MakeRoom(r), P!Full(Len(cache))
    PROVE  PoolInv'
  <1> DEFINE h == Head(cache)
             new == [request[r] EXCEPT !.pc = "evict", !.victim = h.id]
  <1>1. /\ request[r].pc = "lookup" /\ request' = [request EXCEPT ![r] = new]
        /\ cache' = Tail(cache) /\ client' = [client EXCEPT ![h.id].state = "closing"]
        /\ UNCHANGED <<idleSweep, server, collided>>
    BY DEF P!MakeRoom, P!Disconnecting
  <1>2. server # "starting" /\ request[r].tenant \in Tenants
    BY <1>1 DEF PoolInv, PoolTypes, Unstarted
  <1>3. cache # <<>>
    <2>1. Len(cache) # 0
      BY DEF P!Full, PoolAssumption
    <2> QED
      BY <2>1
  <1>4. /\ cache' \in Seq(Entries) /\ KeyOnce(cache') /\ Len(cache') = Len(cache) - 1
        /\ h \in ToSet(cache) /\ ToSet(cache') = {e \in ToSet(cache) : e.tenant # h.tenant}
    BY <1>1, <1>3, TailKeys DEF PoolInv, PoolTypes
  <1>5. /\ h.id \in DOMAIN client /\ client[h.id].tenant = h.tenant /\ h.id \in Nat
        /\ h.id <= Len(client) /\ h.id # P!None
    BY <1>4 DEF PoolInv, PoolTypes, Named, P!None
  <1> HIDE DEF h
  <1>6. /\ client' \in Seq(Clients) /\ DOMAIN client' = DOMAIN client /\ Len(client') = Len(client)
        /\ \A j \in DOMAIN client : /\ client'[j].tenant = client[j].tenant
                                    /\ client'[j].state = IF j = h.id THEN "closing" ELSE client[j].state
    BY <1>1, <1>5, ClosesOne
  <1>7. /\ new \in [tenant : Tenants \cup {P!NoTenant}, pc : PoolSteps, victim : Nat, got : Nat]
        /\ new.pc = "evict" /\ new.tenant = request[r].tenant /\ new.victim = h.id
    <2>1. request[r] \in [tenant : Tenants \cup {P!NoTenant}, pc : PoolSteps, victim : Nat, got : Nat]
      BY DEF PoolInv, PoolTypes
    <2> QED
      BY <1>5, <2>1 DEF PoolSteps
  <1> HIDE DEF new
  <1>8. \A q \in PoolRequests : request'[q] = IF q = r THEN new ELSE request[q]
    BY <1>1 DEF PoolInv, PoolTypes
  <1>9. PoolTypes' /\ Unstarted'
    BY <1>1, <1>2, <1>4, <1>6, <1>7 DEF PoolInv, PoolTypes, Unstarted
  <1>10. \A e \in ToSet(cache) : e.id \in DOMAIN client /\ client[e.id].tenant = e.tenant
    BY DEF PoolInv, Named
  <1>11. \A e \in ToSet(cache') : e \in ToSet(cache) /\ e.id # h.id
    BY <1>4, <1>5, <1>10
  <1>12. Named'
    BY <1>1, <1>5, <1>6, <1>7, <1>8, <1>11 DEF PoolInv, Named
  <1>13. RoomLeft'
    <2>1. PICK n : n = Cardinality(Promised)'
      OBVIOUS
    <2>2. /\ Cardinality(Promised) \in Nat /\ n \in Nat /\ n <= Cardinality(Promised) + 1
          /\ Cardinality(PoolRequests) \in Nat
      BY <1>1, <2>1, PromisesOf DEF PoolInv
    <2>3. Len(cache) \in Nat /\ Len(cache') \in Nat /\ MaxSize \in Nat
      BY <1>4 DEF PoolInv, PoolTypes, PoolAssumption
    <2>4. Len(cache') + n <= MaxSize - 1 + Cardinality(PoolRequests)
      BY <1>4, <2>2, <2>3 DEF PoolInv, RoomLeft
    <2> QED
      BY <2>1, <2>4 DEF RoomLeft
  <1>14. OpenOnes'
    <2> SUFFICES ASSUME NEW j \in DOMAIN client, client'[j].state = "open", client[j].tenant \notin collided
                 PROVE  \E e \in ToSet(cache') : e.id = j
      BY <1>1, <1>6 DEF OpenOnes
    <2>1. j # h.id /\ client[j].state = "open"
      BY <1>6
    <2>2. PICK e \in ToSet(cache) : e.id = j
      BY <2>1 DEF PoolInv, OpenOnes
    <2>3. e.tenant # h.tenant
      <3>1. e.tenant = h.tenant => e = h
        BY <1>4 DEF PoolInv, KeyOnce, ToSet
      <3> QED
        BY <2>1, <2>2, <3>1
    <2> QED
      BY <1>4, <2>2, <2>3
  <1>15. CachedOpen'
    BY <1>1, <1>6, <1>10, <1>11 DEF PoolInv, CachedOpen
  <1>16. \A u \in Tenants : P!Waiting(u)' = P!Waiting(u)
    BY <1>1, <1>7, <1>8 DEF P!Waiting
  <1>17. \A u \in Tenants \ collided' : Lone(u)'
    BY <1>1, <1>11, <1>16 DEF PoolInv, Lone
  <1> QED
    BY <1>4, <1>9, <1>12, <1>13, <1>14, <1>15, <1>17 DEF PoolInv

LEMMA PoolConnects ==
    ASSUME PoolAssumption, PoolInv, NEW r \in PoolRequests, P!CreateClient(r)
    PROVE  PoolInv'
  <1> DEFINE t == request[r].tenant
             k == Len(client) + 1
             added == [tenant |-> t, state |-> "open"]
             entry == P!Entry(t, k)
             new == [request[r] EXCEPT !.pc = "has", !.got = k]
  <1>1. /\ request[r].pc = "create" /\ request' = [request EXCEPT ![r] = new]
        /\ client' = Append(client, added) /\ cache' = P!SetEntry(cache, entry)
        /\ UNCHANGED <<idleSweep, server, collided>>
    BY DEF P!CreateClient, P!Connect
  <1>2. server # "starting" /\ t \in Tenants
    BY <1>1 DEF PoolInv, PoolTypes, Unstarted
  <1>3. /\ client \in Seq(Clients) /\ Len(client) \in Nat /\ k \in Nat /\ DOMAIN client = 1..Len(client)
        /\ added \in Clients /\ entry \in Entries /\ entry.id = k /\ entry.tenant = t
    BY <1>2 DEF PoolInv, PoolTypes, Clients, Entries, P!Entry
  <1>4. /\ client' \in Seq(Clients) /\ Len(client') = k /\ DOMAIN client' = 1..k
        /\ client'[k].tenant = t /\ client'[k].state = "open"
        /\ \A j \in DOMAIN client : client'[j] = client[j] /\ j \in DOMAIN client' /\ j # k
    <2> HIDE DEF added, entry
    <2>1. /\ client' \in Seq(Clients) /\ Len(client') = k /\ DOMAIN client' = 1..k
          /\ client'[k] = added
          /\ \A j \in DOMAIN client : client'[j] = client[j] /\ j \in DOMAIN client' /\ j # k
      BY <1>1, <1>3
    <2> QED
      BY <2>1 DEF added
  <1> HIDE DEF entry, added
  <1>5. /\ cache' \in Seq(Entries) /\ KeyOnce(cache') /\ Len(cache') <= Len(cache) + 1
        /\ ToSet(cache') = {e \in ToSet(cache) : e.tenant # t} \cup {entry}
    BY <1>1, <1>3, SetEntryKeys DEF PoolInv, PoolTypes
  <1>6. /\ new \in [tenant : Tenants \cup {P!NoTenant}, pc : PoolSteps, victim : Nat, got : Nat]
        /\ new.pc = "has" /\ new.tenant = t /\ new.victim = request[r].victim
    <2>1. request[r] \in [tenant : Tenants \cup {P!NoTenant}, pc : PoolSteps, victim : Nat, got : Nat]
      BY DEF PoolInv, PoolTypes
    <2> QED
      BY <1>3, <2>1 DEF PoolSteps
  <1> HIDE DEF new
  <1>7. \A q \in PoolRequests : request'[q] = IF q = r THEN new ELSE request[q]
    BY <1>1 DEF PoolInv, PoolTypes
  <1>8. PoolTypes' /\ Unstarted'
    BY <1>1, <1>2, <1>4, <1>5, <1>6 DEF PoolInv, PoolTypes, Unstarted
  <1>9. \A e \in ToSet(cache) : e.id \in DOMAIN client /\ client[e.id].tenant = e.tenant
    BY DEF PoolInv, Named
  <1>10. ASSUME NEW q \in PoolRequests
         PROVE  /\ request'[q].victim = request[q].victim /\ request[q].victim \in Nat
                /\ request[q].victim <= Len(client)
    BY <1>6, <1>7 DEF PoolInv, PoolTypes, Named
  <1>11. Named'
    <2>1. \A e \in ToSet(cache') : e.id \in DOMAIN client' /\ client'[e.id].tenant = e.tenant
      BY <1>3, <1>4, <1>5, <1>9
    <2>2. idleSweep.id # P!None => idleSweep.id \in DOMAIN client /\ client[idleSweep.id].tenant = idleSweep.tenant
                               /\ client[idleSweep.id].state # "open"
      BY DEF PoolInv, Named
    <2>3. ASSUME NEW q \in PoolRequests
          PROVE  /\ request'[q].victim <= Len(client')
                 /\ \A e \in ToSet(cache') : request'[q].victim # e.id
      <3>1. request[q].victim <= k /\ request[q].victim # k
        BY <1>3, <1>10
      <3>2. \A e \in ToSet(cache) : request[q].victim # e.id
        BY DEF PoolInv, Named
      <3> HIDE DEF k
      <3> QED
        BY <1>3, <1>4, <1>5, <1>10, <3>1, <3>2
    <2> HIDE DEF k
    <2> QED
      BY <1>1, <1>4, <2>1, <2>2, <2>3 DEF Named
  <1>12. RoomLeft'
    <2>1. PICK n : n = Cardinality(Promised)'
      OBVIOUS
    <2>2. r \in Promised
      BY <1>1 DEF Promised
    <2>3. /\ Cardinality(Promised) \in Nat /\ n \in Nat /\ n = Cardinality(Promised) - 1
          /\ Cardinality(PoolRequests) \in Nat
      BY <1>1, <1>6, <2>1, <2>2, PromisesOf DEF PoolInv
    <2>4. Len(cache) \in Nat /\ Len(cache') \in Nat /\ MaxSize \in Nat
      BY <1>5 DEF PoolInv, PoolTypes, PoolAssumption
    <2>5. Len(cache') + n <= MaxSize - 1 + Cardinality(PoolRequests)
      BY <1>5, <2>3, <2>4 DEF PoolInv, RoomLeft
    <2> QED
      BY <2>1, <2>5 DEF RoomLeft
  <1>13. r \in P!Waiting(t)
    BY <1>1, <1>2 DEF P!Waiting
  <1> HIDE DEF k, t
  <1>14. OpenOnes'
    <2> SUFFICES ASSUME NEW j \in DOMAIN client', client'[j].state = "open", client'[j].tenant \notin collided
                 PROVE  \E e \in ToSet(cache') : e.id = j
      BY <1>1 DEF OpenOnes
    <2>1. CASE j = k
      BY <1>3, <1>5, <2>1
    <2>2. CASE j # k
      <3>1. j \in DOMAIN client /\ client'[j] = client[j]
        BY <1>3, <1>4, <2>2 DEF k
      <3>2. PICK e \in ToSet(cache) : e.id = j
        BY <3>1 DEF PoolInv, OpenOnes
      <3>3. e.tenant = client[j].tenant
        BY <1>9, <3>2
      <3>4. e.tenant # t
        BY <1>2, <1>13, <3>1, <3>2, <3>3 DEF PoolInv, Lone
      <3> QED
        BY <1>5, <3>2, <3>4
    <2> QED
      BY <2>1, <2>2
  <1>15. CachedOpen'
    BY <1>1, <1>3, <1>4, <1>5, <1>9 DEF PoolInv, CachedOpen
  <1>16. ASSUME NEW u \in Tenants, u \notin collided' PROVE Lone(u)'
    <2>1. Lone(u)
      BY <1>1, <1>16 DEF PoolInv
    <2>2. \A q : q \in P!Waiting(u)' <=> q \in P!Waiting(u) /\ q # r
      BY <1>6, <1>7, <1>1 DEF P!Waiting
    <2>3. CASE u = t
      <3>1. P!Waiting(u)' = {} /\ ~(idleSweep'.id # P!None /\ idleSweep'.tenant = u)
        BY <1>1, <1>13, <2>1, <2>2, <2>3 DEF Lone
      <3> QED
        BY <3>1 DEF Lone
    <2>4. CASE u # t
      <3>1. \A e \in ToSet(cache') : e.tenant = u => e \in ToSet(cache)
        BY <1>3, <1>5, <2>4
      <3> QED
        BY <1>1, <2>1, <2>2, <3>1 DEF Lone
    <2> QED
      BY <2>3, <2>4
  <1> QED
    BY <1>5, <1>8, <1>11, <1>12, <1>14, <1>15, <1>16 DEF PoolInv

\* No request at work: nobody waits and nothing is promised.
LEMMA NobodyAtWork ==
    ASSUME PoolAssumption, \A r \in PoolRequests : request[r].pc = "idle"
    PROVE  /\ Promised = {} /\ Cardinality(Promised) = 0 /\ \A t : P!Waiting(t) = {}
           /\ Cardinality(PoolRequests) \in Nat \ {0}
  <1>1. Promised = {} /\ \A t : P!Waiting(t) = {}
    BY DEF Promised, P!Waiting
  <1>2. Cardinality(PoolRequests) \in Nat /\ Cardinality(PoolRequests) # 0
    BY FS_CardinalityType, FS_EmptySet DEF PoolAssumption
  <1> QED
    BY <1>1, <1>2, FS_EmptySet

LEMMA PoolWarms ==
    ASSUME PoolAssumption, PoolInv, P!WarmPool
    PROVE  PoolInv'
  <1>1. PICK alive \in SUBSET Tenants : \E chosen \in P!SetToSeqs(alive) :
          /\ server = "starting" /\ Len(chosen) <= MaxSize
          /\ cache' = [i \in DOMAIN chosen |-> P!Entry(chosen[i], i)]
          /\ client' = [i \in DOMAIN chosen |-> [tenant |-> chosen[i], state |-> "open"]]
          /\ server' = "serving" /\ UNCHANGED <<request, idleSweep, collided>>
    BY DEF P!WarmPool
  <1>2. PICK chosen \in P!SetToSeqs(alive) :
          /\ server = "starting" /\ Len(chosen) <= MaxSize
          /\ cache' = [i \in DOMAIN chosen |-> P!Entry(chosen[i], i)]
          /\ client' = [i \in DOMAIN chosen |-> [tenant |-> chosen[i], state |-> "open"]]
          /\ server' = "serving" /\ UNCHANGED <<request, idleSweep, collided>>
    BY <1>1
  <1> DEFINE n == Cardinality(alive)
  <1>3. n \in Nat
    <2>1. IsFiniteSet(alive)
      BY FS_Subset DEF PoolAssumption
    <2> QED
      BY <2>1, FS_CardinalityType
  <1>4. /\ chosen \in [1..n -> alive]
        /\ \A i, j \in 1..n : i # j => chosen[i] # chosen[j]
    BY DEF P!SetToSeqs, P!Cardinality, Cardinality
  <1> HIDE DEF n
  <1>5. DOMAIN chosen = 1..n /\ Len(chosen) = n /\ \A i \in 1..n : chosen[i] \in Tenants
    <2>1. DOMAIN chosen = 1..n /\ \A i \in 1..n : chosen[i] \in Tenants
      BY <1>4
    <2>2. chosen \in Seq(Tenants)
      BY <1>3, <1>4
    <2>3. Len(chosen) = n
      BY <1>3, <2>1, <2>2
    <2> QED
      BY <2>1, <2>3
  <1>6. /\ cache' \in Seq(Entries) /\ Len(cache') = n /\ DOMAIN cache' = 1..n
        /\ \A i \in 1..n : cache'[i].tenant = chosen[i] /\ cache'[i].id = i
    <2>1. /\ DOMAIN cache' = 1..n /\ cache' \in [1..n -> Entries]
          /\ \A i \in 1..n : cache'[i].tenant = chosen[i] /\ cache'[i].id = i
      BY <1>2, <1>5 DEF P!Entry, Entries
    <2>2. cache' \in Seq(Entries)
      BY <1>3, <2>1
    <2> QED
      BY <1>3, <2>1, <2>2
  <1>7. /\ client' \in Seq(Clients) /\ Len(client') = n /\ DOMAIN client' = 1..n
        /\ \A i \in 1..n : client'[i].tenant = chosen[i] /\ client'[i].state = "open"
    <2>1. /\ DOMAIN client' = 1..n /\ client' \in [1..n -> Clients]
          /\ \A i \in 1..n : client'[i].tenant = chosen[i] /\ client'[i].state = "open"
      BY <1>2, <1>5 DEF Clients
    <2>2. client' \in Seq(Clients)
      BY <1>3, <2>1
    <2> QED
      BY <1>3, <2>1, <2>2
  <1>8. KeyOnce(cache')
    BY <1>4, <1>6 DEF KeyOnce
  <1>9. /\ \A e \in ToSet(cache') : \E i \in 1..n : e = cache'[i]
        /\ \A i \in 1..n : cache'[i] \in ToSet(cache')
    BY <1>6 DEF ToSet
  <1>10. /\ idleSweep.id = P!None /\ \A r \in PoolRequests : request[r].pc = "idle"
         /\ client = <<>>
    BY <1>2 DEF PoolInv, Unstarted
  <1>11. PoolTypes' /\ Unstarted'
    BY <1>2, <1>6, <1>7 DEF PoolInv, PoolTypes, Unstarted
  <1>12. Named'
    <2>1. \A e \in ToSet(cache') : e.id \in DOMAIN client' /\ client'[e.id].tenant = e.tenant
                                   /\ e.id \in 1..n
      BY <1>6, <1>7, <1>9
    <2>2. \A r \in PoolRequests : request[r].victim = 0
      <3>1. Len(client) = 0
        BY <1>10
      <3>2. \A r \in PoolRequests : request[r].victim \in Nat /\ request[r].victim <= Len(client)
        BY DEF PoolInv, PoolTypes, Named
      <3> QED
        BY <3>1, <3>2
    <2> QED
      BY <1>2, <1>3, <1>7, <1>10, <2>1, <2>2 DEF Named
  <1>13. RoomLeft'
    <2>1. Cardinality(Promised)' = 0
      <3>1. Promised' = Promised
        BY <1>2 DEF Promised
      <3> QED
        BY <1>10, <3>1, NobodyAtWork
    <2>2. Cardinality(PoolRequests) \in Nat \ {0} /\ MaxSize \in Nat /\ n <= MaxSize
      BY <1>2, <1>5, <1>10, NobodyAtWork DEF PoolAssumption
    <2> QED
      BY <1>3, <1>6, <2>1, <2>2 DEF RoomLeft
  <1>14. OpenOnes' /\ CachedOpen'
    BY <1>6, <1>7, <1>9 DEF OpenOnes, CachedOpen
  <1>15. \A t : P!Waiting(t)' = {}
    <2>1. \A t : P!Waiting(t)' = P!Waiting(t)
      BY <1>2 DEF P!Waiting
    <2> QED
      BY <1>10, <2>1, NobodyAtWork
  <1>16. \A t \in Tenants \ collided' : Lone(t)'
    BY <1>2, <1>10, <1>15 DEF Lone
  <1> QED
    BY <1>8, <1>11, <1>12, <1>13, <1>14, <1>16 DEF PoolInv

LEMMA PoolStarts == ASSUME PoolAssumption, P!PoolInit PROVE PoolInv
  <1>1. /\ cache = <<>> /\ client = <<>> /\ request = [r \in PoolRequests |-> P!Asleep]
        /\ idleSweep = [keys |-> {}, id |-> P!None, tenant |-> P!NoTenant]
        /\ server = "starting" /\ collided = {}
    BY DEF P!PoolInit
  <1>2. ToSet(cache) = {} /\ DOMAIN client = {} /\ Len(cache) = 0 /\ Len(client) = 0
    BY <1>1 DEF ToSet
  <1>3. \A r \in PoolRequests : request[r].pc = "idle" /\ request[r].victim = 0
    BY <1>1 DEF P!Asleep, P!None
  <1>4. PoolTypes /\ KeyOnce(cache) /\ Unstarted
    <2>1. P!Asleep \in [tenant : Tenants \cup {P!NoTenant}, pc : PoolSteps, victim : Nat, got : Nat]
          /\ P!Asleep.pc = "idle"
      BY DEF P!Asleep, PoolSteps, P!None
    <2> QED
      BY <1>1, <2>1 DEF PoolTypes, KeyOnce, Unstarted, P!None
  <1>5. Named /\ OpenOnes /\ CachedOpen
    BY <1>1, <1>2, <1>3 DEF Named, OpenOnes, CachedOpen
  <1>6. RoomLeft
    <2>1. Cardinality(Promised) = 0 /\ Cardinality(PoolRequests) \in Nat \ {0}
      BY <1>3, NobodyAtWork
    <2> QED
      BY <1>2, <2>1 DEF RoomLeft, PoolAssumption
  <1>7. \A t \in Tenants : Lone(t)
    BY <1>1, <1>2, <1>3, NobodyAtWork DEF Lone
  <1> QED
    BY <1>4, <1>5, <1>6, <1>7 DEF PoolInv

LEMMA PoolStep ==
    ASSUME PoolAssumption, PoolInv, [P!Next]_<<P!registryVars, P!poolVars>>
    PROVE  PoolInv'
  <1>1. CASE UNCHANGED P!poolVars
    <2>1. UNCHANGED <<cache, client, request, idleSweep, server, collided>>
      BY <1>1 DEF P!poolVars
    <2>2. idleSweep \in [keys : SUBSET Tenants, id : Nat, tenant : Tenants \cup {P!NoTenant}]
      BY DEF PoolInv, PoolTypes
    <2> QED
      BY <2>1, <2>2, PoolPauses
  <1>2. CASE P!PoolNext
    BY <1>2, PoolWarms, PoolIdles, PoolStartsEviction, PoolForgets, PoolCloses, PoolStops,
       PoolServed, PoolAsked, PoolLeft, PoolHasRoom, PoolMakesRoom, PoolEvicts, PoolConnects
    DEF P!PoolNext
  <1> QED
    BY <1>1, <1>2 DEF P!Next

\* The pool holds at most one client above its size for every request but one; no client is
\* forgotten while it is connected, and those in the pool are open until the shutdown, except
\* for what overlapping lookups and evictions of a tenant do (TenantConnectionPool.ts): for
\* any tenants, requests and size, whatever becomes of the registry.
THEOREM PoolIsAccounted ==
    ASSUME PoolAssumption
    PROVE  P!Init /\ [][P!Next]_<<P!registryVars, P!poolVars>> => []P!PoolAccounted
  <1>1. P!Init => PoolInv
    BY PoolStarts DEF P!Init
  <1>2. PoolInv /\ [P!Next]_<<P!registryVars, P!poolVars>> => PoolInv'
    BY PoolStep
  <1>3. PoolInv => P!PoolAccounted
    <2> SUFFICES ASSUME PoolInv PROVE P!PoolAccounted
      OBVIOUS
    <2>1. P!PoolBounded
      <3>1. IsFiniteSet(Promised)
        BY FS_Subset DEF Promised, PoolAssumption
      <3>2. Cardinality(Promised) \in Nat /\ Cardinality(PoolRequests) \in Nat
        BY <3>1, FS_CardinalityType DEF PoolAssumption
      <3>3. Len(cache) <= MaxSize + Cardinality(PoolRequests) - 1
        BY <3>2 DEF PoolInv, RoomLeft, PoolTypes, PoolAssumption
      <3> QED
        BY <3>3 DEF P!PoolBounded, P!Cardinality, Cardinality
    <2>2. P!ForgottenAreClosed
      <3> SUFFICES ASSUME NEW k \in DOMAIN client, client[k].state = "open", client[k].tenant \notin collided
                   PROVE  P!Entry(client[k].tenant, k) \in P!Range(cache)
        BY DEF P!ForgottenAreClosed
      <3>1. PICK e \in ToSet(cache) : e.id = k
        BY DEF PoolInv, OpenOnes
      <3>2. e \in Entries /\ e.tenant = client[k].tenant /\ e \in P!Range(cache)
        BY <3>1 DEF PoolInv, PoolTypes, Named, ToSet, P!Range
      <3>3. e = P!Entry(client[k].tenant, k)
        BY <3>1, <3>2 DEF P!Entry, Entries
      <3> QED
        BY <3>2, <3>3
    <2>3. P!CachedAreOpen
      BY DEF PoolInv, CachedOpen, P!CachedAreOpen, P!Range, ToSet
    <2> QED
      BY <2>1, <2>2, <2>3 DEF P!PoolAccounted
  <1> QED
    BY <1>1, <1>2, <1>3, PTL

-----------------------------------------------------------------------------
(***************************************************************************)
(* Approval requests, for every workflow and every number of requests,     *)
(* deciders and sweeps.  Decisions are only ever added, so the approvals   *)
(* that a call has read are still there when it saves, and with its own,   *)
(* which nobody else can have cast, they carry the step it leaves.         *)
(* Escalation moves a request on without votes, but to a status from which *)
(* no call starts.                                                         *)
(***************************************************************************)
\* A call that has yet to save has no ballot on record; what it has read of the
\* approvals is still there, and the steps before the one it read are carried.
ViewHolds(w) ==
    /\ w.approvals \subseteq ApprovalsOf(w.petition, w.step)
    /\ \A s \in Steps : s < w.step => Carried(w.petition, s)

ViewsHold ==
    \A d \in Deciders :
        /\ dpc[d] \in {"start", "save"} => ballots[d] = NoBallot
        /\ dpc[d] = "save" => ViewHolds(view[d])

\* A request that has not been opened stands at the first step.
Unopened == \A p \in Petitions : status[p] = "none" => step[p] = 1

ApprovalInv == ApprovalTypeOK /\ ViewsHold /\ Unopened /\ PendingStepsCarried /\ ApprovedByEveryStep

\* Ballots are cast once and stay.
BallotsKept ==
    \A d \in Deciders : ballots[d] # NoBallot => ballots'[d] = ballots[d]

-----------------------------------------------------------------------------
\* The workflow has a step, and each step requires a number of approvals.
LEMMA StepsFacts ==
    /\ Len(Required) \in Nat \ {0}
    /\ Steps \subseteq Nat
    /\ \A s \in Steps : Required[s] \in Nat
    /\ 1 \in Steps /\ Len(Required) \in Steps
    /\ \A s \in Steps : s <= Len(Required) /\ s # 0
    /\ \A s \in Steps : s # Len(Required) => s + 1 \in Steps
BY ApprovalAssumption DEF Steps

\* Sets of calls are finite, and their cardinalities are ordered as they are.
LEMMA DecidersCount ==
    ASSUME NEW S \in SUBSET Deciders, NEW T \in SUBSET Deciders, S \subseteq T
    PROVE  /\ IsFiniteSet(S)
           /\ Cardinality(S) \in Nat /\ Cardinality(T) \in Nat
           /\ Cardinality(S) <= Cardinality(T)
  <1>1. IsFiniteSet(S) /\ IsFiniteSet(T)
    BY FS_Subset, ApprovalAssumption
  <1> QED
    BY <1>1, FS_Subset, FS_CardinalityType

\* While ballots stay, the approvals of a step only grow, and a step that is
\* carried remains so.
LEMMA MoreApprovals ==
    ASSUME BallotsKept, NEW p, NEW s \in Steps
    PROVE  /\ ApprovalsOf(p, s) \subseteq ApprovalsOf(p, s)'
           /\ Carried(p, s) => Carried(p, s)'
  <1>1. ApprovalsOf(p, s) \subseteq ApprovalsOf(p, s)'
    <2> SUFFICES ASSUME NEW d \in ApprovalsOf(p, s)
                 PROVE  d \in ApprovalsOf(p, s)'
      OBVIOUS
    <2>1. d \in Deciders /\ ballots[d] = [petition |-> p, step |-> s, verdict |-> "APPROVED"]
      BY DEF ApprovalsOf
    <2>2. ballots[d].verdict = "APPROVED" /\ NoBallot.verdict = "none"
      BY <2>1 DEF NoBallot
    <2>3. ballots'[d] = ballots[d]
      BY <2>1, <2>2 DEF BallotsKept
    <2> QED
      BY <2>1, <2>3 DEF ApprovalsOf
  <1>2. ApprovalsOf(p, s) \subseteq Deciders /\ ApprovalsOf(p, s)' \subseteq Deciders
    BY DEF ApprovalsOf
  <1>3. /\ Cardinality(ApprovalsOf(p, s)) <= Cardinality(ApprovalsOf(p, s)')
        /\ Cardinality(ApprovalsOf(p, s)) \in Nat
        /\ Cardinality(ApprovalsOf(p, s)') \in Nat
    BY <1>1, <1>2, DecidersCount
  <1>4. Required[s] \in Nat
    BY StepsFacts
  <1> QED
    BY <1>1, <1>3, <1>4 DEF Carried

\* What a call has read keeps holding as long as it keeps it.
LEMMA StillHolds ==
    ASSUME BallotsKept, NEW d \in Deciders, view[d] \in Views, ViewHolds(view[d]),
           view'[d] = view[d]
    PROVE  ViewHolds(view[d])'
  <1>1. PICK w \in Views : w = view[d]
    OBVIOUS
  <1>2. w.step \in Steps
    BY DEF Views
  <1>3. w.approvals \subseteq ApprovalsOf(w.petition, w.step)
    BY <1>1 DEF ViewHolds
  <1>4. \A s \in Steps : s < w.step => Carried(w.petition, s)
    BY <1>1 DEF ViewHolds
  <1>5. ApprovalsOf(w.petition, w.step) \subseteq ApprovalsOf(w.petition, w.step)'
    BY <1>2, MoreApprovals
  <1>6. \A s \in Steps : Carried(w.petition, s) => Carried(w.petition, s)'
    BY MoreApprovals
  <1>7. ViewHolds(w)'
    BY <1>3, <1>4, <1>5, <1>6 DEF ViewHolds
  <1>8. w = view'[d]
    BY <1>1
  <1> QED
    BY <1>7, <1>8 DEF ViewHolds, ApprovalsOf, Carried

-----------------------------------------------------------------------------
\* Before anything happens there are no ballots, views or open requests.
LEMMA InitEstablishes == ApprovalInit => ApprovalInv
  <1> SUFFICES ASSUME ApprovalInit PROVE ApprovalInv
    OBVIOUS
  <1>1. ApprovalTypeOK
    BY StepsFacts, ApprovalAssumption DEF ApprovalInit, ApprovalTypeOK, RequestStatuses
  <1>2. ViewsHold /\ Unopened /\ PendingStepsCarried /\ ApprovedByEveryStep
    BY DEF ApprovalInit, ViewsHold, Unopened, PendingStepsCarried, ApprovedByEveryStep
  <1> QED
    BY <1>1, <1>2 DEF ApprovalInv

\* What a call writes back is a status and a step of the workflow.
LEMMA DecidedType ==
    ASSUME NEW w \in Views
    PROVE  /\ Decided(w)[1] \in {"PENDING", "APPROVED", "REJECTED"}
           /\ Decided(w)[2] \in Steps
  <1>1. w.step \in Steps /\ w.verdict \in Verdicts
    BY DEF Views
  <1> DEFINE n == w.step
  <1>2. n < Len(Required) \/ n = Len(Required)
    <2>1. n \in Nat /\ n <= Len(Required) /\ Len(Required) \in Nat
      BY <1>1, StepsFacts
    <2> QED
      BY <2>1
  <1>3. CASE w.verdict = "REJECTED"
    BY <1>1, <1>3 DEF Decided
  <1>4. CASE w.verdict = "APPROVED" /\ ~Enough(w)
    BY <1>1, <1>4 DEF Decided
  <1>5. CASE w.verdict = "APPROVED" /\ Enough(w) /\ w.step < Len(Required)
    <2>1. n # Len(Required)
      <3>1. n < Len(Required) /\ n \in Nat /\ Len(Required) \in Nat
        BY <1>1, <1>5, StepsFacts
      <3> QED
        BY <3>1
    <2>2. n + 1 \in Steps
      BY <1>1, <2>1, StepsFacts
    <2> QED
      BY <1>5, <2>1, <2>2, StepsFacts DEF Decided
  <1>6. CASE w.verdict = "APPROVED" /\ Enough(w) /\ w.step = Len(Required)
    BY <1>1, <1>6, StepsFacts DEF Decided
  <1> QED
    BY <1>1, <1>2, <1>3, <1>4, <1>5, <1>6 DEF Verdicts

\* Every step preserves the types.
LEMMA ApprovalStep == ApprovalTypeOK /\ [ApprovalNext]_approvalVars => ApprovalTypeOK'
  <1> SUFFICES ASSUME ApprovalTypeOK, [ApprovalNext]_approvalVars PROVE ApprovalTypeOK'
    OBVIOUS
  <1> USE DEF ApprovalTypeOK
  <1>1. CASE Toggle
    BY <1>1, ApprovalAssumption DEF Toggle, requests
  <1>2. ASSUME NEW p \in Petitions, Open(p) PROVE ApprovalTypeOK'
    BY <1>2 DEF Open, bounds, RequestStatuses
  <1>3. ASSUME NEW d \in Deciders, NEW p \in Petitions, Refuse(d, p) PROVE ApprovalTypeOK'
    BY <1>3 DEF Refuse, requests, bounds
  <1>4. ASSUME NEW d \in Deciders, NEW p \in Petitions, NEW verdict \in Verdicts,
               Read(d, p, verdict)
        PROVE  ApprovalTypeOK'
    <2>1. [petition |-> p, verdict |-> verdict, step |-> step[p],
           approvals |-> ApprovalsOf(p, step[p])] \in Views
      BY DEF Views, ApprovalsOf
    <2> QED
      BY <1>4, <2>1 DEF Read, requests, bounds
  <1>5. ASSUME NEW d \in Deciders, Save(d) PROVE ApprovalTypeOK'
    <2>1. view[d] \in Views
      BY <1>5 DEF Save
    <2>2. /\ view[d].petition \in Petitions /\ view[d].step \in Steps
          /\ view[d].verdict \in Verdicts
      BY <2>1 DEF Views
    <2>3. /\ Decided(view[d])[1] \in RequestStatuses
          /\ Decided(view[d])[2] \in Steps
      BY <2>1, DecidedType DEF RequestStatuses
    <2> QED
      BY <1>5, <2>2, <2>3 DEF Save, bounds
  <1>6. ASSUME NEW d \in Deciders, Lose(d) PROVE ApprovalTypeOK'
    BY <1>6 DEF Lose, requests, bounds
  <1>7. CASE FindStale
    BY <1>7, ApprovalAssumption DEF FindStale, requests
  <1>8. ASSUME NEW s \in sweep, Escalate(s) PROVE ApprovalTypeOK'
    <2>1. s.petition \in Petitions /\ s.step \in Steps
      OBVIOUS
    <2>2. (IF s.step = Len(Required) THEN s.step ELSE s.step + 1) \in Steps
      BY <2>1, StepsFacts
    <2> QED
      BY <1>8, <2>1, <2>2 DEF Escalate, bounds, RequestStatuses
  <1>9. CASE EndSweep
    BY <1>9 DEF EndSweep, requests, bounds
  <1>10. CASE UNCHANGED approvalVars
    BY <1>10 DEF approvalVars, requests, bounds
  <1> QED
    BY <1>1, <1>2, <1>3, <1>4, <1>5, <1>6, <1>7, <1>8, <1>9, <1>10 DEF ApprovalNext

-----------------------------------------------------------------------------
\* A step that casts no ballot, leaves alone what a saving call holds and turns
\* no request to pending further on, or to approved, preserves the invariant.
LEMMA QuietStep ==
    ASSUME ApprovalInv, ApprovalTypeOK', UNCHANGED ballots,
           \A d \in Deciders : dpc'[d] = dpc[d] \/ dpc'[d] \notin {"start", "save"},
           UNCHANGED view,
           \A p \in Petitions :
               \/ status'[p] = status[p] /\ step'[p] = step[p]
               \/ status'[p] \in {"REJECTED", "ESCALATED", "EXPIRED"}
               \/ status'[p] = "PENDING" /\ status[p] = "none" /\ step'[p] = 1
    PROVE  ApprovalInv'
  <1>1. BallotsKept
    BY DEF BallotsKept
  <1>2. ViewsHold'
    <2> SUFFICES ASSUME NEW d \in Deciders
                 PROVE  /\ dpc'[d] \in {"start", "save"} => ballots'[d] = NoBallot
                        /\ dpc'[d] = "save" => ViewHolds(view[d])'
      BY DEF ViewsHold
    <2>1. ASSUME dpc'[d] = "save" PROVE ViewHolds(view[d])'
      <3>1. dpc[d] = "save" /\ view[d] \in Views /\ ViewHolds(view[d])
        BY <2>1 DEF ApprovalInv, ApprovalTypeOK, ViewsHold
      <3> QED
        BY <1>1, <3>1, StillHolds
    <2>2. ASSUME dpc'[d] \in {"start", "save"} PROVE ballots'[d] = NoBallot
      BY <2>2 DEF ApprovalInv, ViewsHold
    <2> QED
      BY <2>1, <2>2
  <1>3. PendingStepsCarried'
    <2> SUFFICES ASSUME NEW p \in Petitions, status'[p] = "PENDING",
                        NEW s \in Steps, s < step'[p]
                 PROVE  Carried(p, s)'
      BY DEF PendingStepsCarried
    <2>1. status[p] = "PENDING" /\ step'[p] = step[p]
      <3>1. step'[p] # 1
        BY StepsFacts
      <3> QED
        BY <3>1
    <2> QED
      BY <1>1, <2>1, MoreApprovals DEF ApprovalInv, PendingStepsCarried
  <1>4. ApprovedByEveryStep'
    BY <1>1, MoreApprovals DEF ApprovalInv, ApprovedByEveryStep
  <1>5. Unopened'
    BY DEF ApprovalInv, Unopened
  <1> QED
    BY <1>2, <1>3, <1>4, <1>5 DEF ApprovalInv

\* A call that reads a pending request sees the approvals of its step.
LEMMA ReadStep ==
    ASSUME ApprovalInv, ApprovalTypeOK', NEW d \in Deciders, NEW p \in Petitions, NEW verdict \in Verdicts,
           Read(d, p, verdict)
    PROVE  ApprovalInv'
  <1>1. UNCHANGED <<ballots, status, step>> /\ dpc[d] = "start" /\ status[p] = "PENDING"
    BY DEF Read, requests
  <1>2. BallotsKept
    BY <1>1 DEF BallotsKept
  <1>3. ViewsHold'
    <2> SUFFICES ASSUME NEW e \in Deciders
                 PROVE  /\ dpc'[e] \in {"start", "save"} => ballots'[e] = NoBallot
                        /\ dpc'[e] = "save" => ViewHolds(view[e])'
      BY DEF ViewsHold
    <2>1. CASE e = d
      <3>1. ballots'[e] = NoBallot
        BY <1>1, <2>1 DEF ApprovalInv, ViewsHold
      <3>2. /\ view'[d].petition = p /\ view'[d].step = step[p]
            /\ view'[d].approvals = ApprovalsOf(p, step[p])
        BY DEF ApprovalInv, ApprovalTypeOK, Read
      <3>3. \A s \in Steps : s < step[p] => Carried(p, s)
        BY <1>1 DEF ApprovalInv, PendingStepsCarried
      <3>4. /\ ApprovalsOf(p, step[p]) = {x \in Deciders : ballots'[x] =
                   [petition |-> p, step |-> step[p], verdict |-> "APPROVED"]}
            /\ \A s \in Steps : s < step[p] =>
                   Cardinality({x \in Deciders : ballots'[x] =
                       [petition |-> p, step |-> s, verdict |-> "APPROVED"]}) >= Required[s]
        BY <1>1, <3>3 DEF ApprovalsOf, Carried
      <3>5. ViewHolds(view[d])'
        BY <3>2, <3>4 DEF ViewHolds, ApprovalsOf, Carried
      <3> QED
        BY <2>1, <3>1, <3>5
    <2>2. CASE e # d
      <3>1. view'[e] = view[e] /\ dpc'[e] = dpc[e] /\ ballots'[e] = ballots[e]
        BY <1>1, <2>2 DEF ApprovalInv, ApprovalTypeOK, Read
      <3>2. ASSUME dpc[e] = "save" PROVE ViewHolds(view[e])'
        <4>1. view[e] \in Views /\ ViewHolds(view[e])
          BY <3>2 DEF ApprovalInv, ApprovalTypeOK, ViewsHold
        <4> QED
          BY <1>2, <3>1, <4>1, StillHolds
      <3> QED
        BY <3>1, <3>2 DEF ApprovalInv, ViewsHold
    <2> QED
      BY <2>1, <2>2
  <1>4. PendingStepsCarried' /\ ApprovedByEveryStep' /\ Unopened'
    BY <1>1 DEF ApprovalInv, Unopened, PendingStepsCarried, ApprovedByEveryStep, ApprovalsOf, Carried
  <1> QED
    BY <1>3, <1>4 DEF ApprovalInv

\* A call that saves an approval adds its own ballot to those it has read: if
\* it leaves the step, the step is carried.
LEMMA SaveStep ==
    ASSUME ApprovalInv, ApprovalTypeOK', NEW d \in Deciders, Save(d)
    PROVE  ApprovalInv'
  <1>0. PICK w \in Views : w = view[d]
    BY DEF ApprovalInv, ApprovalTypeOK, Save
  <1> DEFINE p == w.petition
  <1>1. /\ ballots[d] = NoBallot /\ dpc[d] = "save"
        /\ w.approvals \subseteq ApprovalsOf(p, w.step)
        /\ \A s \in Steps : s < w.step => Carried(p, s)
    BY <1>0 DEF ApprovalInv, ViewsHold, Save, ViewHolds
  <1>2. /\ p \in Petitions /\ w.step \in Steps /\ w.verdict \in Verdicts
        /\ w.approvals \subseteq Deciders
    BY DEF Views
  <1>3. /\ ballots'[d] = [petition |-> p, step |-> w.step, verdict |-> w.verdict]
        /\ \A e \in Deciders \ {d} : ballots'[e] = ballots[e]
        /\ status' = [status EXCEPT ![p] = Decided(w)[1]]
        /\ step' = [step EXCEPT ![p] = Decided(w)[2]]
        /\ dpc' = [dpc EXCEPT ![d] = "done"]
        /\ UNCHANGED view
    BY <1>0 DEF Save, ApprovalInv, ApprovalTypeOK
  <1>4. BallotsKept
    BY <1>1, <1>3 DEF BallotsKept
  <1>5. /\ w.approvals \subseteq ApprovalsOf(p, w.step)'
        /\ \A s \in Steps : s < w.step => Carried(p, s)'
    <2>1. \A s \in Steps : /\ ApprovalsOf(p, s) \subseteq ApprovalsOf(p, s)'
                           /\ Carried(p, s) => Carried(p, s)'
      BY <1>4, MoreApprovals
    <2> QED
      BY <1>1, <1>2, <2>1
  <1>6. ASSUME w.verdict = "APPROVED", Enough(w)
        PROVE  Carried(p, w.step)'
    <2>1. d \in ApprovalsOf(p, w.step)'
      BY <1>3, <1>6 DEF ApprovalsOf
    <2>2. d \notin w.approvals
      <3>1. NoBallot.verdict = "none"
        BY DEF NoBallot
      <3>2. w.approvals \subseteq ApprovalsOf(p, w.step)
        BY <1>1
      <3>3. d \notin ApprovalsOf(p, w.step)
        BY <1>1, <3>1 DEF ApprovalsOf
      <3> QED
        BY <3>2, <3>3
    <2>3. w.approvals \cup {d} \subseteq ApprovalsOf(p, w.step)'
      BY <1>5, <2>1
    <2>4. ApprovalsOf(p, w.step)' \subseteq Deciders /\ w.approvals \cup {d} \subseteq Deciders
      BY <1>2 DEF ApprovalsOf
    <2>5. /\ Cardinality(w.approvals \cup {d}) <= Cardinality(ApprovalsOf(p, w.step)')
          /\ Cardinality(w.approvals \cup {d}) \in Nat
          /\ Cardinality(ApprovalsOf(p, w.step)') \in Nat
      BY <2>3, <2>4, DecidersCount
    <2>6. IsFiniteSet(w.approvals) /\ Cardinality(w.approvals) \in Nat
      BY <1>2, DecidersCount
    <2>7. Cardinality(w.approvals \cup {d}) = Cardinality(w.approvals) + 1
      BY <2>2, <2>6, FS_AddElement
    <2>8. Cardinality(w.approvals) + 1 >= Required[w.step] /\ Required[w.step] \in Nat
      BY <1>2, <1>6, StepsFacts DEF Enough
    <2>9. Cardinality(ApprovalsOf(p, w.step)') >= Required[w.step]
      BY <2>5, <2>6, <2>7, <2>8
    <2> QED
      BY <2>9 DEF Carried
  <1>7. ViewsHold'
    <2> SUFFICES ASSUME NEW e \in Deciders
                 PROVE  /\ dpc'[e] \in {"start", "save"} => ballots'[e] = NoBallot
                        /\ dpc'[e] = "save" => ViewHolds(view[e])'
      BY DEF ViewsHold
    <2>1. CASE e = d
      BY <1>3, <2>1 DEF ApprovalInv, ApprovalTypeOK
    <2>2. CASE e # d
      <3>1. dpc'[e] = dpc[e] /\ ballots'[e] = ballots[e] /\ view'[e] = view[e]
        BY <1>3, <2>2 DEF ApprovalInv, ApprovalTypeOK
      <3>2. ASSUME dpc[e] = "save" PROVE ViewHolds(view[e])'
        <4>1. view[e] \in Views /\ ViewHolds(view[e])
          BY <3>2 DEF ApprovalInv, ApprovalTypeOK, ViewsHold
        <4> QED
          BY <1>4, <3>1, <4>1, StillHolds
      <3> QED
        BY <3>1, <3>2 DEF ApprovalInv, ViewsHold
    <2> QED
      BY <2>1, <2>2
  <1>8. ASSUME NEW s \in Steps,
               \/ Decided(w)[1] = "PENDING" /\ s < Decided(w)[2]
               \/ Decided(w)[1] = "APPROVED"
        PROVE  Carried(p, s)'
    <2>1. w.step \in Nat /\ s \in Nat /\ Len(Required) \in Nat /\ s <= Len(Required)
      BY <1>2, StepsFacts
    <2>2. CASE w.verdict = "REJECTED"
      BY <1>8, <2>2 DEF Decided
    <2>3. CASE w.verdict = "APPROVED" /\ ~Enough(w)
      <3>1. Decided(w) = <<"PENDING", w.step>>
        BY <2>3 DEF Decided
      <3> QED
        BY <1>5, <1>8, <3>1
    <2>4. CASE w.verdict = "APPROVED" /\ Enough(w)
      <3>1. w.step < Len(Required) \/ w.step = Len(Required)
        BY <1>2, <2>1, StepsFacts
      <3>2. s <= w.step
        <4>1. CASE w.step = Len(Required)
          BY <2>1, <4>1
        <4>2. CASE w.step < Len(Required)
          <5>1. Decided(w) = <<"PENDING", w.step + 1>>
            <6>1. w.step # Len(Required)
              BY <2>1, <4>2
            <6> QED
              BY <2>4, <4>2, <6>1 DEF Decided
          <5>2. s < w.step + 1
            BY <1>8, <5>1
          <5> QED
            BY <2>1, <5>2
        <4> QED
          BY <3>1, <4>1, <4>2
      <3>3. s < w.step \/ s = w.step
        BY <2>1, <3>2
      <3> QED
        BY <1>5, <1>6, <2>4, <3>3
    <2> QED
      BY <1>2, <2>2, <2>3, <2>4 DEF Verdicts
  <1>9. PendingStepsCarried'
    <2> SUFFICES ASSUME NEW q \in Petitions, status'[q] = "PENDING",
                        NEW s \in Steps, s < step'[q]
                 PROVE  Carried(q, s)'
      BY DEF PendingStepsCarried
    <2>1. CASE q = p
      BY <1>2, <1>3, <1>8, <2>1 DEF ApprovalInv, ApprovalTypeOK
    <2>2. CASE q # p
      <3>1. status[q] = "PENDING" /\ step'[q] = step[q]
        BY <1>3, <2>2 DEF ApprovalInv, ApprovalTypeOK
      <3> QED
        BY <1>4, <3>1, MoreApprovals DEF ApprovalInv, PendingStepsCarried
    <2> QED
      BY <2>1, <2>2
  <1>10. ApprovedByEveryStep'
    <2> SUFFICES ASSUME NEW q \in Petitions, status'[q] = "APPROVED", NEW s \in Steps
                 PROVE  Carried(q, s)'
      BY DEF ApprovedByEveryStep
    <2>1. CASE q = p
      BY <1>2, <1>3, <1>8, <2>1 DEF ApprovalInv, ApprovalTypeOK
    <2>2. CASE q # p
      <3>1. status[q] = "APPROVED"
        BY <1>3, <2>2 DEF ApprovalInv, ApprovalTypeOK
      <3> QED
        BY <1>4, <3>1, MoreApprovals DEF ApprovalInv, ApprovedByEveryStep
    <2> QED
      BY <2>1, <2>2
  <1>11. Unopened'
    <2>1. Decided(w)[1] # "none"
      BY <1>1, DecidedType
    <2> QED
      BY <1>2, <1>3, <2>1 DEF ApprovalInv, ApprovalTypeOK, Unopened
  <1> QED
    BY <1>7, <1>9, <1>10, <1>11 DEF ApprovalInv

\* Every step of the specification preserves the invariant.
LEMMA NextPreserves == ApprovalInv /\ [ApprovalNext]_approvalVars => ApprovalInv'
  <1> SUFFICES ASSUME ApprovalInv, [ApprovalNext]_approvalVars PROVE ApprovalInv'
    OBVIOUS
  <1>0. ApprovalTypeOK /\ ApprovalTypeOK'
    BY ApprovalStep DEF ApprovalInv
  <1>1. CASE Toggle
    BY <1>0, <1>1, QuietStep DEF Toggle, requests
  <1>2. ASSUME NEW p \in Petitions, Open(p) PROVE ApprovalInv'
    <2>1. \A q \in Petitions :
            \/ status'[q] = status[q] /\ step'[q] = step[q]
            \/ status'[q] = "PENDING" /\ status[q] = "none" /\ step'[q] = 1
      BY <1>0, <1>2 DEF Open, ApprovalTypeOK, ApprovalInv, Unopened
    <2> QED
      BY <1>0, <1>2, <2>1, QuietStep DEF Open
  <1>3. ASSUME NEW d \in Deciders, NEW p \in Petitions, Refuse(d, p) PROVE ApprovalInv'
    <2>1. \A e \in Deciders : dpc'[e] = dpc[e] \/ dpc'[e] \notin {"start", "save"}
      BY <1>0, <1>3 DEF Refuse, ApprovalTypeOK
    <2> QED
      BY <1>0, <1>3, <2>1, QuietStep DEF Refuse, requests
  <1>4. ASSUME NEW d \in Deciders, NEW p \in Petitions, NEW verdict \in Verdicts,
               Read(d, p, verdict)
        PROVE  ApprovalInv'
    BY <1>0, <1>4, ReadStep
  <1>5. ASSUME NEW d \in Deciders, Save(d) PROVE ApprovalInv'
    BY <1>0, <1>5, SaveStep
  <1>6. ASSUME NEW d \in Deciders, Lose(d) PROVE ApprovalInv'
    <2>1. \A e \in Deciders : dpc'[e] = dpc[e] \/ dpc'[e] \notin {"start", "save"}
      BY <1>0, <1>6 DEF Lose, ApprovalTypeOK
    <2> QED
      BY <1>0, <1>6, <2>1, QuietStep DEF Lose, requests
  <1>7. CASE FindStale
    BY <1>0, <1>7, QuietStep DEF FindStale, requests
  <1>8. ASSUME NEW s \in sweep, Escalate(s) PROVE ApprovalInv'
    <2>1. \A p \in Petitions :
            \/ status'[p] = status[p] /\ step'[p] = step[p]
            \/ status'[p] \in {"REJECTED", "ESCALATED", "EXPIRED"}
      BY <1>0, <1>8 DEF Escalate, ApprovalTypeOK
    <2> QED
      BY <1>0, <1>8, <2>1, QuietStep DEF Escalate
  <1>9. CASE EndSweep
    BY <1>0, <1>9, QuietStep DEF EndSweep, requests
  <1>10. CASE UNCHANGED approvalVars
    BY <1>0, <1>10, QuietStep DEF approvalVars, requests
  <1> QED
    BY <1>1, <1>2, <1>3, <1>4, <1>5, <1>6, <1>7, <1>8, <1>9, <1>10 DEF ApprovalNext

-----------------------------------------------------------------------------
\* The invariant holds in every state of every behaviour.
LEMMA ApprovalInvariance == ApprovalSpec => []ApprovalInv
  <1> QED
    BY InitEstablishes, NextPreserves, PTL DEF ApprovalSpec

\* The columns of approval_requests and approval_decisions, and what calls and
\* sweeps hold of them, stay within their types: no request gets past the last
\* step of its workflow.
THEOREM ApprovalTypes == ApprovalSpec => []ApprovalTypeOK
  <1>1. ApprovalInv => ApprovalTypeOK
    BY DEF ApprovalInv
  <1> QED
    BY <1>1, ApprovalInvariance, PTL

\* A request is approved only by the required approvals of every step, although
\* processDecision reads, decides and writes back without a lock or a version.
THEOREM ApprovalsComplete == ApprovalSpec => []ApprovedByEveryStep
  <1>1. ApprovalInv => ApprovedByEveryStep
    BY DEF ApprovalInv
  <1> QED
    BY <1>1, ApprovalInvariance, PTL

\* A pending request has carried every step before the one it stands at.
THEOREM PendingComplete == ApprovalSpec => []PendingStepsCarried
  <1>1. ApprovalInv => PendingStepsCarried
    BY DEF ApprovalInv
  <1> QED
    BY <1>1, ApprovalInvariance, PTL
=============================================================================
