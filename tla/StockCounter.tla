---------------------------- MODULE StockCounter ----------------------------
(***************************************************************************)
(* The stock counter of CRDTStockResolver.ts: every node counts what it    *)
(* adds and what it takes, and knows of the other nodes what it has merged *)
(* from states they have sent, each possibly late, repeated or out of      *)
(* order.  A node that is missing from a record counts as zero.            *)
(*                                                                         *)
(* The resolver is a library of functions: that a node changes its own     *)
(* numbers only, and merges states that nodes have sent, is how its tests  *)
(* use it.                                                                 *)
(***************************************************************************)
EXTENDS Integers, FiniteSetsExt

CONSTANTS Nodes,
          Amounts,  \* what one operation adds or takes
          MaxCount  \* bound: what a node adds, or takes, in all

ASSUME CounterAssumption == Amounts \subseteq Nat /\ MaxCount \in Nat

VARIABLES state, \* per node the state it has
          sent   \* the states that are or have been on their way

vars == <<state, sent>>

Counts == [Nodes -> Nat]
CounterStates == [increments : Counts, decrements : Counts]
createStockCounter == [increments |-> [n \in Nodes |-> 0], decrements |-> [n \in Nodes |-> 0]]

Larger(a, b) == IF a < b THEN b ELSE a
(* a bug: what the other state says of this node is added *)
MergedBySum(a, b) == [n \in Nodes |-> a[n] + b[n]]
Merged(a, b) == [n \in Nodes |-> Larger(a[n], b[n])]
merge(a, b) == [increments |-> Merged(a.increments, b.increments),
                decrements |-> Merged(a.decrements, b.decrements)]

Total(counts) == MapThenSumSet(LAMBDA n : counts[n], Nodes)
getValue(s) == Larger(0, Total(s.increments) - Total(s.decrements))

Init == state = [n \in Nodes |-> createStockCounter] /\ sent = {}

Increment(n, amount) ==
  /\ state[n].increments[n] + amount <= MaxCount
  /\ state' = [state EXCEPT ![n].increments[n] = @ + amount]
  /\ UNCHANGED sent

Decrement(n, amount) ==
  /\ state[n].decrements[n] + amount <= MaxCount
  /\ state' = [state EXCEPT ![n].decrements[n] = @ + amount]
  /\ UNCHANGED sent

Send(n) == sent' = sent \union {state[n]} /\ UNCHANGED state

Merge(n, s) == /\ s \in sent
               /\ state' = [state EXCEPT ![n] = merge(@, s)]
               /\ UNCHANGED sent

Next == \E n \in Nodes :
          \/ \E amount \in Amounts : Increment(n, amount) \/ Decrement(n, amount)
          \/ Send(n)
          \/ \E s \in sent : Merge(n, s)

Spec == Init /\ [][Next]_vars
-----------------------------------------------------------------------------
TypeOK == state \in [Nodes -> CounterStates] /\ sent \subseteq CounterStates

(* Nobody knows more of what a node has added or taken than the node       *)
(* itself, whichever states were merged, how often and in which order.     *)
NoMore(s, n) == s.increments[n] <= state[n].increments[n] /\ s.decrements[n] <= state[n].decrements[n]
NothingInvented == \A m, n \in Nodes : NoMore(state[m], n)

(* A node that has merged what the others know of themselves, directly or  *)
(* through each other, tells the stock: all that was added less all that   *)
(* was taken, but never less than nothing.                                 *)
Added == [n \in Nodes |-> state[n].increments[n]]
Taken == [n \in Nodes |-> state[n].decrements[n]]
Informed(m) == \A n \in Nodes : state[m].increments[n] >= Added[n] /\ state[m].decrements[n] >= Taken[n]
InformedAreRight == \A m \in Nodes : Informed(m) => getValue(state[m]) = Larger(0, Total(Added) - Total(Taken))

CountsAgree == NothingInvented /\ InformedAreRight
=============================================================================
