-------------------------- MODULE AtomicInventory --------------------------
(***************************************************************************)
(* What the stock mutations promise: each request carries out its command  *)
(* at most once, in one indivisible step, on the rows as they are at that  *)
(* moment; the events it raises reach the outbox in the same step; and a   *)
(* request that is refused changes nothing.                                *)
(***************************************************************************)
EXTENDS StockCommand

CONSTANTS Requests, InitialItems

VARIABLES items,    \* the table inventory_items
          outbox,   \* the rows of outbox_events
          cmd,      \* the command of each request
          outcome   \* what became of each request

vars == <<items, outbox, cmd, outcome>>

Init ==
    /\ items = InitialItems
    /\ outbox = {}
    /\ cmd \in [Requests -> Commands]
    /\ outcome = [r \in Requests |-> "open"]

Execute(r) ==
    /\ outcome[r] = "open"
    /\ Accepts(items, cmd[r])
    /\ items' = [k \in Keys |-> IF k \in cmd[r].keys
                                THEN Drafts(items, cmd[r])[k]
                                ELSE items[k]]
    /\ outbox' = outbox \cup Raised(items, cmd[r])
    /\ outcome' = [outcome EXCEPT ![r] = "applied"]
    /\ UNCHANGED cmd

Refuse(r) ==
    /\ outcome[r] = "open"
    /\ outcome' = [outcome EXCEPT ![r] = "refused"]
    /\ UNCHANGED <<items, outbox, cmd>>

Next == \E r \in Requests : Execute(r) \/ Refuse(r)

Spec == Init /\ [][Next]_vars
=============================================================================
