--------------------------- MODULE Replenishment ---------------------------
(***************************************************************************)
(* Replenishment rules.  An evaluation reads the rules of the tenant, the  *)
(* purchase orders, the transfers and the stock, each with a query of its  *)
(* own, decides for every active rule, and saves rules, transfers and      *)
(* orders in three transactions.  A spot (a variant at a location) has at  *)
(* most one rule.  What becomes of an order or a transfer is modelled in   *)
(* PurchaseOrders and StockTransfers; here each of its steps is atomic.    *)
(***************************************************************************)
EXTENDS Integers, FiniteSets, Sequences, SequencesExt

CONSTANTS Spots,       \* pairs of variant and location
          Catalogued,  \* spots whose variant is in the catalogue
          Rules,       \* rules that may exist: records of kind, point, quantity, active
                       \* and dynamic
          Requests, Commands,
          MaxDocs,     \* bound: documents drafted
          MaxStock,    \* bound: initial stock
          MaxReserved, \* bound: reservations of a spot
          Points,      \* what the forecast of a dynamic rule may say
          Absent, None

Docs == 1..MaxDocs

VARIABLES rules,           \* the rule of each spot, or Absent
          doc,             \* purchase orders and transfers, or Absent
          onHand, reserved, inTransit,
          call, pc, copy,  \* of each request; copy is what it has read
          doubled          \* history: spots for which a document was saved by an
                           \* evaluation that could not know of another one

stock == <<onHand, reserved, inTransit>>
vars == <<rules, doc, stock, call, pc, copy, doubled>>

Blank == [rules |-> None, orders |-> None, transfers |-> None, position |-> None,
          drafts |-> {}, known |-> {}]

Init ==
    /\ rules \in [Spots -> Rules \cup {Absent}]
    /\ doc = [d \in Docs |-> Absent]
    /\ onHand \in [Spots -> 0..MaxStock]
    /\ reserved = [s \in Spots |-> 0]
    /\ inTransit = [s \in Spots |-> 0]
    /\ call \in [Requests -> Commands]
    /\ pc = [q \in Requests |-> "start"]
    /\ copy = [q \in Requests |-> Blank]
    /\ doubled = {}

Existing == {d \in Docs : doc[d] # Absent}
OnRecord(kind) == {doc[d] : d \in {e \in Existing : doc[e].kind = kind}}
Position(s) == onHand[s] - reserved[s] + inTransit[s]

-----------------------------------------------------------------------------
\* The life of a document, a sale, a reservation: one transaction each.
Moves ==
    [supplier |-> {<<"draft", "ordered">>, <<"draft", "pending">>,
                   <<"draft", "cancelled">>, <<"pending", "cancelled">>,
                   <<"ordered", "received">>, <<"ordered", "cancelled">>},
     transfer |-> {<<"draft", "ordered">>, <<"draft", "cancelled">>,
                   <<"ordered", "received">>, <<"ordered", "cancelled">>}]

Advance(d) ==
    /\ doc[d] # Absent
    /\ \E m \in Moves[doc[d].kind] :
        LET s == doc[d].spot
            n == doc[d].quantity
        IN  /\ m[1] = doc[d].status
            /\ doc' = [doc EXCEPT ![d].status = m[2]]
            /\ inTransit' =
                [inTransit EXCEPT ![s] = CASE m[2] = "ordered" -> @ + n
                                           [] m[1] = "ordered" -> @ - n
                                           [] OTHER            -> @]
            /\ onHand' = [onHand EXCEPT ![s] = IF m[2] = "received" THEN @ + n ELSE @]
    /\ UNCHANGED <<rules, reserved, call, pc, copy, doubled>>

Sell(s) ==
    /\ onHand[s] > 0
    /\ onHand' = [onHand EXCEPT ![s] = @ - 1]
    /\ UNCHANGED <<rules, doc, reserved, inTransit, call, pc, copy, doubled>>

Reserve(s) ==
    /\ reserved[s] < MaxReserved
    /\ reserved[s] < onHand[s]
    /\ reserved' = [reserved EXCEPT ![s] = @ + 1]
    /\ UNCHANGED <<rules, doc, onHand, inTransit, call, pc, copy, doubled>>

Release(s) ==
    /\ reserved[s] > 0
    /\ reserved' = [reserved EXCEPT ![s] = @ - 1]
    /\ UNCHANGED <<rules, doc, onHand, inTransit, call, pc, copy, doubled>>

-----------------------------------------------------------------------------
Goto(q, at) == pc' = [pc EXCEPT ![q] = at]

Op(q) == call[q].op

\* The constructor refuses other rules.
Valid(rule) == rule.point >= 0 /\ rule.quantity > 0

\* A rule with a new id; the spot is unique.
CreateRule(q) ==
    /\ pc[q] = "start"
    /\ Op(q) = "create"
    /\ IF rules[call[q].spot] = Absent /\ Valid(call[q].rule)
       THEN rules' = [rules EXCEPT ![call[q].spot] = call[q].rule]
       ELSE UNCHANGED rules
    /\ Goto(q, "done")
    /\ UNCHANGED <<doc, stock, copy, doubled>>

FindRule(q) ==
    /\ pc[q] = "start"
    /\ Op(q) = "toggle"
    /\ copy' = [copy EXCEPT ![q].rules = rules]
    /\ Goto(q, IF rules[call[q].spot] = Absent THEN "done" ELSE "save")
    /\ UNCHANGED <<rules, doc, stock, doubled>>

\* All columns are written, as they were read.
ToggleRule(q) ==
    /\ pc[q] = "save"
    /\ LET s == call[q].spot
       IN  rules' = [rules EXCEPT ![s] = [copy[q].rules[s] EXCEPT !.active = call[q].on]]
    /\ Goto(q, "done")
    /\ UNCHANGED <<doc, stock, copy, doubled>>

-----------------------------------------------------------------------------
Active(q) == {s \in Spots : copy[q].rules[s] # Absent /\ copy[q].rules[s].active}

FindRules(q) ==
    /\ pc[q] = "start"
    /\ Op(q) = "evaluate"
    /\ copy' = [copy EXCEPT ![q].rules = rules, ![q].known = Existing]
    /\ Goto(q, IF \E s \in Spots : rules[s] # Absent THEN "orders" ELSE "done")
    /\ UNCHANGED <<rules, doc, stock, doubled>>

ReadAll(q) ==
    /\ \/ /\ pc[q] = "orders"
          /\ copy' = [copy EXCEPT ![q].orders = OnRecord("supplier")]
          /\ Goto(q, "transfers")
       \/ /\ pc[q] = "transfers"
          /\ copy' = [copy EXCEPT ![q].transfers = OnRecord("transfer")]
          /\ Goto(q, "stock")
       \/ /\ pc[q] = "stock"
          /\ copy' = [copy EXCEPT ![q].position = [s \in Spots |-> Position(s)]]
          /\ Goto(q, "decide")
    /\ UNCHANGED <<rules, doc, stock, doubled>>

\* Mutant of HasOpen: drafts are not looked at.
HasOrdered(q, s) ==
    \E d \in copy[q].orders \cup copy[q].transfers : d.spot = s /\ d.status = "ordered"

\* A draft or a document under way keeps the rule from firing; an order that
\* waits for approval does not.
HasOpen(q, s) ==
    \E d \in copy[q].orders \cup copy[q].transfers :
        d.spot = s /\ d.status \in {"draft", "ordered"}

Triggered(q, s, point) ==
    /\ s \in Active(q) \cap Catalogued
    /\ ~ HasOpen(q, s)
    /\ copy[q].position[s] < point

Draft(q, s) ==
    [spot |-> s, kind |-> copy[q].rules[s].kind, status |-> "draft",
     quantity |-> copy[q].rules[s].quantity]

\* The forecast of a dynamic rule becomes its point before anything else.
Decide(q) ==
    /\ pc[q] = "decide"
    /\ \E forecast \in [Spots -> Points] :
        LET dynamic == {s \in Active(q) : copy[q].rules[s].dynamic}
            point(s) == IF s \in dynamic THEN forecast[s] ELSE copy[q].rules[s].point
            fired == {s \in Active(q) : Triggered(q, s, point(s))}
        IN  /\ copy' = [copy EXCEPT
                   ![q].rules = [s \in Spots |->
                       IF s \in dynamic THEN [@[s] EXCEPT !.point = forecast[s]] ELSE @[s]],
                   ![q].drafts = {Draft(q, s) : s \in fired},
                   ![q].orders = None, ![q].transfers = None, ![q].position = None]
            /\ Goto(q, IF dynamic # {} THEN "saveRules" ELSE "saveTransfers")
    /\ UNCHANGED <<rules, doc, stock, doubled>>

\* The rules are written back with all their columns.
SaveRules(q) ==
    /\ pc[q] = "saveRules"
    /\ rules' = [s \in Spots |->
           IF s \in Active(q) /\ copy[q].rules[s].dynamic THEN copy[q].rules[s] ELSE rules[s]]
    /\ Goto(q, "saveTransfers")
    /\ UNCHANGED <<doc, stock, copy, doubled>>

\* An evaluation knows of the documents that were there when it began.
Unknown(q, s) == \E d \in Existing : doc[d].spot = s /\ d \notin copy[q].known

SaveDocs(q, kind, from, to) ==
    /\ pc[q] = from
    /\ LET new   == SetToSeq({d \in copy[q].drafts : d.kind = kind})
           first == Cardinality(Existing)
       IN  /\ first + Len(new) <= MaxDocs
           /\ doc' = [d \in Docs |-> IF d - first \in DOMAIN new THEN new[d - first] ELSE doc[d]]
           /\ doubled' = doubled \cup {s \in {d.spot : d \in Range(new)} : Unknown(q, s)}
    /\ Goto(q, to)
    /\ copy' = IF to = "done" THEN [copy EXCEPT ![q] = Blank] ELSE copy
    /\ UNCHANGED <<rules, stock>>

SaveTransfers(q) == SaveDocs(q, "transfer", "saveTransfers", "saveOrders")

SaveOrders(q) == SaveDocs(q, "supplier", "saveOrders", "done")

Evaluate(q) ==
    \/ FindRules(q) \/ ReadAll(q) \/ Decide(q)
    \/ SaveRules(q) \/ SaveTransfers(q) \/ SaveOrders(q)

Step(q) ==
    /\ Evaluate(q) \/ CreateRule(q) \/ FindRule(q) \/ ToggleRule(q)
    /\ UNCHANGED call

Next ==
    \/ \E d \in Docs : Advance(d)
    \/ \E s \in Spots : Sell(s) \/ Reserve(s) \/ Release(s)
    \/ \E q \in Requests : Step(q)

Spec == Init /\ [][Next]_vars

-----------------------------------------------------------------------------
Drafted(s) == {d \in Existing : doc[d].spot = s /\ doc[d].status = "draft"}
Pipeline(s) ==
    onHand[s] + inTransit[s]
    + SumFunctionOnSet([d \in Drafted(s) |-> doc[d].quantity], Drafted(s))

MaxPoint == Max(Points \cup {r.point : r \in Rules})
MaxQuantity == Max({r.quantity : r \in Rules})

\* What is there, under way and drafted never exceeds one order quantity above
\* the reorder point, although documents move on between the queries of an
\* evaluation; except where an evaluation saves a document beside one that
\* another has saved since it began.
PipelineBounded ==
    \A s \in Spots \ doubled :
        Pipeline(s) <= Max({MaxStock, MaxPoint + MaxReserved - 1 + MaxQuantity})
=============================================================================
