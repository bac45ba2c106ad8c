-------------------------- MODULE SerializedItems --------------------------
(***************************************************************************)
(* Units that are tracked one by one.  Each serial number has a status, a  *)
(* history of transitions, and entries in the stock ledger.  A call reads  *)
(* the item with its history, makes its transition on the copy, may append *)
(* a ledger entry, and writes status and history back: all of the history  *)
(* is deleted and inserted again.  There is no version; of two calls that  *)
(* overlap, the later one undoes the other's transition, in the history    *)
(* too.  A transition to the status an item has already is passed over in  *)
(* silence, and the rest of the call is carried out all the same.          *)
(***************************************************************************)
EXTENDS Integers, Sequences, SequencesExt, FiniteSets, FiniteSetsExt

CONSTANTS Serials,
          Costed,      \* those with a cost layer of their own
          Requests, Commands,
          MaxCrashes,  \* bound: calls whose process stops
          Absent, None

Statuses == {"pending", "in_stock", "sold", "returned", "quarantined",
             "transferred", "damaged", "written_off"}

Allowed == [
    pending     |-> {"in_stock", "quarantined", "written_off"},
    in_stock    |-> {"sold", "transferred", "quarantined", "damaged", "written_off"},
    sold        |-> {"returned"},
    returned    |-> {"in_stock", "quarantined", "damaged", "written_off"},
    quarantined |-> {"in_stock", "damaged", "written_off"},
    transferred |-> {"in_stock", "quarantined", "damaged"},
    damaged     |-> {"quarantined", "written_off"},
    written_off |-> {}]

VARIABLES item,      \* the row of each serial with its history, or Absent
          ledger,    \* sum of the entries of each serial
          expensed,  \* write-offs booked in the journal for each serial
          call, pc, copy, halted,
          silent,    \* history: ledger entries of calls that changed no status
          stale      \* history: serials overwritten from an old copy

tables == <<item, ledger, expensed>>
vars == <<tables, call, pc, copy, halted, silent, stale>>

Init ==
    /\ item = [s \in Serials |-> Absent]
    /\ ledger = [s \in Serials |-> 0]
    /\ expensed = [s \in Serials |-> 0]
    /\ call \in [Requests -> Commands]
    /\ pc = [r \in Requests |->
                IF call[r].op = "receive" THEN "check" ELSE "find"]
    /\ copy = [r \in Requests |-> None]
    /\ halted = {}
    /\ silent = [s \in Serials |-> 0]
    /\ stale = {}

Op(r) == call[r].op
S(r) == call[r].serial
Goto(r, at) == pc' = [pc EXCEPT ![r] = at]

-----------------------------------------------------------------------------
\* isRegistered, in the use case and once more in register.
Check(r) ==
    /\ pc[r] = "check"
    /\ Goto(r, IF item[S(r)] = Absent THEN "register" ELSE "find")
    /\ UNCHANGED <<tables, copy, silent, stale>>

Register(r) ==
    /\ pc[r] = "register"
    /\ Goto(r, IF item[S(r)] = Absent THEN "insert" ELSE "rejected")
    /\ UNCHANGED <<tables, copy, silent, stale>>

\* The serial number is unique within a tenant.
Insert(r) ==
    /\ pc[r] = "insert"
    /\ IF item[S(r)] = Absent
       THEN /\ item' = [item EXCEPT ![S(r)] = [status |-> "pending", history |-> <<>>]]
            /\ Goto(r, "find")
       ELSE Goto(r, "rejected") /\ UNCHANGED item
    /\ UNCHANGED <<ledger, expensed, copy, silent, stale>>

-----------------------------------------------------------------------------
\* The transitions a call makes, one after the other; those to the status the
\* item has already are passed over.
Targets(r) ==
    CASE Op(r) = "receive"  -> <<"in_stock">>
      [] Op(r) = "sell"     -> <<"sold">>
      [] Op(r) = "return"   -> <<"returned">>
      [] Op(r) = "restock"  -> <<"in_stock">>
      [] Op(r) = "writeOff" -> <<"written_off">>
      [] Op(r) = "rmaRestock"    -> <<"returned", "in_stock">>
      [] Op(r) = "rmaQuarantine" -> <<"returned", "quarantined">>
      [] Op(r) = "rmaScrap"      -> <<"returned", "written_off">>

\* Mutant of CanMove: any status may follow.
CanMoveAnywhere(from, to) == TRUE

CanMove(from, to) == from = to \/ to \in Allowed[from]

Moved(row, to, op) ==
    IF row.status = to THEN row
    ELSE [status |-> to,
          history |-> Append(row.history, [from |-> row.status, to |-> to, op |-> op])]

Permits(row, r) ==
    LET to == Targets(r)
    IN  /\ CanMove(row.status, to[1])
        /\ Len(to) = 2 => CanMove(to[1], to[2])

Draft(r) ==
    LET to   == Targets(r)
        once == Moved(copy[r], to[1], Op(r))
    IN  IF Len(to) = 1 THEN once ELSE Moved(once, to[2], Op(r))

\* Only the receipt and the sale of an item are entered in the ledger.
Effect(op) == CASE op = "receive" -> 1 [] op = "sell" -> -1 [] OTHER -> 0

Find(r) ==
    /\ pc[r] = "find"
    /\ IF item[S(r)] # Absent /\ Permits(item[S(r)], r)
       THEN /\ copy' = [copy EXCEPT ![r] = item[S(r)]]
            /\ Goto(r, CASE Effect(Op(r)) # 0    -> "append"
                         [] Op(r) = "writeOff" -> "cost"
                         [] OTHER              -> "save")
       ELSE Goto(r, "rejected") /\ UNCHANGED copy
    /\ UNCHANGED <<tables, silent, stale>>

\* The entry is appended whether or not the status has changed.
AppendEntry(r) ==
    /\ pc[r] = "append"
    /\ ledger' = [ledger EXCEPT ![S(r)] = @ + Effect(Op(r))]
    /\ silent' = IF Draft(r) = copy[r]
                 THEN [silent EXCEPT ![S(r)] = @ + Effect(Op(r))] ELSE silent
    /\ Goto(r, "save")
    /\ UNCHANGED <<item, expensed, copy, stale>>

\* Mutant of FindCost: a unit without a cost is written off without an entry.
FindCostOptional(r) ==
    /\ pc[r] = "cost"
    /\ Goto(r, IF S(r) \in Costed THEN "expense" ELSE "save")
    /\ UNCHANGED <<tables, copy, silent, stale>>

\* costForSerial throws unless the serial has a layer of its own, which no
\* receipt creates.
FindCost(r) ==
    /\ pc[r] = "cost"
    /\ Goto(r, IF S(r) \in Costed THEN "expense" ELSE "rejected")
    /\ UNCHANGED <<tables, copy, silent, stale>>

\* The journal is booked, and then a layer of the variant consumed (see
\* CostLayers), before the item is saved.
Expense(r) ==
    /\ pc[r] = "expense"
    /\ expensed' = [expensed EXCEPT ![S(r)] = @ + 1]
    /\ Goto(r, "consume")
    /\ UNCHANGED <<item, ledger, copy, silent, stale>>

\* Too few units in the layers of the variant are an exception.
ConsumeLayer(r) ==
    /\ pc[r] = "consume"
    /\ \E next \in {"save", "rejected"} : Goto(r, next)
    /\ UNCHANGED <<tables, copy, silent, stale>>

Save(r) ==
    /\ pc[r] = "save"
    /\ item' = [item EXCEPT ![S(r)] = Draft(r)]
    /\ stale' = IF item[S(r)] # copy[r] THEN stale \cup {S(r)} ELSE stale
    /\ Goto(r, "done")
    /\ UNCHANGED <<ledger, expensed, copy, silent>>

Execute(r) ==
    \/ Check(r) \/ Register(r) \/ Insert(r) \/ Find(r) \/ AppendEntry(r)
    \/ FindCost(r) \/ Expense(r) \/ ConsumeLayer(r) \/ Save(r)

Step(r) == r \notin halted /\ Execute(r) /\ UNCHANGED <<call, halted>>

Crash(r) ==
    /\ pc[r] \in {"insert", "append", "expense", "consume", "save"}
    /\ Cardinality(halted) < MaxCrashes
    /\ r \notin halted
    /\ halted' = halted \cup {r}
    /\ UNCHANGED <<tables, call, pc, copy, silent, stale>>

Next == \E r \in Requests : Step(r) \/ Crash(r)

Spec == Init /\ [][Next]_vars

-----------------------------------------------------------------------------
\* Whatever overlaps, the history on record is a path of allowed transitions
\* from pending to the status on record: of a lost transition nothing is left.
HistoryIsPath ==
    \A s \in Serials : item[s] # Absent =>
        LET path == <<"pending">> \o
                        [i \in DOMAIN item[s].history |-> item[s].history[i].to]
        IN  /\ item[s].status = Last(path)
            /\ \A i \in DOMAIN item[s].history :
                item[s].history[i].from = path[i] /\ path[i + 1] \in Allowed[path[i]]

\* Calls whose ledger entry is written and whose transition is not.
Owing(s) ==
    {r \in Requests :
        S(r) = s /\ Effect(Op(r)) # 0 /\ pc[r] = "save" /\ Draft(r) # copy[r]}

\* The ledger of a serial is what the receipts and sales in its history say,
\* plus the entries of the calls that repeat what was done before and of those
\* that have not saved or have stopped, unless an old copy was written back.
\* (Returns, restocks and write-offs leave the ledger as it is.)
Recorded(history) ==
    SumFunctionOnSet([i \in DOMAIN history |-> Effect(history[i].op)], DOMAIN history)

Owed(s) == SumFunctionOnSet([r \in Requests |-> Effect(Op(r))], Owing(s))

LedgerFollowsHistory ==
    \A s \in Serials \ stale : item[s] # Absent =>
        ledger[s] = silent[s] + Recorded(item[s].history) + Owed(s)

\* An item that is written off stays so, unless a call writes back a copy it
\* has read before; and what writeOff has written off is in the journal.
KeepsWriteOffs ==
    \A s \in Serials :
        /\ item[s] # Absent /\ item[s].status = "written_off"
               => item'[s].status = "written_off" \/ s \in stale'
        /\ item[s] # Absent /\ item'[s] # item[s] /\ item'[s].status = "written_off"
               => expensed[s] > 0 \/ Last(item'[s].history).op = "rmaScrap"
=============================================================================
