------------------------------ MODULE Returns ------------------------------
(***************************************************************************)
(* Customer returns: a return (RMA) is requested and authorized, its goods *)
(* are received onto the shelf, into quarantine or straight to scrap, and  *)
(* what is in quarantine is put back, scrapped or sent to the vendor.      *)
(* A call awaits one round trip after the other and writes to six tables   *)
(* without a transaction and without a retry: cost layers, stock rows      *)
(* (guarded by their versions), new layers, quarantine, journal, and at    *)
(* last the return or the quarantine record, checked on a copy and written *)
(* unconditionally.  The changes of serial numbers are in SerializedItems. *)
(***************************************************************************)
EXTENDS CostLayers, InventoryItem

CONSTANTS Rmas,       \* numbers of returns
          Expected,   \* of each return: the units of each variant
          UnitCost,   \* of each return: the cost of a unit of each variant
          Requests, Commands,
          MaxCrashes, \* bound: calls whose process stops
          NoRow, NoRma, None

\* The stock of a variant at the location of the returns, and in its shadow
\* location "<location>-quarantine".
Keys == Variants \X {"shelf", "quarantine"}

RmaStates == {"REQUESTED", "AUTHORIZED", "RECEIVED", "COMPLETED", "REJECTED"}
Outcome == [RESTOCK |-> "RESTOCKED", SCRAP |-> "SCRAPPED", RTV |-> "RTV"]

VARIABLES layers, stale,    \* the cost layers; variants overwritten from an old reading
          items, rmas,      \* the tables
          quarantine,       \* the records, in the order they were inserted
          booked,           \* balance of the inventory account 1200
          call, pc, halted,
          copy, loaded, read   \* what each call has read of rmas or quarantine,
                               \* of the stock rows, and of the layers

tables == <<layers, stale, items, rmas, quarantine, booked>>
memory == <<copy, loaded, read>>

Goto(r, at) == pc' = [pc EXCEPT ![r] = at]
Cmd(r) == call[r]

Blank(n) == [status |-> "REQUESTED", received |-> [v \in Variants |-> 0]]

-----------------------------------------------------------------------------
\* createRma: the number is looked up, and then inserted; it is unique.
Create(r) ==
    /\ pc[r] = "find" /\ Cmd(r).op = "create"
    /\ Goto(r, IF rmas[Cmd(r).rma] = NoRma THEN "insert" ELSE "rejected")
    /\ UNCHANGED <<tables, memory>>

Insert(r) ==
    /\ pc[r] = "insert"
    /\ IF rmas[Cmd(r).rma] = NoRma
       THEN /\ rmas' = [rmas EXCEPT ![Cmd(r).rma] = Blank(Cmd(r).rma)]
            /\ Goto(r, "done")
       ELSE Goto(r, "rejected") /\ UNCHANGED rmas
    /\ UNCHANGED <<layers, stale, items, quarantine, booked, memory>>

\* authorize is checked on the copy, which saveRma writes back.
Authorize(r) ==
    LET rma == rmas[Cmd(r).rma]
    IN  /\ pc[r] = "find" /\ Cmd(r).op = "authorize"
        /\ IF rma # NoRma /\ rma.status = "REQUESTED"
           THEN /\ copy' = [copy EXCEPT ![r] = [rma EXCEPT !.status = "AUTHORIZED"]]
                /\ Goto(r, "saveRma")
           ELSE Goto(r, "rejected") /\ UNCHANGED copy
        /\ UNCHANGED <<tables, loaded, read>>

FindRma(r) ==
    /\ pc[r] = "find" /\ Cmd(r).op = "receive"
    /\ copy' = [copy EXCEPT ![r] = rmas[Cmd(r).rma]]
    /\ Goto(r, IF rmas[Cmd(r).rma] = NoRma THEN "rejected" ELSE "load")
    /\ UNCHANGED <<tables, loaded, read>>

-----------------------------------------------------------------------------
Dispositions == {"RESTOCK", "QUARANTINE", "SCRAP"}
ReceiptLine == [variant : Variants, amount : Nat \ {0}, disposition : Dispositions]

Lines(r) == Cmd(r).lines
Place(line) == <<line.variant, IF line.disposition = "QUARANTINE" THEN "quarantine" ELSE "shelf">>
Marked(r, disposition) == {i \in DOMAIN Lines(r) : Lines(r)[i].disposition = disposition}

\* The units of a variant on the lines with one of the dispositions.
Amount(lines, dispositions, v) ==
    SumFunctionOnSet(
        [i \in DOMAIN lines |-> IF lines[i].variant = v /\ lines[i].disposition \in dispositions
                                THEN lines[i].amount ELSE 0],
        DOMAIN lines)

\* No line takes in more than is expected, and each has a cost to book.
Receivable(rma, n, lines) ==
    /\ rma.status \in {"AUTHORIZED", "RECEIVED"}
    /\ \A v \in Variants : rma.received[v] + Amount(lines, Dispositions, v) <= Expected[n][v]
    /\ \A i \in DOMAIN lines : UnitCost[n][lines[i].variant] > 0

\* Mutant of Received: complete as soon as some item is.
ReceivedSome(rma, n, lines) ==
    LET received == [v \in Variants |-> rma.received[v] + Amount(lines, Dispositions, v)]
    IN  [status |-> IF \E v \in Variants : Expected[n][v] > 0 /\ received[v] = Expected[n][v]
                    THEN "COMPLETED" ELSE "RECEIVED",
         received |-> received]

\* receiveItem of the class Rma, for all the lines.
Received(rma, n, lines) ==
    LET received == [v \in Variants |-> rma.received[v] + Amount(lines, Dispositions, v)]
    IN  [status |-> IF received = Expected[n] THEN "COMPLETED" ELSE "RECEIVED",
         received |-> received]

OrNew(row) == IF row = NoRow THEN CreateNew ELSE row

\* How often the lines change the row k: a scrapped line goes in and out.
Changes(lines, k) ==
    SumFunctionOnSet([i \in DOMAIN lines |-> IF Place(lines[i]) # k THEN 0
                                             ELSE IF lines[i].disposition = "SCRAP" THEN 2 ELSE 1],
                     DOMAIN lines)

\* What is left at a place of the lines that go there.
Kept(place) == IF place = "shelf" THEN {"RESTOCK"} ELSE {"QUARANTINE"}

\* The rows are read at once: each line does receiveStock to its row, and a
\* scrapped line dispatchStock too.
Shelved(rows, lines) ==
    [k \in Keys |->
        IF Changes(lines, k) = 0 THEN rows[k]
        ELSE [OrNew(rows[k]) EXCEPT !.quantity = @ + Amount(lines, Kept(k[2]), k[1]),
                                    !.version = @ + Changes(lines, k)]]

Drafts(r) ==
    IF Cmd(r).op = "receive" THEN Shelved(loaded[r], Lines(r))
    ELSE LET q == copy[r]
         IN  [k \in Keys |->
                 CASE k = <<q.variant, "quarantine">> -> DispatchStock(loaded[r][k], q.amount)
                   [] k = <<q.variant, "shelf">> /\ Cmd(r).resolution = "RESTOCK" ->
                          ReceiveStock(OrNew(loaded[r][k]), q.amount)
                   [] OTHER -> loaded[r][k]]

Places(r) ==
    IF Cmd(r).op = "receive" THEN {Place(Lines(r)[i]) : i \in DOMAIN Lines(r)}
    ELSE {<<copy[r].variant, "quarantine">>} \cup
             IF Cmd(r).resolution = "RESTOCK" THEN {<<copy[r].variant, "shelf">>} ELSE {}

LoadReceipt(r) ==
    /\ pc[r] = "load" /\ Cmd(r).op = "receive"
    /\ IF Receivable(copy[r], Cmd(r).rma, Lines(r))
       THEN /\ loaded' = [loaded EXCEPT ![r] = items]
            /\ copy' = [copy EXCEPT ![r] = Received(copy[r], Cmd(r).rma, Lines(r))]
            /\ Goto(r, IF Marked(r, "SCRAP") = {} THEN "saveRows" ELSE "layers")
       ELSE Goto(r, "rejected") /\ UNCHANGED <<loaded, copy>>
    /\ UNCHANGED <<tables, read>>

-----------------------------------------------------------------------------
\* What a call takes of each variant from the layers: the scrapped lines of a
\* receipt (before the layers of the receipt itself are saved), or the record
\* it resolves.
Takes(r) ==
    [v \in Variants |->
        IF Cmd(r).op = "receive" THEN Amount(Lines(r), {"SCRAP"}, v)
        ELSE IF v = copy[r].variant THEN copy[r].amount ELSE 0]

TakenVariants(r) == {v \in Variants : Takes(r)[v] > 0}

\* A variant on two scrapped lines makes saveBatch name its layers twice, and
\* is refused by the database.
ScrapsOnce(r) ==
    Cmd(r).op = "receive" =>
        \A i, j \in Marked(r, "SCRAP") : Lines(r)[i].variant = Lines(r)[j].variant => i = j

ReadLayers(r) ==
    /\ pc[r] = "layers"
    /\ IF CoversAll(layers, Takes(r)) /\ ScrapsOnce(r)
       THEN read' = [read EXCEPT ![r] = layers] /\ Goto(r, "consume")
       ELSE Goto(r, "rejected") /\ UNCHANGED read
    /\ UNCHANGED <<tables, copy, loaded>>

\* Another call has consumed units of the variant since it was read.
Stale(r, v) ==
    \E i \in Active(read[r], v) : layers[i].consumed # read[r][i].consumed

Consume(r) ==
    /\ pc[r] = "consume"
    /\ layers' = Written(layers, read[r], ConsumedAll(read[r], Takes(r)), TakenVariants(r))
    /\ stale' = stale \cup {v \in TakenVariants(r) : Stale(r, v)}
    /\ Goto(r, IF Cmd(r).op = "receive" THEN "saveRows" ELSE "writeOff")
    /\ UNCHANGED <<items, rmas, quarantine, booked, memory>>

\* Mutant of UpToDate: rows are overwritten.
UpToDateUnchecked(r) == TRUE

\* The rows to insert are missing still; those to update are one version below.
\* A row that is changed twice is therefore refused, unless another call has
\* changed it once in between: then that change is overwritten.
UpToDate(r) ==
    \A k \in Places(r) :
        IF loaded[r][k] = NoRow THEN items[k] = NoRow
        ELSE items[k].version = Drafts(r)[k].version - 1

SaveRows(r) ==
    /\ pc[r] = "saveRows"
    /\ IF UpToDate(r)
       THEN /\ items' = [k \in Keys |-> IF k \in Places(r) THEN Drafts(r)[k] ELSE items[k]]
            /\ stale' = stale \cup {k[1] : k \in {p \in Places(r) : items[p] # loaded[r][p]}}
            /\ Goto(r, IF Cmd(r).op = "receive" THEN "saveLayers" ELSE "saveRecord")
       ELSE Goto(r, "refused") /\ UNCHANGED <<items, stale>>
    /\ UNCHANGED <<layers, rmas, quarantine, booked, memory>>

\* Mutant of SaveLayers: only the first line gets its layer.
SaveFirstLayer(r) ==
    /\ pc[r] = "saveLayers"
    /\ layers' = Append(layers, NewLayer(Lines(r)[1].variant, Lines(r)[1].amount,
                                         UnitCost[Cmd(r).rma][Lines(r)[1].variant]))
    /\ Goto(r, "saveRecords")
    /\ UNCHANGED <<stale, items, rmas, quarantine, booked, memory>>

\* A layer for each line, the scrapped ones too, at the cost of the return.
SaveLayers(r) ==
    /\ pc[r] = "saveLayers"
    /\ layers' = layers \o
           [i \in DOMAIN Lines(r) |->
               NewLayer(Lines(r)[i].variant, Lines(r)[i].amount,
                        UnitCost[Cmd(r).rma][Lines(r)[i].variant])]
    /\ Goto(r, "saveRecords")
    /\ UNCHANGED <<stale, items, rmas, quarantine, booked, memory>>

\* The records of one insertion are in no particular order.
SaveRecords(r) ==
    LET new == SetToSeq(Marked(r, "QUARANTINE"))
    IN  /\ pc[r] = "saveRecords"
        /\ quarantine' = quarantine \o
               [i \in DOMAIN new |-> [variant |-> Lines(r)[new[i]].variant,
                                      amount |-> Lines(r)[new[i]].amount,
                                      status |-> "QUARANTINED"]]
        /\ Goto(r, "journal")
        /\ UNCHANGED <<layers, stale, items, rmas, booked, memory>>

\* What the lines with one of the dispositions cost.
CostOfLines(n, lines, dispositions) ==
    SumFunctionOnSet(
        [v \in Variants |-> Amount(lines, dispositions, v) * UnitCost[n][v]], Variants)

\* buildStockReturned for each line, buildInventoryWriteOff for the scrapped
\* ones at the cost of the return, whatever the consumed layers had cost.
Journal(r) ==
    /\ pc[r] = "journal"
    /\ booked' = booked + CostOfLines(Cmd(r).rma, Lines(r), Dispositions)
                        - CostOfLines(Cmd(r).rma, Lines(r), {"SCRAP"})
    /\ Goto(r, "saveRma")
    /\ UNCHANGED <<layers, stale, items, rmas, quarantine, memory>>

SaveRma(r) ==
    /\ pc[r] = "saveRma"
    /\ rmas' = [rmas EXCEPT ![Cmd(r).rma] = copy[r]]
    /\ Goto(r, "done")
    /\ UNCHANGED <<layers, stale, items, quarantine, booked, memory>>

-----------------------------------------------------------------------------
FindRecord(r) ==
    /\ pc[r] = "find" /\ Cmd(r).op = "resolve"
    /\ IF Cmd(r).record \in DOMAIN quarantine
       THEN /\ copy' = [copy EXCEPT ![r] = quarantine[Cmd(r).record]]
            /\ Goto(r, IF Cmd(r).resolution = "SCRAP" THEN "intercept" ELSE "load")
       ELSE Goto(r, "rejected") /\ UNCHANGED copy
    /\ UNCHANGED <<tables, loaded, read>>

\* A workflow for inventory.write_off may hold the scrapping up: the request
\* for approval is all that is left of the call (see Approvals).
Intercept(r) ==
    /\ pc[r] = "intercept"
    /\ \E next \in {"load", "rejected"} : Goto(r, next)
    /\ UNCHANGED <<tables, memory>>

\* The quarantine row must hold the amount, and the copy must be unresolved.
LoadQuarantine(r) ==
    LET row == <<copy[r].variant, "quarantine">>
    IN  /\ pc[r] = "load" /\ Cmd(r).op = "resolve"
        /\ IF /\ items[row] # NoRow
              /\ Permits("dispatchStock", items[row], copy[r].amount)
              /\ copy[r].status = "QUARANTINED"
           THEN /\ loaded' = [loaded EXCEPT ![r][row] = items[row]]
                /\ Goto(r, IF Cmd(r).resolution = "RESTOCK" THEN "shelf" ELSE "layers")
           ELSE Goto(r, "rejected") /\ UNCHANGED loaded
        /\ UNCHANGED <<tables, copy, read>>

LoadShelf(r) ==
    LET row == <<copy[r].variant, "shelf">>
    IN  /\ pc[r] = "shelf"
        /\ loaded' = [loaded EXCEPT ![r][row] = items[row]]
        /\ Goto(r, "saveRows")
        /\ UNCHANGED <<tables, copy, read>>

\* onInventoryWriteOff and onReturnToVendor throw if there is nothing to book.
WriteOff(r) ==
    LET cost == TotalCost(read[r], Takes(r))
    IN  /\ pc[r] = "writeOff"
        /\ booked' = booked - cost
        /\ Goto(r, IF cost > 0 THEN "saveRows" ELSE "refused")
        /\ UNCHANGED <<layers, stale, items, rmas, quarantine, memory>>

SaveRecord(r) ==
    /\ pc[r] = "saveRecord"
    /\ quarantine' = [quarantine EXCEPT ![Cmd(r).record].status = Outcome[Cmd(r).resolution]]
    /\ Goto(r, "done")
    /\ UNCHANGED <<layers, stale, items, rmas, booked, memory>>

-----------------------------------------------------------------------------
Execute(r) ==
    \/ Create(r) \/ Insert(r) \/ Authorize(r) \/ FindRma(r) \/ LoadReceipt(r)
    \/ ReadLayers(r) \/ Consume(r) \/ SaveRows(r) \/ SaveLayers(r) \/ SaveRecords(r)
    \/ Journal(r) \/ SaveRma(r) \/ FindRecord(r) \/ Intercept(r) \/ LoadQuarantine(r)
    \/ LoadShelf(r) \/ WriteOff(r) \/ SaveRecord(r)

Step(r) == r \notin halted /\ Execute(r) /\ UNCHANGED <<call, halted>>

\* The process stops; what the call has written stays.
Crash(r) ==
    /\ pc[r] \in {"consume", "saveRows", "saveLayers", "saveRecords", "journal",
                  "saveRma", "writeOff", "saveRecord"}
    /\ Cardinality(halted) < MaxCrashes
    /\ r \notin halted
    /\ halted' = halted \cup {r}
    /\ UNCHANGED <<tables, call, pc, memory>>
=============================================================================
