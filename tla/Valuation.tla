----------------------------- MODULE Valuation -----------------------------
(***************************************************************************)
(* Returns and kits over the cost layers they share.  The stock of a       *)
(* variant is recorded twice, independently: returns change the rows of    *)
(* inventory_items and no ledger, kits the ledger and no rows.  The layers *)
(* follow both.                                                            *)
(***************************************************************************)
EXTENDS CostLayers, InventoryItem

CONSTANTS Rmas, Expected, UnitCost, KitVariant, DefaultCost,
          Requests, Commands, MaxCrashes, NoRow, NoRma, None,
          InitialLayers, InitialItems, InitialRmas, InitialQuarantine,
          InitialLedger, InitialKit

VARIABLES layers, stale, call, pc, halted, read,
          items, rmas, quarantine, booked, copy, loaded,
          ledger, kit, goods, parts, recipe, average

returnsOnly == <<items, rmas, quarantine, booked, copy, loaded>>
kitsOnly == <<ledger, kit, goods, parts, recipe, average>>
vars == <<layers, stale, call, pc, halted, read, returnsOnly, kitsOnly>>

R == INSTANCE Returns
K == INSTANCE Kits

\* What a client may send.  A return is received with at least one line.
Command ==
    [op : {"create", "authorize"}, rma : Rmas]
    \cup [op : {"receive"}, rma : Rmas, lines : Seq(R!ReceiptLine) \ {<<>>}]
    \cup [op : {"resolve"}, record : Nat, resolution : DOMAIN R!Outcome]
    \cup [op : {"assemble", "disassemble"}, amount : Nat \ {0}]
    \cup [op : {"createKit"}, recipe : K!Recipes]
    \cup [op : {"addComponent"}, variant : Variants, amount : Nat \ {0}]
    \cup [op : {"removeComponent"}, variant : Variants]

Rma == [status : R!RmaStates, received : [Variants -> Nat]]
Record == [variant : Variants, amount : Nat \ {0},
           status : {"QUARANTINED"} \cup {R!Outcome[x] : x \in DOMAIN R!Outcome}]

ASSUME ValuationAssumption ==
    /\ IsFiniteSet(Variants) /\ IsFiniteSet(Requests)
    /\ KitVariant \in Variants
    /\ DefaultCost \in Nat /\ MaxCrashes \in Nat
    /\ Expected \in [Rmas -> [Variants -> Nat]]
    /\ UnitCost \in [Rmas -> [Variants -> Nat]]
    /\ Commands \in [Requests -> SUBSET Command]
    /\ NoRow \notin Item /\ NoRma \notin Rma /\ None \notin K!Recipes

\* What is in the tables when the calls begin.
ASSUME InitialAssumption ==
    /\ InitialLayers \in Seq(Layer)
    /\ \A i \in DOMAIN InitialLayers : InitialLayers[i].consumed <= InitialLayers[i].initial
    /\ InitialItems \in [R!Keys -> Item \cup {NoRow}]
    /\ InitialRmas \in [Rmas -> Rma \cup {NoRma}]
    /\ \A n \in Rmas : InitialRmas[n] # NoRma /\ InitialRmas[n].status = "COMPLETED" =>
                           InitialRmas[n].received = Expected[n]
    /\ InitialQuarantine \in Seq(Record)
    /\ InitialLedger \in [Variants -> Nat]
    /\ InitialKit \in K!Recipes \cup {None}

\* Each request is one of those a client may send in its place.
Calls == {c \in [Requests -> UNION {Commands[r] : r \in Requests}] :
              \A r \in Requests : c[r] \in Commands[r]}

Init ==
    /\ layers = InitialLayers
    /\ stale = {}
    /\ call \in Calls
    /\ pc = [r \in Requests |-> "find"]
    /\ halted = {}
    /\ read = [r \in Requests |-> <<>>]
    /\ items = InitialItems
    /\ rmas = InitialRmas
    /\ quarantine = InitialQuarantine
    /\ booked = 0
    /\ copy = [r \in Requests |-> None]
    /\ loaded = [r \in Requests |-> [k \in R!Keys |-> NoRow]]
    /\ ledger = InitialLedger
    /\ kit = InitialKit
    /\ goods = 0
    /\ parts = 0
    /\ recipe = [r \in Requests |-> None]
    /\ average = [r \in Requests |-> [v \in Variants |-> 0]]

Next ==
    \E r \in Requests :
        \/ R!Step(r) /\ UNCHANGED kitsOnly
        \/ K!Step(r) /\ UNCHANGED returnsOnly
        \/ R!Crash(r) /\ UNCHANGED kitsOnly
        \/ K!Crash(r) /\ UNCHANGED returnsOnly

Spec == Init /\ [][Next]_vars

-----------------------------------------------------------------------------
Receipts == {r \in Requests : call[r].op = "receive"}
Resolutions == {r \in Requests : call[r].op = "resolve"}
KitCalls == {r \in Requests : call[r].op \in {"assemble", "disassemble"}}

\* What a call has done to the layers of v, and to the stock of v.
InLayers(r, v) ==
    CASE r \in Receipts ->
             (IF pc[r] \in {"saveRecords", "journal", "saveRma", "done"}
              THEN R!Amount(R!Lines(r), R!Dispositions, v) ELSE 0)
               - IF pc[r] \in {"find", "load", "layers", "consume", "rejected"}
                 THEN 0 ELSE R!Amount(R!Lines(r), {"SCRAP"}, v)
      [] r \in Resolutions ->
             IF /\ call[r].resolution # "RESTOCK"
                /\ pc[r] \in {"writeOff", "saveRows", "saveRecord", "done", "refused"}
             THEN 0 - R!Takes(r)[v] ELSE 0
      [] r \in KitCalls ->
             CASE pc[r] \in {"average", "newLayers"} -> 0 - K!Takes(r)[v]
               [] pc[r] \in {"append", "kitJournal", "done", "refused"} ->
                      K!Makes(r)[v] - K!Takes(r)[v]
               [] OTHER -> 0
      [] OTHER -> 0

InStock(r, v) ==
    CASE r \in Receipts /\ pc[r] \in {"saveLayers", "saveRecords", "journal", "saveRma", "done"} ->
             R!Amount(R!Lines(r), {"RESTOCK", "QUARANTINE"}, v)
      [] r \in Resolutions /\ pc[r] \in {"saveRecord", "done"}
         /\ call[r].resolution # "RESTOCK" -> 0 - R!Takes(r)[v]
      [] r \in KitCalls /\ pc[r] \in {"kitJournal", "done", "refused"} ->
             K!Makes(r)[v] - K!Takes(r)[v]
      [] OTHER -> 0

OnHand(table, ks) ==
    SumFunctionOnSet([k \in ks |-> IF table[k] = NoRow THEN 0 ELSE table[k].quantity], ks)

RowsOf(v) == {v} \X {"shelf", "quarantine"}

\* A receipt with two lines of v for quarantine changes that row twice, so that
\* it is saved exactly when another call has changed it in between.
QuarantinedTwice(v) ==
    \E r \in Receipts : \E i, j \in R!Marked(r, "QUARANTINE") :
        i # j /\ R!Lines(r)[i].variant = v /\ R!Lines(r)[j].variant = v

\* The layers of a variant cover its stock: apart from the calls that are, or
\* have stopped or been refused, between the two writes, they hold at least as
\* many units as the rows and the ledger say, and exactly as many if no call
\* has overwritten what another wrote.  A consumption (or a put-back) that is
\* lost leaves units in the layers, never too few; only what a receipt takes
\* out of a quarantine row again by overwriting it may leave too few.
LayersTrackStock ==
    \A v \in Variants :
        LET gained == Units(layers, v) - Units(InitialLayers, v)
            stocked == OnHand(items, RowsOf(v)) - OnHand(InitialItems, RowsOf(v))
                           + ledger[v] - InitialLedger[v]
            ahead == SumFunctionOnSet([r \in Requests |-> InLayers(r, v) - InStock(r, v)], Requests)
            surplus == gained - stocked - ahead
        IN  /\ v \notin stale => surplus = 0
            /\ surplus >= 0 \/ QuarantinedTwice(v)

TotalValue(table) == SumFunctionOnSet([v \in Variants |-> Value(table, v)], Variants)

AtRest == \A r \in Requests \ halted : pc[r] \in {"done", "rejected"}

\* Units whose cost was rounded to whole cents.
Rounded(r) ==
    IF r \in KitCalls /\ pc[r] = "done"
    THEN SumFunctionOnSet(K!Makes(r), Variants) ELSE 0

\* When every call has ended or been rejected before its first write, the value
\* of the layers has changed by what the journal says, up to half a cent for
\* each unit a kit was split into or made of; unless a consumption was lost, or
\* a receipt has scrapped goods, which is booked at the cost of the return and
\* consumed at the cost of the oldest layers, or a kit was split into nothing
\* that is worth anything, whose value is gone from the layers and not booked.
ValueIsBooked ==
    AtRest /\ halted = {} /\ stale = {} /\
    (\A r \in Receipts : pc[r] = "done" => R!Marked(r, "SCRAP") = {}) /\
    (\A r \in KitCalls : pc[r] = "done" /\ ~K!Building(r) => K!Estimate(r) > 0) =>
        LET drift == TotalValue(layers) - TotalValue(InitialLayers) - booked - goods - parts
            bound == SumFunctionOnSet([r \in Requests |-> Rounded(r)], Requests)
        IN  2 * drift <= bound /\ 0 - bound <= 2 * drift

\* The receipts of return n whose goods are in stock.
CameIn(n) ==
    {r \in Receipts :
        call[r].rma = n /\ pc[r] \in {"saveLayers", "saveRecords", "journal", "saveRma", "done"}}

\* A return never counts more as received than came in, and is completed only
\* when all of it came in, although calls that overlap overwrite each other's
\* counts (and a late authorization may even reset them).
CountedCameIn ==
    \A n \in Rmas :
        InitialRmas[n] = NoRma \/
        \A v \in Variants :
            LET came == InitialRmas[n].received[v]
                            + SumFunctionOnSet(
                                  [r \in CameIn(n) |-> R!Amount(R!Lines(r), R!Dispositions, v)],
                                  CameIn(n))
            IN  /\ rmas[n].received[v] <= came
                /\ rmas[n].status = "COMPLETED" => came >= Expected[n][v]

Recorded(table, v) ==
    SumFunctionOnSet([i \in DOMAIN table |-> IF table[i].variant = v THEN table[i].amount ELSE 0],
                     DOMAIN table)

\* What a call has put into quarantine, less what it has recorded there, and
\* what it has taken out, whose record stays.
Unrecorded(r, v) ==
    CASE r \in Receipts /\ pc[r] \in {"saveLayers", "saveRecords"} ->
             R!Amount(R!Lines(r), {"QUARANTINE"}, v)
      [] r \in Resolutions /\ pc[r] \in {"saveRecord", "done"} -> 0 - R!Takes(r)[v]
      [] OTHER -> 0

\* What is in quarantine is what was put there, less what each resolution took
\* out: a record that two calls resolve at once takes its goods out twice, at
\* the expense of the other records, but none of them is lost by accident,
\* unless a receipt overwrites the row.
QuarantineAccounted ==
    \A v \in Variants :
        ~(QuarantinedTwice(v) /\ v \in stale) =>
        OnHand(items, {<<v, "quarantine">>}) - OnHand(InitialItems, {<<v, "quarantine">>})
            = Recorded(quarantine, v) - Recorded(InitialQuarantine, v)
                + SumFunctionOnSet([r \in Requests |-> Unrecorded(r, v)], Requests)
=============================================================================
