-------------------------------- MODULE Kits --------------------------------
(***************************************************************************)
(* Kits: a kit has a recipe of components.  The recipe is edited by reading *)
(* it, changing the copy and writing all of it back.  Assembling a kit     *)
(* checks the ledger, consumes the cost layers of the components, adds a   *)
(* layer for the kits, appends the ledger entries and books the journal;   *)
(* disassembling does the reverse and spreads the cost of the kits over    *)
(* the components by what these cost on average.  Every step is a round    *)
(* trip of its own; nothing is versioned and nothing is undone.  (The sale *)
(* of a kit is in ShopifyOrders.)                                          *)
(***************************************************************************)
EXTENDS CostLayers

CONSTANTS KitVariant,   \* the variant that has the SKU of the kit
          DefaultCost,  \* 1000 cents in the code, for a component without layers
          Requests, Commands,
          MaxCrashes,   \* bound: calls whose process stops
          None

VARIABLES layers, stale,       \* as in Returns
          ledger,              \* sum of the entries of each variant
          kit,                 \* the recipe in the database, or None
          goods, parts,        \* balances of the accounts 1200 and 1210 by kits
          call, pc, halted,
          recipe, read, average  \* what each call has read: the recipe, the layers
                                 \* to consume, the average costs of components

tables == <<layers, stale, ledger, kit, goods, parts>>
memory == <<recipe, read, average>>

Goto(r, at) == pc' = [pc EXCEPT ![r] = at]
Cmd(r) == call[r]

Recipes == [Variants -> Nat]

-----------------------------------------------------------------------------
\* createKit: the row is inserted or overwritten, the components replaced.
CreateKit(r) ==
    /\ pc[r] = "find" /\ Cmd(r).op = "createKit"
    /\ kit' = Cmd(r).recipe
    /\ Goto(r, "done")
    /\ UNCHANGED <<layers, stale, ledger, goods, parts, memory>>

\* addKitComponent adds to the quantity that is there.
AddKitComponent(r) ==
    /\ pc[r] = "find" /\ Cmd(r).op = "addComponent"
    /\ IF kit # None
       THEN /\ recipe' = [recipe EXCEPT ![r] = [kit EXCEPT ![Cmd(r).variant] = @ + Cmd(r).amount]]
            /\ Goto(r, "saveKit")
       ELSE Goto(r, "rejected") /\ UNCHANGED recipe
    /\ UNCHANGED <<tables, read, average>>

RemoveKitComponent(r) ==
    /\ pc[r] = "find" /\ Cmd(r).op = "removeComponent"
    /\ IF kit # None /\ kit[Cmd(r).variant] > 0
       THEN /\ recipe' = [recipe EXCEPT ![r] = [kit EXCEPT ![Cmd(r).variant] = 0]]
            /\ Goto(r, "saveKit")
       ELSE Goto(r, "rejected") /\ UNCHANGED recipe
    /\ UNCHANGED <<tables, read, average>>

\* The components are deleted and inserted again, whatever they are by now.
SaveKit(r) ==
    /\ pc[r] = "saveKit"
    /\ kit' = recipe[r]
    /\ Goto(r, "done")
    /\ UNCHANGED <<layers, stale, ledger, goods, parts, memory>>

-----------------------------------------------------------------------------
Building(r) == Cmd(r).op = "assemble"

FindKit(r) ==
    /\ pc[r] = "find" /\ Cmd(r).op \in {"assemble", "disassemble"}
    /\ recipe' = [recipe EXCEPT ![r] = kit]
    /\ Goto(r, IF kit = None THEN "rejected" ELSE "check")
    /\ UNCHANGED <<tables, read, average>>

Need(r, v) == recipe[r][v] * Cmd(r).amount

\* What the components of so many kits are.
Contents(r) == [v \in Variants |-> Need(r, v)]
Whole(r) == [v \in Variants |-> IF v = KitVariant THEN Cmd(r).amount ELSE 0]

\* What a call takes from the layers, and what it adds to them.
Takes(r) == IF Building(r) THEN Contents(r) ELSE Whole(r)
Makes(r) == IF Building(r) THEN Whole(r) ELSE Contents(r)

TakenVariants(r) == {v \in Variants : Takes(r)[v] > 0}
MadeVariants(r) == {v \in Variants : Makes(r)[v] > 0}

\* The first pass: the ledger must hold what is needed.
CheckLedger(r) ==
    /\ pc[r] = "check"
    /\ Goto(r, IF \A v \in TakenVariants(r) : ledger[v] >= Takes(r)[v]
               THEN "kitLayers" ELSE "rejected")
    /\ UNCHANGED <<tables, memory>>

ReadKitLayers(r) ==
    /\ pc[r] = "kitLayers"
    /\ IF CoversAll(layers, Takes(r))
       THEN read' = [read EXCEPT ![r] = layers] /\ Goto(r, "kitConsume")
       ELSE Goto(r, "rejected") /\ UNCHANGED read
    /\ UNCHANGED <<tables, recipe, average>>

Stale(r, v) ==
    \E i \in Active(read[r], v) : layers[i].consumed # read[r][i].consumed

ConsumeKitLayers(r) ==
    /\ pc[r] = "kitConsume"
    /\ layers' = Written(layers, read[r], ConsumedAll(read[r], Takes(r)), TakenVariants(r))
    /\ stale' = stale \cup {v \in TakenVariants(r) : Stale(r, v)}
    /\ Goto(r, IF Building(r) THEN "newLayers" ELSE "average")
    /\ UNCHANGED <<ledger, kit, goods, parts, memory>>

Cost(r) == TotalCost(read[r], Takes(r))

\* The average cost of a unit of each component, from the layers as they are.
ReadAverages(r) ==
    /\ pc[r] = "average"
    /\ average' = [average EXCEPT ![r] =
           [v \in Variants |-> IF Units(layers, v) > 0 THEN AverageCost(layers, v, 1)
                               ELSE DefaultCost]]
    /\ Goto(r, "newLayers")
    /\ UNCHANGED <<tables, recipe, read>>

Estimate(r) == SumFunctionOnSet([v \in Variants |-> Need(r, v) * average[r][v]], Variants)

\* The unit cost of the layers a call adds, rounded to whole cents.
NewCost(r, v) ==
    CASE Building(r) -> Round(Cost(r), Cmd(r).amount)
      [] ~Building(r) /\ Estimate(r) = 0 -> 0
      [] OTHER -> Round(average[r][v] * Cost(r), Estimate(r))

\* A layer of each variant, inserted at once.
SaveNewLayers(r) ==
    LET vs == SetToSeq(MadeVariants(r))
    IN  /\ pc[r] = "newLayers"
        /\ layers' = layers \o
               [i \in DOMAIN vs |-> NewLayer(vs[i], Makes(r)[vs[i]], NewCost(r, vs[i]))]
        /\ Goto(r, "append")
        /\ UNCHANGED <<stale, ledger, kit, goods, parts, memory>>

AppendEntries(r) ==
    /\ pc[r] = "append"
    /\ ledger' = [v \in Variants |-> ledger[v] + Makes(r)[v] - Takes(r)[v]]
    /\ Goto(r, "kitJournal")
    /\ UNCHANGED <<layers, stale, kit, goods, parts, memory>>

\* A journal line must be positive: kits that cost nothing are refused here,
\* when all but the journal is written.
KitJournal(r) ==
    LET shift == IF Building(r) THEN Cost(r) ELSE 0 - Cost(r)
    IN  /\ pc[r] = "kitJournal"
        /\ goods' = goods + shift
        /\ parts' = parts - shift
        /\ Goto(r, IF Cost(r) > 0 THEN "done" ELSE "refused")
        /\ UNCHANGED <<layers, stale, ledger, kit, memory>>

-----------------------------------------------------------------------------
Execute(r) ==
    \/ CreateKit(r) \/ AddKitComponent(r) \/ RemoveKitComponent(r) \/ SaveKit(r)
    \/ FindKit(r) \/ CheckLedger(r) \/ ReadKitLayers(r) \/ ConsumeKitLayers(r)
    \/ ReadAverages(r) \/ SaveNewLayers(r) \/ AppendEntries(r) \/ KitJournal(r)

Step(r) == r \notin halted /\ Execute(r) /\ UNCHANGED <<call, halted>>

\* The process stops; what the call has written stays.
Crash(r) ==
    /\ pc[r] \in {"saveKit", "kitConsume", "average", "newLayers", "append", "kitJournal"}
    /\ Cardinality(halted) < MaxCrashes
    /\ r \notin halted
    /\ halted' = halted \cup {r}
    /\ UNCHANGED <<tables, call, pc, memory>>
=============================================================================
