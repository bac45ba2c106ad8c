----------------------------- MODULE CostLayers -----------------------------
(***************************************************************************)
(* Cost layers: what was paid for the units of a variant that are still in *)
(* stock.  A layer says how many units came in at which cost and how many  *)
(* of them are consumed.  A service reads the active layers of a variant   *)
(* in the order of a costing method, takes units from the front, and       *)
(* writes back all the layers it has read: there is no version and no      *)
(* transaction, so what others have written since is overwritten.          *)
(*                                                                         *)
(* The table is a sequence in the order of receivedAt.  Amounts are whole  *)
(* cents and whole units; Math.round is exact here, not floating point.    *)
(***************************************************************************)
EXTENDS Integers, Sequences, SequencesExt, FiniteSets, FiniteSetsExt, Functions

CONSTANT Variants

NoExpiry == 1000000   \* Infinity, in days: layers without a lot or a date

CostingMethods == {"FIFO", "LIFO", "FEFO", "WAC"}

\* The constructor refuses empty layers and negative costs.
Layer == [variant : Variants, initial : Nat \ {0}, consumed : Nat, cost : Nat, expiry : Nat]

NewLayer(v, n, cost) ==
    [variant |-> v, initial |-> n, consumed |-> 0, cost |-> cost, expiry |-> NoExpiry]

Remaining(l) == l.initial - l.consumed
RemainingCost(l) == Remaining(l) * l.cost

\* Math.round of n / d for natural numbers.
Round(n, d) == (2 * n + d) \div (2 * d)

-----------------------------------------------------------------------------
\* getActiveLayers: the layers of the variant that are not used up.
Active(table, v) ==
    {i \in DOMAIN table : table[i].variant = v /\ table[i].consumed < table[i].initial}

\* The order of each strategy; sorting is stable, weighted average takes FIFO.
Before(method, table, i, j) ==
    CASE method = "LIFO" -> i > j
      [] method = "FEFO" -> \/ table[i].expiry < table[j].expiry
                            \/ table[i].expiry = table[j].expiry /\ i < j
      [] OTHER           -> i < j

InOrder(method, table, v) ==
    SetToSortSeq(Active(table, v), LAMBDA i, j : Before(method, table, i, j))

Smaller(a, b) == IF a < b THEN a ELSE b

\* The loop of the strategies takes from each layer what it holds until n units
\* are taken: what it takes from layer i, of what the layers before it leave.
Given(method, table, v, n, i) ==
    LET first == {j \in Active(table, v) : Before(method, table, j, i)}
        left == n - SumFunctionOnSet([j \in first |-> Remaining(table[j])], first)
    IN  Smaller(Remaining(table[i]), IF left > 0 THEN left ELSE 0)

Units(table, v) ==
    SumFunctionOnSet([i \in Active(table, v) |-> Remaining(table[i])], Active(table, v))
Value(table, v) ==
    SumFunctionOnSet([i \in Active(table, v) |-> RemainingCost(table[i])], Active(table, v))

\* consumeLayers throws in memory, before anything is saved.
Covers(method, table, v, n) ==
    Units(table, v) >= n /\ (method = "WAC" => Units(table, v) > 0)

\* calculateWeightedAverageCostSync; it throws only if there are no units.
AverageCost(table, v, n) == Round(n * Value(table, v), Units(table, v))

\* What a strategy charges for n units: of each layer what it gives.
Charged(method, table, v, n) ==
    SumFunctionOnSet([i \in Active(table, v) |-> Given(method, table, v, n, i) * table[i].cost],
                     Active(table, v))

\* Mutant of CostOf: the newest layers are charged, the oldest consumed.
CostOfNewest(method, table, v, n) ==
    IF method = "WAC" THEN AverageCost(table, v, n) ELSE Charged("LIFO", table, v, n)

\* What a consumption of n units is charged.
CostOf(method, table, v, n) ==
    IF method = "WAC" THEN AverageCost(table, v, n) ELSE Charged(method, table, v, n)

\* The consumptions of one call, all computed from one reading: takes says how
\* many units of each variant.
CoversAll(table, takes) == \A v \in Variants : Covers("FIFO", table, v, takes[v])

TotalCost(table, takes) ==
    SumFunctionOnSet([v \in Variants |-> CostOf("FIFO", table, v, takes[v])], Variants)

\* The layers after them.
ConsumedAll(table, takes) ==
    [i \in DOMAIN table |->
        LET v == table[i].variant
        IN  IF i \in Active(table, v)
            THEN [table[i] EXCEPT !.consumed = @ + Given("FIFO", table, v, takes[v], i)]
            ELSE table[i]]

\* saveBatch of every active layer of vs that was read: their consumption is
\* set to what the caller computed, whatever it is by now.
Written(now, read, after, vs) ==
    [i \in DOMAIN now |->
        IF i \in DOMAIN read /\ \E v \in vs : i \in Active(read, v)
        THEN [now[i] EXCEPT !.consumed = after[i].consumed]
        ELSE now[i]]
=============================================================================
