--------------------------- MODULE ValuationProofs ---------------------------
(***************************************************************************)
(* Proofs about returns and kits over the cost layers they share.          *)
(*                                                                         *)
(* BaseInvariant: what the calls have in memory agrees with what they are  *)
(* about to do.  A reading of the layers is an earlier table of the same   *)
(* layers, one that covers what the call is about to take; a reading of a  *)
(* stock row has its version, and at the same version its content.         *)
(*                                                                         *)
(* On top of it each table is an account: what was in it, and the sum over *)
(* the calls of what each has done by its stage.  A step moves one call's  *)
(* part and the table by the same amount.  Where calls overwrite each      *)
(* other this is lost; what is left is one-sided, by a peak for each layer *)
(* that no consumption and no reading of it is above.                      *)
(***************************************************************************)
EXTENDS Valuation, CommonTheorems

-----------------------------------------------------------------------------
\* The sums and sequences of Returns and Kits are those of the theorems.
LEMMA SumOfReturns == \A f, S : R!SumFunctionOnSet(f, S) = SumFunctionOnSet(f, S)
BY DEF R!SumFunctionOnSet, SumFunctionOnSet, R!FoldFunctionOnSet, FoldFunctionOnSet,
       R!MapThenFoldSet, MapThenFoldSet

LEMMA SumOfKits == \A f, S : K!SumFunctionOnSet(f, S) = SumFunctionOnSet(f, S)
BY DEF K!SumFunctionOnSet, SumFunctionOnSet, K!FoldFunctionOnSet, FoldFunctionOnSet,
       K!MapThenFoldSet, MapThenFoldSet

LEMMA SeqOfReturns == \A S : R!SetToSeq(S) = SetToSeq(S)
BY DEF R!SetToSeq, SetToSeq, R!Cardinality, Cardinality, R!IsInjective, IsInjective

LEMMA SeqOfKits == \A S : K!SetToSeq(S) = SetToSeq(S)
BY DEF K!SetToSeq, SetToSeq, K!Cardinality, Cardinality, K!IsInjective, IsInjective

\* So are their layers.
LEMMA ActiveIs ==
    \A t, v : R!Active(t, v) = Active(t, v) /\ K!Active(t, v) = Active(t, v)
BY DEF R!Active, K!Active, Active

LEMMA GivenIs ==
    ASSUME NEW t, NEW v, NEW n, NEW i
    PROVE  /\ R!Given("FIFO", t, v, n, i) = Given("FIFO", t, v, n, i)
           /\ K!Given("FIFO", t, v, n, i) = Given("FIFO", t, v, n, i)
BY ActiveIs, SumOfReturns, SumOfKits
   DEF Given, R!Given, K!Given, Before, R!Before, K!Before, Smaller, R!Smaller, K!Smaller,
       Remaining, R!Remaining, K!Remaining

LEMMA UnitsAre ==
    ASSUME NEW t, NEW v
    PROVE  R!Units(t, v) = Units(t, v) /\ K!Units(t, v) = Units(t, v)
BY ActiveIs, SumOfReturns, SumOfKits
   DEF Units, R!Units, K!Units, Remaining, R!Remaining, K!Remaining

LEMMA CoversAre ==
    ASSUME NEW t, NEW takes
    PROVE  /\ R!CoversAll(t, takes) <=> \A v \in Variants : Units(t, v) >= takes[v]
           /\ K!CoversAll(t, takes) <=> \A v \in Variants : Units(t, v) >= takes[v]
BY UnitsAre DEF R!CoversAll, K!CoversAll, R!Covers, K!Covers

LEMMA ConsumedAre ==
    ASSUME NEW t, NEW takes
    PROVE  R!ConsumedAll(t, takes) = ConsumedAll(t, takes) /\ K!ConsumedAll(t, takes) = ConsumedAll(t, takes)
BY ActiveIs, GivenIs DEF R!ConsumedAll, K!ConsumedAll, ConsumedAll

LEMMA WrittenAre ==
    ASSUME NEW now, NEW old, NEW after, NEW vs
    PROVE  R!Written(now, old, after, vs) = Written(now, old, after, vs) /\ K!Written(now, old, after, vs) = Written(now, old, after, vs)
BY ActiveIs DEF R!Written, K!Written, Written

LEMMA ChargesAre ==
    ASSUME NEW t, NEW v, NEW n
    PROVE  /\ R!CostOf("FIFO", t, v, n) = Charged("FIFO", t, v, n)
           /\ K!CostOf("FIFO", t, v, n) = Charged("FIFO", t, v, n)
BY ActiveIs, GivenIs, SumOfReturns, SumOfKits
   DEF R!CostOf, K!CostOf, R!Charged, K!Charged, Charged

LEMMA TotalsAre ==
    ASSUME NEW t, NEW takes
    PROVE  /\ R!TotalCost(t, takes) = SumFunctionOnSet([v \in Variants |-> Charged("FIFO", t, v, takes[v])], Variants)
           /\ K!TotalCost(t, takes) = SumFunctionOnSet([v \in Variants |-> Charged("FIFO", t, v, takes[v])], Variants)
BY ChargesAre, SumOfReturns, SumOfKits DEF R!TotalCost, K!TotalCost

LEMMA ValuesAre ==
    ASSUME NEW t, NEW v, NEW n
    PROVE  K!AverageCost(t, v, n) = Round(n * Value(t, v), Units(t, v))
BY ActiveIs, UnitsAre, SumOfKits
   DEF K!AverageCost, K!Round, Round, K!Value, Value, K!RemainingCost, RemainingCost,
       K!Remaining, Remaining
-----------------------------------------------------------------------------
\* The layers at some time, and at a later one: only their consumption changes.
Table(t) == t \in Seq(Layer) /\ \A i \in DOMAIN t : t[i].consumed <= t[i].initial

Grown(t, now) ==
    /\ DOMAIN t \subseteq DOMAIN now
    /\ \A i \in DOMAIN t : /\ now[i].variant = t[i].variant
                           /\ now[i].initial = t[i].initial /\ now[i].cost = t[i].cost

Stages == {"find", "insert", "saveRma", "load", "layers", "consume", "saveRows", "saveLayers",
           "saveRecords", "journal", "intercept", "shelf", "writeOff", "saveRecord", "saveKit",
           "check", "kitLayers", "kitConsume", "average", "newLayers", "append", "kitJournal",
           "done", "rejected", "refused"}

\* The calls that come to a stage.
Staged(r) ==
    LET op == call[r].op
    IN  /\ pc[r] = "insert" => op = "create"
        /\ pc[r] = "saveRma" => op \in {"receive", "authorize"}
        /\ pc[r] \in {"saveLayers", "saveRecords", "journal"} => op = "receive"
        /\ pc[r] \in {"load", "layers", "consume", "saveRows"} => op \in {"receive", "resolve"}
        /\ pc[r] \in {"intercept", "shelf", "writeOff", "saveRecord"} => op = "resolve"
        /\ op = "resolve" /\ pc[r] \in {"layers", "consume", "writeOff"} =>
               call[r].resolution # "RESTOCK"
        /\ pc[r] = "shelf" => call[r].resolution = "RESTOCK"
        /\ pc[r] = "saveKit" => op \in {"addComponent", "removeComponent"}
        /\ pc[r] \in {"check", "kitLayers", "kitConsume", "newLayers", "append", "kitJournal"} =>
               op \in {"assemble", "disassemble"}
        /\ pc[r] = "average" => op = "disassemble"

\* What a call has in memory.
Remembers(r) ==
    /\ r \in Receipts /\ pc[r] \notin {"find", "rejected"} => copy[r] \in Rma
    /\ pc[r] = "saveRma" => copy[r] \in Rma
    /\ r \in Resolutions /\ pc[r] \notin {"find", "rejected"} => copy[r] \in Record
    /\ r \in KitCalls /\ pc[r] \notin {"find", "rejected"} => recipe[r] \in K!Recipes
    /\ pc[r] = "saveKit" => recipe[r] \in K!Recipes
    /\ Table(read[r]) /\ Grown(read[r], layers)

ValuationTypes ==
    /\ Table(layers) /\ stale \subseteq Variants
    /\ call \in [Requests -> Command] /\ pc \in [Requests -> Stages]
    /\ DOMAIN read = Requests /\ DOMAIN copy = Requests /\ DOMAIN recipe = Requests
    /\ items \in [R!Keys -> Item \cup {NoRow}]
    /\ loaded \in [Requests -> [R!Keys -> Item \cup {NoRow}]]
    /\ rmas \in [Rmas -> Rma \cup {NoRma}]
    /\ quarantine \in Seq(Record)
    /\ booked \in Int /\ goods \in Int /\ parts \in Int
    /\ ledger \in [Variants -> Int]
    /\ kit \in K!Recipes \cup {None}
    /\ average \in [Requests -> [Variants -> Nat]]

TypeInv == ValuationTypes /\ \A r \in Requests : Staged(r) /\ Remembers(r)

-----------------------------------------------------------------------------
\* What came in of a return.
Came(n, v) ==
    InitialRmas[n].received[v]
      + SumFunctionOnSet([r \in CameIn(n) |-> R!Amount(R!Lines(r), R!Dispositions, v)], CameIn(n))

\* A record of return n counts no more than came in, and what its call brings in.
Counts(rma, n, bringing) ==
    /\ \A v \in Variants : rma.received[v] <= Came(n, v) + bringing[v]
    /\ rma.status = "COMPLETED" => rma.received = Expected[n]

Nothing == [v \in Variants |-> 0]
Brought(r) ==
    IF r \in Receipts /\ pc[r] \in {"layers", "consume", "saveRows"}
    THEN [v \in Variants |-> R!Amount(R!Lines(r), R!Dispositions, v)] ELSE Nothing

Counting ==
    \A n \in Rmas :
        InitialRmas[n] # NoRma =>
            /\ rmas[n] \in Rma /\ Counts(rmas[n], n, Nothing)
            /\ \A r \in Requests :
                   /\ call[r].op \in {"receive", "authorize"} /\ call[r].rma = n
                   /\ pc[r] \in {"load", "layers", "consume", "saveRows", "saveLayers",
                                 "saveRecords", "journal", "saveRma"}
                   => Counts(copy[r], n, Brought(r))

-----------------------------------------------------------------------------
\* A call has read a row as it was at some version.
Snapshots ==
    /\ \A r \in Requests, k \in R!Keys :
           loaded[r][k] # NoRow =>
               /\ items[k] # NoRow /\ loaded[r][k].version <= items[k].version
               /\ loaded[r][k].version = items[k].version => loaded[r][k] = items[k]
    /\ \A r \in Resolutions :
           pc[r] \in {"shelf", "layers", "consume", "writeOff", "saveRows"} =>
               LET row == loaded[r][<<copy[r].variant, "quarantine">>]
               IN  row # NoRow /\ row.quantity >= copy[r].amount

Quantity(table, k) == IF table[k] = NoRow THEN 0 ELSE table[k].quantity

\* The calls that have saved their rows, and what they did to them.
Stocked(r) ==
    pc[r] \in {"saveLayers", "saveRecords", "journal", "saveRma", "saveRecord", "done"}

InShelf(r, v) ==
    CASE r \in Receipts /\ Stocked(r) -> R!Amount(R!Lines(r), {"RESTOCK"}, v)
      [] r \in Resolutions /\ Stocked(r) /\ call[r].resolution = "RESTOCK" -> R!Takes(r)[v]
      [] OTHER -> 0

InQuarantine(r, v) ==
    CASE r \in Receipts /\ Stocked(r) -> R!Amount(R!Lines(r), {"QUARANTINE"}, v)
      [] r \in Resolutions /\ Stocked(r) -> 0 - R!Takes(r)[v]
      [] OTHER -> 0

InLedger(r, v) ==
    IF r \in KitCalls /\ pc[r] \in {"kitJournal", "done", "refused"}
    THEN K!Makes(r)[v] - K!Takes(r)[v] ELSE 0

InRecords(r, v) ==
    IF r \in Receipts /\ pc[r] \in {"journal", "saveRma", "done"}
    THEN R!Amount(R!Lines(r), {"QUARANTINE"}, v) ELSE 0

Most(v) ==
    Quantity(InitialItems, <<v, "shelf">>)
      + SumFunctionOnSet([r \in Requests |-> InShelf(r, v)], Requests)

\* No row and no reading of it has more than was ever brought to the shelf.
Shelves ==
    \A v \in Variants :
        /\ Quantity(items, <<v, "shelf">>) <= Most(v)
        /\ \A r \in Requests : Quantity(loaded[r], <<v, "shelf">>) <= Most(v)
        /\ v \notin stale => Quantity(items, <<v, "shelf">>) = Most(v)

Quarantines ==
    \A v \in Variants :
        ~(QuarantinedTwice(v) /\ v \in stale) =>
            Quantity(items, <<v, "quarantine">>)
              = Quantity(InitialItems, <<v, "quarantine">>)
                  + SumFunctionOnSet([r \in Requests |-> InQuarantine(r, v)], Requests)

Ledgers ==
    \A v \in Variants :
        ledger[v] = InitialLedger[v]
                      + SumFunctionOnSet([r \in Requests |-> InLedger(r, v)], Requests)

Records ==
    \A v \in Variants :
        Recorded(quarantine, v) = Recorded(InitialQuarantine, v)
                      + SumFunctionOnSet([r \in Requests |-> InRecords(r, v)], Requests)

-----------------------------------------------------------------------------
\* The layers of a variant, the units they came with and those they have given.
Of(t, v) == {i \in DOMAIN t : t[i].variant = v}
Initials(t, v) == SumFunctionOnSet([i \in DOMAIN t |-> t[i].initial], Of(t, v))
Consumption(t, v) == SumFunctionOnSet([i \in DOMAIN t |-> t[i].consumed], Of(t, v))

AddedBy(r, v) ==
    CASE r \in Receipts /\ pc[r] \in {"saveRecords", "journal", "saveRma", "done"} ->
             R!Amount(R!Lines(r), R!Dispositions, v)
      [] r \in KitCalls /\ pc[r] \in {"append", "kitJournal", "done", "refused"} -> K!Makes(r)[v]
      [] OTHER -> 0

\* The calls that have consumed layers, and what they took.
Drew(r) ==
    \/ r \in Receipts /\ pc[r] \notin {"find", "load", "layers", "consume", "rejected"}
    \/ /\ r \in Resolutions /\ call[r].resolution # "RESTOCK"
       /\ pc[r] \in {"writeOff", "saveRows", "saveRecord", "done", "refused"}
    \/ /\ r \in KitCalls
       /\ pc[r] \in {"average", "newLayers", "append", "kitJournal", "done", "refused"}

Wants(r) == IF r \in KitCalls THEN K!Takes(r) ELSE R!Takes(r)
TakenBy(r, v) == IF Drew(r) THEN Wants(r)[v] ELSE 0

LayersAdded ==
    \A v \in Variants :
        Initials(layers, v) = Initials(InitialLayers, v)
                      + SumFunctionOnSet([r \in Requests |-> AddedBy(r, v)], Requests)

LayersTaken ==
    \A v \in Variants \ stale :
        Consumption(layers, v) = Consumption(InitialLayers, v)
                      + SumFunctionOnSet([r \in Requests |-> TakenBy(r, v)], Requests)

\* Each layer has a peak that neither its consumption nor a reading of it is
\* above; the peaks of a variant add up to what was ever taken of it.
Peaks(peak) ==
    /\ \A i \in DOMAIN layers : layers[i].consumed <= peak[i]
    /\ \A r \in Requests : \A i \in DOMAIN read[r] : read[r][i].consumed <= peak[i]
    /\ \A v \in Variants :
           SumFunctionOnSet(peak, Of(layers, v))
             = Consumption(InitialLayers, v)
                 + SumFunctionOnSet([r \in Requests |-> TakenBy(r, v)], Requests)

LayersPeak == \E peak \in [DOMAIN layers -> Nat] : Peaks(peak)

\* A call that is about to consume has read layers that suffice.
Covered ==
    \A r \in Requests :
        pc[r] \in {"consume", "kitConsume"} =>
            \A v \in Variants : Wants(r)[v] <= Units(read[r], v)

-----------------------------------------------------------------------------
Charge(r) ==
    SumFunctionOnSet([v \in Variants |-> Charged("FIFO", read[r], v, Wants(r)[v])], Variants)
Worth(r, dispositions) == R!CostOfLines(call[r].rma, R!Lines(r), dispositions)

ValueAdded(r) ==
    CASE r \in Receipts /\ pc[r] \in {"saveRecords", "journal", "saveRma", "done"} ->
             Worth(r, R!Dispositions)
      [] r \in KitCalls /\ pc[r] \in {"append", "kitJournal", "done", "refused"} ->
             SumFunctionOnSet([v \in Variants |-> K!Makes(r)[v] * K!NewCost(r, v)], Variants)
      [] OTHER -> 0

ValueTaken(r) == IF Drew(r) THEN Charge(r) ELSE 0

LayersValued ==
    stale = {} =>
        TotalValue(layers) = TotalValue(InitialLayers)
            + SumFunctionOnSet([r \in Requests |-> ValueAdded(r) - ValueTaken(r)], Requests)

BookedBy(r) ==
    CASE r \in Receipts /\ pc[r] \in {"saveRma", "done"} ->
             Worth(r, R!Dispositions) - Worth(r, {"SCRAP"})
      [] r \in Resolutions /\ call[r].resolution # "RESTOCK"
         /\ pc[r] \in {"saveRows", "saveRecord", "done", "refused"} -> 0 - Charge(r)
      [] OTHER -> 0

Accounts ==
    /\ booked = SumFunctionOnSet([r \in Requests |-> BookedBy(r)], Requests)
    /\ goods + parts = 0
-----------------------------------------------------------------------------
\* What clients send.
LEMMA CommandType ==
    ASSUME NEW c \in Command
    PROVE  /\ c.op \in {"create", "authorize", "receive", "resolve", "assemble", "disassemble",
                        "createKit", "addComponent", "removeComponent"}
           /\ c.op \in {"create", "authorize", "receive"} => c.rma \in Rmas
           /\ c.op = "receive" => c.lines \in Seq(R!ReceiptLine) /\ c.lines # <<>>
           /\ c.op = "resolve" =>
                c.record \in Nat /\ c.resolution \in {"RESTOCK", "SCRAP", "RTV"}
           /\ c.op \in {"assemble", "disassemble", "addComponent"} => c.amount \in Nat \ {0}
           /\ c.op = "createKit" => c.recipe \in K!Recipes
           /\ c.op \in {"addComponent", "removeComponent"} => c.variant \in Variants
<1>1. DOMAIN R!Outcome = {"RESTOCK", "SCRAP", "RTV"}
  BY DEF R!Outcome
<1> QED
  BY <1>1 DEF Command

LEMMA IndexSet ==
    ASSUME NEW S, NEW s \in Seq(S)
    PROVE  /\ DOMAIN s = 1..Len(s) /\ Len(s) \in Nat
           /\ IsFiniteSet(DOMAIN s) /\ \A T \in SUBSET DOMAIN s : IsFiniteSet(T)
  <1>1. DOMAIN s = 1..Len(s) /\ Len(s) \in Nat
    OBVIOUS
  <1>2. 1 \in Int /\ Len(s) \in Int
    BY <1>1
  <1>3. IsFiniteSet(DOMAIN s)
    BY <1>1, <1>2, FS_Interval
  <1> QED
    BY <1>1, <1>3, FS_Subset

\* The lines of a receipt, counted.
Counted(lines, ds, v) ==
    [i \in DOMAIN lines |-> IF lines[i].variant = v /\ lines[i].disposition \in ds
                            THEN lines[i].amount ELSE 0]

LEMMA AmountIs ==
    ASSUME NEW lines \in Seq(R!ReceiptLine), NEW ds, NEW v
    PROVE  /\ R!Amount(lines, ds, v) = SumFunctionOnSet(Counted(lines, ds, v), DOMAIN lines)
           /\ Summable(Counted(lines, ds, v), DOMAIN lines)
           /\ \A i \in DOMAIN lines : Counted(lines, ds, v)[i] \in Nat
           /\ R!Amount(lines, ds, v) \in Nat
  <1>1. IsFiniteSet(DOMAIN lines)
    BY IndexSet
  <1>2. \A i \in DOMAIN lines : lines[i] \in R!ReceiptLine
    OBVIOUS
  <1>3. \A i \in DOMAIN lines : Counted(lines, ds, v)[i] \in Nat
    BY <1>2 DEF Counted, R!ReceiptLine
  <1>4. R!Amount(lines, ds, v) = SumFunctionOnSet(Counted(lines, ds, v), DOMAIN lines)
    BY SumOfReturns DEF R!Amount, Counted
  <1> QED
    BY <1>1, <1>3, <1>4, SumNat DEF Summable

\* Lines with different dispositions count apart.
LEMMA AmountSplits ==
    ASSUME NEW lines \in Seq(R!ReceiptLine), NEW ds, NEW es, ds \cap es = {}, NEW v
    PROVE  R!Amount(lines, ds \cup es, v) = R!Amount(lines, ds, v) + R!Amount(lines, es, v)
  <1> DEFINE f == Counted(lines, ds, v)
             g == Counted(lines, es, v)
             h == Counted(lines, ds \cup es, v)
             D == DOMAIN lines
  <1>1. ASSUME NEW i \in D PROVE h[i] = f[i] + g[i]
    <2>1. lines[i] \in R!ReceiptLine
      OBVIOUS
    <2>2. lines[i].amount \in Nat
      BY <2>1 DEF R!ReceiptLine
    <2> QED
      BY <2>2 DEF Counted
  <1>2. /\ Summable(f, D) /\ Summable(g, D)
        /\ R!Amount(lines, ds, v) = SumFunctionOnSet(f, D)
        /\ R!Amount(lines, es, v) = SumFunctionOnSet(g, D)
        /\ R!Amount(lines, ds \cup es, v) = SumFunctionOnSet(h, D)
    BY AmountIs
  <1> HIDE DEF f, g, h, D
  <1> QED
    BY <1>1, <1>2, SumPlus

\* Where no line has the disposition nothing is counted.
LEMMA AmountOfNone ==
    ASSUME NEW lines \in Seq(R!ReceiptLine), NEW ds, NEW v,
           \A i \in DOMAIN lines : ~(lines[i].variant = v /\ lines[i].disposition \in ds)
    PROVE  R!Amount(lines, ds, v) = 0
  <1>1. \A i \in DOMAIN lines : Counted(lines, ds, v)[i] = 0
    BY DEF Counted
  <1> QED
    BY <1>1, AmountIs, SumZero DEF Summable

\* The change of a row is counted, too.
LEMMA ChangesAre ==
    ASSUME NEW lines \in Seq(R!ReceiptLine), NEW k
    PROVE  LET f == [i \in DOMAIN lines |->
                       IF R!Place(lines[i]) # k THEN 0
                       ELSE IF lines[i].disposition = "SCRAP" THEN 2 ELSE 1]
           IN  /\ R!Changes(lines, k) = SumFunctionOnSet(f, DOMAIN lines)
               /\ Summable(f, DOMAIN lines)
               /\ \A i \in DOMAIN lines : f[i] \in 0..2
               /\ R!Changes(lines, k) \in Nat
  <1> DEFINE f == [i \in DOMAIN lines |->
                       IF R!Place(lines[i]) # k THEN 0
                       ELSE IF lines[i].disposition = "SCRAP" THEN 2 ELSE 1]
  <1>1. IsFiniteSet(DOMAIN lines)
    BY IndexSet
  <1>2. \A i \in DOMAIN lines : f[i] \in 0..2 /\ f[i] \in Nat
    OBVIOUS
  <1>3. R!Changes(lines, k) = SumFunctionOnSet(f, DOMAIN lines)
    BY SumOfReturns DEF R!Changes
  <1> QED
    BY <1>1, <1>2, <1>3, SumNat DEF Summable

\* A row changes where a line goes; and where two lines go, by two at least.
LEMMA ChangesCount ==
    ASSUME NEW lines \in Seq(R!ReceiptLine), NEW k
    PROVE  /\ R!Changes(lines, k) = 0 <=> \A i \in DOMAIN lines : R!Place(lines[i]) # k
           /\ R!Changes(lines, k) = 1 =>
                \E i \in DOMAIN lines : \A j \in DOMAIN lines : R!Place(lines[j]) = k <=> j = i
           /\ R!Changes(lines, k) >= 2 =>
                \/ \E i \in DOMAIN lines : R!Place(lines[i]) = k /\ lines[i].disposition = "SCRAP"
                \/ \E i, j \in DOMAIN lines :
                       i # j /\ R!Place(lines[i]) = k /\ R!Place(lines[j]) = k
  <1> DEFINE f == [i \in DOMAIN lines |->
                       IF R!Place(lines[i]) # k THEN 0
                       ELSE IF lines[i].disposition = "SCRAP" THEN 2 ELSE 1]
             D == DOMAIN lines
  <1>1. /\ R!Changes(lines, k) = SumFunctionOnSet(f, D) /\ Summable(f, D)
        /\ \A i \in D : f[i] \in Nat /\ R!Changes(lines, k) \in Nat
    BY ChangesAre
  <1>2. IsFiniteSet(D)
    BY <1>1 DEF Summable
  <1>3. \A i \in D : (f[i] = 0 <=> R!Place(lines[i]) # k)
    OBVIOUS
  <1>4. \A i \in D : f[i] = 1 => R!Place(lines[i]) = k /\ lines[i].disposition # "SCRAP"
    OBVIOUS
  <1>5. \A i \in D : f[i] # 0 /\ lines[i].disposition # "SCRAP" => f[i] = 1
    OBVIOUS
  <1> HIDE DEF f, D
  <1>6. ASSUME NEW i \in D
        PROVE  /\ R!Changes(lines, k) = f[i] + SumFunctionOnSet(f, D \ {i})
               /\ SumFunctionOnSet(f, D \ {i}) \in Nat
               /\ IsFiniteSet(D \ {i}) /\ Summable(f, D \ {i})
    <2>1. IsFiniteSet(D \ {i})
      BY <1>2, FS_Subset
    <2>2. \A x \in D \ {i} : f[x] \in Nat
      BY <1>1
    <2> QED
      BY <1>1, <2>1, <2>2, SumTakeOut, SumNat DEF Summable
  <1>7. ASSUME NEW i \in D, NEW j \in D, i # j
        PROVE  R!Changes(lines, k) >= f[i] + f[j]
    <2>0. Summable(f, D \ {i}) /\ j \in D \ {i}
      BY <1>6, <1>7
    <2>1. SumFunctionOnSet(f, D \ {i}) = f[j] + SumFunctionOnSet(f, (D \ {i}) \ {j})
      BY <2>0, SumTakeOut
    <2>2. SumFunctionOnSet(f, (D \ {i}) \ {j}) \in Nat
      <3>1. IsFiniteSet((D \ {i}) \ {j})
        BY <1>2, FS_Subset
      <3> QED
        BY <1>1, <3>1, SumNat
    <2> QED
      BY <1>1, <1>6, <2>1, <2>2
  <1>8. R!Changes(lines, k) = 0 <=> \A i \in D : R!Place(lines[i]) # k
    <2>1. (\A i \in D : f[i] = 0) => R!Changes(lines, k) = 0
      BY <1>1, <1>2, SumZero
    <2>2. ASSUME NEW i \in D, R!Changes(lines, k) = 0 PROVE f[i] = 0
      <3>1. /\ 0 = f[i] + SumFunctionOnSet(f, D \ {i}) /\ f[i] \in Nat
            /\ SumFunctionOnSet(f, D \ {i}) \in Nat
        BY <1>1, <1>6, <2>2
      <3> QED
        BY <3>1
    <2> QED
      BY <1>3, <2>1, <2>2
  <1>9. ASSUME R!Changes(lines, k) = 1
        PROVE  \E i \in D : \A j \in D : R!Place(lines[j]) = k <=> j = i
    <2>1. PICK i \in D : R!Place(lines[i]) = k
      BY <1>8, <1>9
    <2>2. ASSUME NEW j \in D, j # i PROVE f[j] = 0
      <3>1. 1 >= f[i] + f[j] /\ f[i] # 0 /\ f[i] \in Nat /\ f[j] \in Nat
        BY <1>1, <1>3, <1>7, <1>9, <2>1, <2>2
      <3> QED
        BY <3>1
    <2> QED
      BY <1>3, <2>1, <2>2
  <1>10. ASSUME R!Changes(lines, k) >= 2,
                \A i \in D : R!Place(lines[i]) = k => lines[i].disposition # "SCRAP"
         PROVE  \E i, j \in D : i # j /\ R!Place(lines[i]) = k /\ R!Place(lines[j]) = k
    <2>1. R!Changes(lines, k) # 0
      BY <1>1, <1>10
    <2>2. PICK i \in D : R!Place(lines[i]) = k
      BY <1>8, <2>1
    <2>3. f[i] = 1
      BY <1>3, <1>5, <1>10, <2>2
    <2>4. SumFunctionOnSet(f, D \ {i}) # 0
      BY <1>6, <1>10, <2>3
    <2>5. PICK j \in D \ {i} : f[j] # 0
      BY <1>6, <2>4, SumZero
    <2> QED
      BY <1>3, <2>2, <2>5
  <1> QED
    BY <1>8, <1>9, <1>10 DEF D
-----------------------------------------------------------------------------
\* The calls by what they do.
LEMMA ReceiptFacts ==
    ASSUME TypeInv, NEW r \in Receipts
    PROVE  /\ r \in Requests /\ call[r].op = "receive" /\ call[r].rma \in Rmas
           /\ R!Lines(r) \in Seq(R!ReceiptLine) /\ R!Lines(r) # <<>>
           /\ \A v \in Variants : \A ds : R!Amount(R!Lines(r), ds, v) \in Nat
           /\ R!Takes(r) \in [Variants -> Nat]
           /\ \A v \in Variants : R!Takes(r)[v] = R!Amount(R!Lines(r), {"SCRAP"}, v)
  <1>1. r \in Requests /\ call[r].op = "receive" /\ call[r] \in Command
    BY DEF Receipts, TypeInv, ValuationTypes
  <1>2. call[r].rma \in Rmas /\ R!Lines(r) \in Seq(R!ReceiptLine) /\ R!Lines(r) # <<>>
    BY <1>1, CommandType DEF R!Lines, R!Cmd
  <1>3. \A v \in Variants : \A ds : R!Amount(R!Lines(r), ds, v) \in Nat
    BY <1>2, AmountIs
  <1> QED
    BY <1>1, <1>2, <1>3 DEF R!Takes, R!Cmd

LEMMA ResolutionFacts ==
    ASSUME TypeInv, NEW r \in Resolutions
    PROVE  /\ r \in Requests /\ call[r].op = "resolve"
           /\ call[r].record \in Nat /\ call[r].resolution \in {"RESTOCK", "SCRAP", "RTV"}
           /\ copy[r] \in Record =>
                /\ copy[r].variant \in Variants /\ copy[r].amount \in Nat \ {0}
                /\ R!Takes(r) = [v \in Variants |-> IF v = copy[r].variant THEN copy[r].amount ELSE 0]
                /\ R!Takes(r) \in [Variants -> Nat]
  <1>1. r \in Requests /\ call[r].op = "resolve" /\ call[r] \in Command
    BY DEF Resolutions, TypeInv, ValuationTypes
  <1>2. ASSUME copy[r] \in Record
        PROVE  copy[r].variant \in Variants /\ copy[r].amount \in Nat \ {0}
    BY <1>2 DEF Record
  <1> QED
    BY <1>1, <1>2, CommandType DEF R!Takes, R!Cmd

LEMMA KitFacts ==
    ASSUME TypeInv, NEW r \in KitCalls
    PROVE  /\ r \in Requests /\ call[r].op \in {"assemble", "disassemble"}
           /\ call[r].amount \in Nat \ {0}
           /\ K!Building(r) <=> call[r].op = "assemble"
           /\ recipe[r] \in K!Recipes =>
                /\ \A v \in Variants : K!Need(r, v) \in Nat
                /\ K!Contents(r) \in [Variants -> Nat]
                /\ K!Whole(r) \in [Variants -> Nat]
                /\ K!Takes(r) \in [Variants -> Nat] /\ K!Makes(r) \in [Variants -> Nat]
  <1>1. r \in Requests /\ call[r].op \in {"assemble", "disassemble"} /\ call[r] \in Command
    BY DEF KitCalls, TypeInv, ValuationTypes
  <1>2. call[r].amount \in Nat \ {0}
    BY <1>1, CommandType
  <1>3. ASSUME recipe[r] \in K!Recipes PROVE \A v \in Variants : K!Need(r, v) \in Nat
    <2> SUFFICES ASSUME NEW v \in Variants PROVE K!Need(r, v) \in Nat
      OBVIOUS
    <2>1. recipe[r][v] \in Nat /\ call[r].amount \in Nat
      BY <1>2, <1>3 DEF K!Recipes
    <2>2. recipe[r][v] * call[r].amount \in Nat
      BY <2>1
    <2> QED
      BY <2>2 DEF K!Need, K!Cmd
  <1>4. ASSUME recipe[r] \in K!Recipes
        PROVE  K!Contents(r) \in [Variants -> Nat] /\ K!Whole(r) \in [Variants -> Nat]
    BY <1>2, <1>3, <1>4 DEF K!Contents, K!Whole, K!Cmd
  <1> QED
    BY <1>1, <1>2, <1>3, <1>4 DEF K!Takes, K!Makes, K!Building, K!Cmd

-----------------------------------------------------------------------------
\* Layers of a table.
LEMMA LayerFacts ==
    ASSUME NEW t, Table(t), NEW i \in DOMAIN t
    PROVE  /\ t[i] \in Layer /\ t[i].variant \in Variants
           /\ t[i].initial \in Nat \ {0} /\ t[i].consumed \in Nat /\ t[i].cost \in Nat
           /\ t[i].consumed <= t[i].initial
           /\ Remaining(t[i]) = t[i].initial - t[i].consumed /\ Remaining(t[i]) \in Nat
           /\ i \in Nat \ {0}
  <1>1. t \in Seq(Layer) /\ t[i].consumed <= t[i].initial
    BY DEF Table
  <1>2. t[i] \in Layer /\ i \in Nat \ {0}
    BY <1>1
  <1>3. /\ t[i].variant \in Variants
        /\ t[i].initial \in Nat \ {0} /\ t[i].consumed \in Nat /\ t[i].cost \in Nat
    BY <1>2 DEF Layer
  <1>4. Remaining(t[i]) = t[i].initial - t[i].consumed
    BY DEF Remaining
  <1> QED
    BY <1>1, <1>2, <1>3, <1>4

LEMMA ActiveFacts ==
    ASSUME NEW t, Table(t), NEW v
    PROVE  /\ Active(t, v) \subseteq Of(t, v) /\ Of(t, v) \subseteq DOMAIN t
           /\ IsFiniteSet(DOMAIN t) /\ IsFiniteSet(Of(t, v)) /\ IsFiniteSet(Active(t, v))
           /\ \A i \in Of(t, v) : i \in Active(t, v) <=> t[i].consumed < t[i].initial
           /\ \A i \in Active(t, v) : Remaining(t[i]) \in Nat \ {0}
  <1>1. t \in Seq(Layer)
    BY DEF Table
  <1>2. Active(t, v) \subseteq Of(t, v) /\ Of(t, v) \subseteq DOMAIN t
    BY DEF Active, Of
  <1>3. IsFiniteSet(DOMAIN t) /\ IsFiniteSet(Of(t, v)) /\ IsFiniteSet(Active(t, v))
    BY <1>1, <1>2, IndexSet
  <1>4. ASSUME NEW i \in Active(t, v) PROVE Remaining(t[i]) \in Nat \ {0}
    BY <1>2, LayerFacts DEF Active
  <1> QED
    BY <1>2, <1>3, <1>4 DEF Active, Of

\* The layers before one of them, and what they hold.
Ahead(t, v, i) == {j \in Active(t, v) : j < i}
Holding(t, v) == [j \in Active(t, v) |-> Remaining(t[j])]
Giving(t, v, n) == [j \in Active(t, v) |-> Given("FIFO", t, v, n, j)]

LEMMA GivenFacts ==
    ASSUME NEW t, Table(t), NEW v, NEW n \in Nat, NEW i \in Active(t, v)
    PROVE  LET p == SumFunctionOnSet(Holding(t, v), Ahead(t, v, i))
           IN  /\ p \in Nat
               /\ Given("FIFO", t, v, n, i)
                    = IF n - p <= 0 THEN 0
                      ELSE IF Remaining(t[i]) < n - p THEN Remaining(t[i]) ELSE n - p
               /\ Given("FIFO", t, v, n, i) \in Nat
               /\ Given("FIFO", t, v, n, i) <= Remaining(t[i])
  <1> DEFINE first == {j \in Active(t, v) : Before("FIFO", t, j, i)}
             f == [j \in first |-> Remaining(t[j])]
             p == SumFunctionOnSet(Holding(t, v), Ahead(t, v, i))
             g == Given("FIFO", t, v, n, i)
  <1>1. first = Ahead(t, v, i)
    BY DEF Before, Ahead
  <1>2. IsFiniteSet(Active(t, v)) /\ \A j \in Active(t, v) : Remaining(t[j]) \in Nat \ {0}
    BY ActiveFacts
  <1>3. IsFiniteSet(first) /\ first \subseteq Active(t, v)
    BY <1>2, FS_Subset
  <1>4. \A j \in first : f[j] \in Nat /\ f[j] = Holding(t, v)[j]
    BY <1>2, <1>3 DEF Holding
  <1> HIDE DEF f, first
  <1>5. SumFunctionOnSet(f, first) = SumFunctionOnSet(Holding(t, v), first)
    BY <1>3, <1>4, SumSame DEF Summable
  <1>6. SumFunctionOnSet(f, first) \in Nat
    BY <1>3, <1>4, SumNat
  <1>7. p \in Nat /\ SumFunctionOnSet(f, first) = p
    BY <1>1, <1>5, <1>6
  <1>8. g = Smaller(Remaining(t[i]), IF n - p > 0 THEN n - p ELSE 0)
    BY <1>7 DEF Given, f, first
  <1>9. Remaining(t[i]) \in Nat \ {0}
    BY <1>2
  <1> HIDE DEF p, g
  <1>10. /\ g = IF n - p <= 0 THEN 0 ELSE IF Remaining(t[i]) < n - p THEN Remaining(t[i]) ELSE n - p
         /\ g \in Nat /\ g <= Remaining(t[i])
    BY <1>7, <1>8, <1>9 DEF Smaller
  <1> QED
    BY <1>7, <1>10 DEF p, g

\* The layers before the k-th give what they hold, as far as it is wanted: the
\* least k where this fails would have a layer that gives something else.
LEMMA GivenUpTo ==
    ASSUME NEW t, Table(t), NEW v, NEW n \in Nat, NEW k \in Nat
    PROVE  LET p == SumFunctionOnSet(Holding(t, v), Ahead(t, v, k))
           IN  /\ p \in Nat
               /\ SumFunctionOnSet(Giving(t, v, n), Ahead(t, v, k)) = IF p < n THEN p ELSE n
  <1> DEFINE P(m) == SumFunctionOnSet(Holding(t, v), Ahead(t, v, m))
             G(m) == SumFunctionOnSet(Giving(t, v, n), Ahead(t, v, m))
             Fine(m) == P(m) \in Nat /\ G(m) = IF P(m) < n THEN P(m) ELSE n
             Bad == {m \in Nat : ~Fine(m)}
  <1>1. IsFiniteSet(Active(t, v)) /\ \A j \in Active(t, v) : j \in Nat \ {0}
    BY ActiveFacts, LayerFacts
  <1>2. \A j \in Active(t, v) : /\ Holding(t, v)[j] \in Nat /\ Holding(t, v)[j] = Remaining(t[j])
                                /\ Giving(t, v, n)[j] \in Nat
                                /\ Giving(t, v, n)[j] = Given("FIFO", t, v, n, j)
    BY ActiveFacts, GivenFacts DEF Holding, Giving
  <1>3. Fine(0)
    <2>1. Ahead(t, v, 0) = {}
      BY <1>1 DEF Ahead
    <2> QED
      BY <2>1, SumEmpty
  <1>4. ASSUME NEW m \in Nat, Fine(m) PROVE Fine(m + 1)
    <2>1. CASE m \notin Active(t, v)
      <3>1. Ahead(t, v, m + 1) = Ahead(t, v, m)
        BY <1>1, <2>1 DEF Ahead
      <3> QED
        BY <1>4, <3>1
    <2>2. CASE m \in Active(t, v)
      <3>1. /\ Ahead(t, v, m + 1) = Ahead(t, v, m) \cup {m} /\ m \notin Ahead(t, v, m)
            /\ Ahead(t, v, m) \cup {m} \in SUBSET Active(t, v)
        <4>1. \A j \in Active(t, v) : j < m + 1 <=> j < m \/ j = m
          BY <1>1
        <4>2. ~(m < m)
          OBVIOUS
        <4> QED
          BY <2>2, <4>1, <4>2 DEF Ahead
      <3>2. IsFiniteSet(Ahead(t, v, m) \cup {m})
        BY <1>1, <3>1, FS_Subset
      <3>3. /\ Summable(Holding(t, v), Ahead(t, v, m) \cup {m})
            /\ Summable(Giving(t, v, n), Ahead(t, v, m) \cup {m})
        BY <1>2, <3>1, <3>2 DEF Summable
      <3>4. P(m + 1) = P(m) + Remaining(t[m]) /\ G(m + 1) = G(m) + Given("FIFO", t, v, n, m)
        <4>1. SumFunctionOnSet(Holding(t, v), Ahead(t, v, m) \cup {m})
                = SumFunctionOnSet(Holding(t, v), Ahead(t, v, m)) + Holding(t, v)[m]
          BY <3>1, <3>3, SumAddElement
        <4>2. SumFunctionOnSet(Giving(t, v, n), Ahead(t, v, m) \cup {m})
                = SumFunctionOnSet(Giving(t, v, n), Ahead(t, v, m)) + Giving(t, v, n)[m]
          BY <3>1, <3>3, SumAddElement
        <4> QED
          BY <1>2, <2>2, <3>1, <4>1, <4>2
      <3>5. /\ Remaining(t[m]) \in Nat /\ P(m) \in Nat
            /\ Given("FIFO", t, v, n, m)
                 = IF n - P(m) <= 0 THEN 0
                   ELSE IF Remaining(t[m]) < n - P(m) THEN Remaining(t[m]) ELSE n - P(m)
        BY <1>2, <2>2, GivenFacts
      <3> HIDE DEF P, G
      <3> QED
        BY <1>4, <3>4, <3>5
    <2> QED
      BY <2>1, <2>2
  <1> HIDE DEF Fine
  <1>5. Bad = {}
    <2> SUFFICES ASSUME Bad # {} PROVE FALSE
      OBVIOUS
    <2>1. PICK m \in Bad : \A l \in Bad : m <= l
      BY Least
    <2>2. m # 0
      BY <1>3, <2>1
    <2>3. m - 1 \in Nat /\ ~(m <= m - 1) /\ (m - 1) + 1 = m
      BY <2>2
    <2>4. Fine(m - 1)
      BY <2>1, <2>3
    <2> QED
      BY <1>4, <2>3, <2>4
  <1>6. Fine(k)
    BY <1>5
  <1> QED
    BY <1>6 DEF Fine

\* A consumption that the layers cover takes what is wanted, no more and no less.
THEOREM GivenIsWanted ==
    ASSUME NEW t, Table(t), NEW v, NEW n \in Nat, n <= Units(t, v)
    PROVE  /\ Summable(Giving(t, v, n), Active(t, v))
           /\ SumFunctionOnSet(Giving(t, v, n), Active(t, v)) = n
           /\ \A i \in Active(t, v) : /\ Given("FIFO", t, v, n, i) \in Nat
                                      /\ Given("FIFO", t, v, n, i) <= Remaining(t[i])
                                      /\ Giving(t, v, n)[i] = Given("FIFO", t, v, n, i)
  <1>1. t \in Seq(Layer) /\ DOMAIN t = 1..Len(t) /\ Len(t) \in Nat
    BY IndexSet DEF Table
  <1>2. Ahead(t, v, Len(t) + 1) = Active(t, v)
    BY <1>1, ActiveFacts DEF Ahead
  <1>3. Units(t, v) = SumFunctionOnSet(Holding(t, v), Active(t, v))
    BY DEF Units, Holding
  <1>4. \A i \in Active(t, v) : Giving(t, v, n)[i] = Given("FIFO", t, v, n, i)
    BY DEF Giving
  <1>5. \A i \in Active(t, v) : /\ Given("FIFO", t, v, n, i) \in Nat
                                /\ Given("FIFO", t, v, n, i) <= Remaining(t[i])
    BY GivenFacts
  <1>0. Len(t) + 1 \in Nat
    BY <1>1
  <1>6. /\ Units(t, v) \in Nat
        /\ SumFunctionOnSet(Giving(t, v, n), Active(t, v)) = IF Units(t, v) < n THEN Units(t, v) ELSE n
    <2>1. LET p == SumFunctionOnSet(Holding(t, v), Ahead(t, v, Len(t) + 1))
          IN  /\ p \in Nat
              /\ SumFunctionOnSet(Giving(t, v, n), Ahead(t, v, Len(t) + 1)) = IF p < n THEN p ELSE n
      BY <1>0, GivenUpTo
    <2> QED
      BY <1>2, <1>3, <2>1
  <1>7. Summable(Giving(t, v, n), Active(t, v))
    BY <1>4, <1>5, ActiveFacts DEF Summable
  <1> QED
    BY <1>4, <1>5, <1>6, <1>7
-----------------------------------------------------------------------------
\* What is zero elsewhere is summed where it is not.
LEMMA SumWhere ==
    ASSUME NEW f, NEW S, Summable(f, S), NEW T \in SUBSET S, \A x \in S \ T : f[x] = 0
    PROVE  Summable(f, T) /\ SumFunctionOnSet(f, S) = SumFunctionOnSet(f, T)
  <1> DEFINE U == S \ T
  <1>1. IsFiniteSet(T) /\ IsFiniteSet(U) /\ T \cup U = S /\ T \cap U = {} /\ \A x \in U : f[x] = 0
    BY FS_Subset DEF Summable
  <1> HIDE DEF U
  <1>2. Summable(f, T) /\ Summable(f, U)
    BY <1>1 DEF Summable
  <1>3. SumFunctionOnSet(f, U) = 0
    BY <1>1, SumZero
  <1>4. SumFunctionOnSet(f, T \cup U) = SumFunctionOnSet(f, T) + SumFunctionOnSet(f, U)
    BY <1>1, <1>2, SumUnion
  <1>5. SumFunctionOnSet(f, T) \in Int
    BY <1>2, SumType
  <1> QED
    BY <1>1, <1>2, <1>3, <1>4, <1>5

\* The sum of multiples.
LEMMA SumTimes ==
    ASSUME NEW f, NEW k, NEW S, Summable(f, S), NEW c \in Int, \A x \in S : k[x] = c * f[x]
    PROVE  SumFunctionOnSet(k, S) = c * SumFunctionOnSet(f, S)
  <1> DEFINE F == {s \in SUBSET S : SumFunctionOnSet(k, s) = c * SumFunctionOnSet(f, s)}
  <1>1. \A x \in S : f[x] \in Int
    BY DEF Summable
  <1>2. \A x \in S : k[x] \in Int
    BY <1>1
  <1>3. Summable(k, S)
    BY <1>2 DEF Summable
  <1> HIDE DEF F
  <1>4. {} \in F
    BY SumEmpty DEF F
  <1>5. ASSUME NEW s \in SUBSET S, NEW x \in s, s \ {x} \in F PROVE s \in F
    <2>0. SumFunctionOnSet(f, s) = f[x] + SumFunctionOnSet(f, s \ {x})
      BY SumOfSubset
    <2>1. f[x] \in Int /\ SumFunctionOnSet(f, s \ {x}) \in Int
      BY <1>1, SumOfSubset
    <2>2. SumFunctionOnSet(k, s) = k[x] + SumFunctionOnSet(k, s \ {x})
      BY <1>3, SumOfSubset
    <2>3. k[x] = c * f[x] /\ SumFunctionOnSet(k, s \ {x}) = c * SumFunctionOnSet(f, s \ {x})
      BY <1>5 DEF F
    <2>4. \A p, q \in Int : c * (p + q) = c * p + c * q
      OBVIOUS
    <2>5. SumFunctionOnSet(k, s) = c * SumFunctionOnSet(f, s)
      BY <2>0, <2>1, <2>2, <2>3, <2>4
    <2> QED
      BY <2>5 DEF F
  <1>6. S \in F
    BY <1>4, <1>5, SubsetInduction DEF Summable
  <1> QED
    BY <1>6 DEF F

\* The sum along a bijection.
LEMMA SumAlong ==
    ASSUME NEW S, NEW T, NEW g \in Bijection(S, T), NEW h, NEW k, IsFiniteSet(S),
           \A x \in S : k[x] \in Int /\ h[g[x]] = k[x]
    PROVE  Summable(h, T) /\ SumFunctionOnSet(h, T) = SumFunctionOnSet(k, S)
  <1>1. \A x, y \in S : g[x] = g[y] => x = y
    BY DEF Bijection, Injection, IsInjective
  <1>2. \A r : r \in T <=> \E x \in S : r = g[x]
    BY DEF Bijection, Surjection
  <1> QED
    BY <1>1, <1>2, SumImage

\* What is moved by n places.
Moved(B, n) == {n + j : j \in B}
Follows(h, n, g, B) == \A j \in B : g[j] \in Int /\ h[n + j] = g[j]

LEMMA SumMoved ==
    ASSUME NEW n \in Nat, NEW B \in SUBSET Nat, IsFiniteSet(B), NEW g, NEW h, Follows(h, n, g, B)
    PROVE  Summable(h, Moved(B, n)) /\ SumFunctionOnSet(h, Moved(B, n)) = SumFunctionOnSet(g, B)
  <1> DEFINE to == [j \in B |-> n + j]
             T == Moved(B, n)
  <1>1. to \in Bijection(B, T)
    <2>1. \A i, j \in B : to[i] = to[j] => i = j
      OBVIOUS
    <2>2. to \in [B -> T] /\ \A r \in T : \E j \in B : r = to[j]
      BY DEF Moved
    <2> HIDE DEF to, T
    <2> QED
      BY <2>1, <2>2 DEF Bijection, Injection, Surjection, IsInjective
  <1>2. \A j \in B : g[j] \in Int /\ h[to[j]] = g[j]
    BY DEF Follows
  <1>3. PICK S : S = B
    OBVIOUS
  <1> HIDE DEF to, T
  <1>4. /\ to \in Bijection(S, T) /\ IsFiniteSet(S)
        /\ \A j \in S : g[j] \in Int /\ h[to[j]] = g[j]
    BY <1>1, <1>2, <1>3
  <1> HIDE <1>3
  <1>5. Summable(h, T) /\ SumFunctionOnSet(h, T) = SumFunctionOnSet(g, S)
    BY <1>4, SumAlong
  <1> QED
    BY <1>3, <1>5 DEF T

\* Agreement on the places of one sequence, which another follows.
Agrees(h, f, A) == \A x \in A : h[x] = f[x]
Places(A, B, n) == n \in Nat /\ A \subseteq 1..n /\ B \subseteq Nat \ {0}

\* The sum over one sequence after another.
LEMMA SumAppend ==
    ASSUME NEW n, NEW A, NEW B, Places(A, B, n),
           NEW f, NEW g, NEW h, Summable(f, A), Summable(g, B),
           Agrees(h, f, A), Follows(h, n, g, B)
    PROVE  /\ Summable(h, A \cup Moved(B, n))
           /\ SumFunctionOnSet(h, A \cup Moved(B, n)) = SumFunctionOnSet(f, A) + SumFunctionOnSet(g, B)
  <1>1. IsFiniteSet(B) /\ B \in SUBSET Nat /\ n \in Nat
    BY DEF Summable, Places
  <1>2. Summable(h, Moved(B, n)) /\ SumFunctionOnSet(h, Moved(B, n)) = SumFunctionOnSet(g, B)
    BY <1>1, SumMoved
  <1>3. Summable(h, A) /\ SumFunctionOnSet(h, A) = SumFunctionOnSet(f, A)
    <2>1. Summable(h, A)
      BY DEF Summable, Agrees
    <2> QED
      BY <2>1, SumSame DEF Agrees
  <1>4. A \cap Moved(B, n) = {}
    BY DEF Moved, Places
  <1> QED
    BY <1>2, <1>3, <1>4, SumUnion

-----------------------------------------------------------------------------
\* The sums over a table.
Costs(t) == [i \in DOMAIN t |-> (t[i].initial - t[i].consumed) * t[i].cost]
Came0(t) == [i \in DOMAIN t |-> t[i].initial]
Gave0(t) == [i \in DOMAIN t |-> t[i].consumed]

LEMMA OfFacts ==
    ASSUME NEW t, Table(t), NEW v
    PROVE  /\ \A i \in DOMAIN t : /\ Came0(t)[i] = t[i].initial /\ Came0(t)[i] \in Nat
                                  /\ Gave0(t)[i] = t[i].consumed /\ Gave0(t)[i] \in Nat
                                  /\ Costs(t)[i] = (t[i].initial - t[i].consumed) * t[i].cost
                                  /\ Costs(t)[i] \in Int
           /\ \A S \in SUBSET DOMAIN t :
                  Summable(Came0(t), S) /\ Summable(Gave0(t), S) /\ Summable(Costs(t), S)
           /\ Initials(t, v) = SumFunctionOnSet(Came0(t), Of(t, v)) /\ Initials(t, v) \in Nat
           /\ Consumption(t, v) = SumFunctionOnSet(Gave0(t), Of(t, v)) /\ Consumption(t, v) \in Nat
  <1>1. ASSUME NEW i \in DOMAIN t
        PROVE  /\ Came0(t)[i] = t[i].initial /\ Came0(t)[i] \in Nat
               /\ Gave0(t)[i] = t[i].consumed /\ Gave0(t)[i] \in Nat
               /\ Costs(t)[i] = (t[i].initial - t[i].consumed) * t[i].cost
               /\ Costs(t)[i] \in Int
    <2>1. t[i].initial \in Nat /\ t[i].consumed \in Nat /\ t[i].cost \in Nat
      BY LayerFacts
    <2>2. (t[i].initial - t[i].consumed) * t[i].cost \in Int
      BY <2>1
    <2> QED
      BY <2>1, <2>2 DEF Came0, Gave0, Costs
  <1>2. ASSUME NEW S \in SUBSET DOMAIN t
        PROVE  Summable(Came0(t), S) /\ Summable(Gave0(t), S) /\ Summable(Costs(t), S)
    <2>1. IsFiniteSet(S)
      BY IndexSet DEF Table
    <2> QED
      BY <1>1, <2>1 DEF Summable
  <1>3. IsFiniteSet(Of(t, v)) /\ Of(t, v) \subseteq DOMAIN t
    BY ActiveFacts
  <1>4. /\ Initials(t, v) = SumFunctionOnSet(Came0(t), Of(t, v))
        /\ Consumption(t, v) = SumFunctionOnSet(Gave0(t), Of(t, v))
    BY DEF Initials, Consumption, Came0, Gave0
  <1> QED
    BY <1>1, <1>2, <1>3, <1>4, SumNat

\* The units of a variant are those that came less those that are consumed.
LEMMA UnitsSplit ==
    ASSUME NEW t, Table(t), NEW v
    PROVE  /\ Units(t, v) = Initials(t, v) - Consumption(t, v)
           /\ Units(t, v) \in Int
  <1> DEFINE f == [i \in Of(t, v) |-> Remaining(t[i])]
             g == [i \in Active(t, v) |-> Remaining(t[i])]
             A == Active(t, v)
             S == Of(t, v)
  <1>1. A \subseteq S /\ S \subseteq DOMAIN t /\ IsFiniteSet(S) /\ IsFiniteSet(A)
    BY ActiveFacts
  <1>2. ASSUME NEW i \in S
        PROVE  /\ f[i] \in Nat /\ Came0(t)[i] = f[i] + Gave0(t)[i]
               /\ i \notin A => f[i] = 0
    <2>1. i \in DOMAIN t /\ f[i] = Remaining(t[i]) /\ (i \notin A => ~(t[i].consumed < t[i].initial))
      BY <1>1, ActiveFacts
    <2> QED
      BY <2>1, LayerFacts, OfFacts
  <1>3. \A i \in A : g[i] = f[i]
    BY <1>1
  <1>4. Units(t, v) = SumFunctionOnSet(g, A)
    BY DEF Units
  <1>5. /\ Initials(t, v) = SumFunctionOnSet(Came0(t), S) /\ Initials(t, v) \in Nat
        /\ Consumption(t, v) = SumFunctionOnSet(Gave0(t), S) /\ Consumption(t, v) \in Nat
        /\ Summable(Gave0(t), S)
    BY <1>1, OfFacts
  <1> HIDE DEF f, g, A, S
  <1>6. Summable(f, S)
    BY <1>1, <1>2 DEF Summable
  <1>7. SumFunctionOnSet(Came0(t), S) = SumFunctionOnSet(f, S) + SumFunctionOnSet(Gave0(t), S)
    BY <1>2, <1>5, <1>6, SumPlus
  <1>8. Summable(f, A) /\ SumFunctionOnSet(f, S) = SumFunctionOnSet(f, A)
    BY <1>1, <1>2, <1>6, SumWhere
  <1>9. SumFunctionOnSet(g, A) = SumFunctionOnSet(f, A)
    BY <1>3, <1>8, SumSame
  <1>10. SumFunctionOnSet(f, S) \in Int
    BY <1>6, SumType
  <1> QED
    BY <1>4, <1>5, <1>7, <1>8, <1>9, <1>10

LEMMA ValueSplit ==
    ASSUME NEW t, Table(t), NEW v
    PROVE  Value(t, v) = SumFunctionOnSet(Costs(t), Of(t, v)) /\ Value(t, v) \in Int
  <1> DEFINE g == [i \in Active(t, v) |-> RemainingCost(t[i])]
             A == Active(t, v)
             S == Of(t, v)
  <1>1. A \subseteq S /\ S \subseteq DOMAIN t /\ IsFiniteSet(S) /\ IsFiniteSet(A)
    BY ActiveFacts
  <1>2. \A i \in A : g[i] = Costs(t)[i]
    BY <1>1, OfFacts DEF RemainingCost, Remaining
  <1>3. ASSUME NEW i \in S \ A PROVE Costs(t)[i] = 0
    <2>1. i \in DOMAIN t /\ ~(t[i].consumed < t[i].initial)
      BY <1>1, ActiveFacts
    <2>2. t[i].initial - t[i].consumed = 0 /\ t[i].cost \in Nat
      BY <2>1, LayerFacts
    <2>3. 0 * t[i].cost = 0
      BY <2>2
    <2> QED
      BY <2>1, <2>2, <2>3, OfFacts
  <1>4. Summable(Costs(t), S)
    BY <1>1, OfFacts
  <1>5. Value(t, v) = SumFunctionOnSet(g, A)
    BY DEF Value
  <1> HIDE DEF g, A, S
  <1>6. Summable(Costs(t), A) /\ SumFunctionOnSet(Costs(t), S) = SumFunctionOnSet(Costs(t), A)
    BY <1>1, <1>3, <1>4, SumWhere
  <1>7. SumFunctionOnSet(Costs(t), A) = SumFunctionOnSet(g, A)
    BY <1>2, <1>6, SumSame
  <1> QED
    BY <1>4, <1>5, <1>6, <1>7, SumType DEF S
-----------------------------------------------------------------------------
\* A later table of the same layers, of which more are consumed.
SameLayers(t, w) ==
    /\ DOMAIN w = DOMAIN t
    /\ \A i \in DOMAIN t : /\ w[i].variant = t[i].variant
                           /\ w[i].initial = t[i].initial /\ w[i].cost = t[i].cost

\* What units of the layers of a variant cost.
Priced(t, v, d) == [i \in Of(t, v) |-> d[i] * t[i].cost]

LEMMA MoreConsumed ==
    ASSUME NEW t, Table(t), NEW w, Table(w), SameLayers(t, w), NEW v,
           NEW d, \A i \in Of(t, v) : d[i] \in Nat /\ w[i].consumed = t[i].consumed + d[i]
    PROVE  /\ Of(w, v) = Of(t, v) /\ Initials(w, v) = Initials(t, v)
           /\ Consumption(w, v) = Consumption(t, v) + SumFunctionOnSet(d, Of(t, v))
           /\ Value(w, v) = Value(t, v) - SumFunctionOnSet(Priced(t, v, d), Of(t, v))
           /\ Summable(d, Of(t, v)) /\ Summable(Priced(t, v, d), Of(t, v))
  <1> DEFINE e == Priced(t, v, d)
             S == Of(t, v)
  <1>1. Of(w, v) = S
    BY DEF Of, SameLayers
  <1>2. S \subseteq DOMAIN t /\ S \subseteq DOMAIN w /\ IsFiniteSet(S)
    BY ActiveFacts DEF SameLayers
  <1>3. ASSUME NEW i \in S
        PROVE  /\ Came0(w)[i] = Came0(t)[i] /\ Gave0(w)[i] = Gave0(t)[i] + d[i]
               /\ Costs(t)[i] = Costs(w)[i] + e[i] /\ d[i] \in Nat /\ e[i] \in Nat
    <2>1. /\ Came0(w)[i] = w[i].initial /\ Gave0(w)[i] = w[i].consumed
          /\ Costs(w)[i] = (w[i].initial - w[i].consumed) * w[i].cost
          /\ Came0(t)[i] = t[i].initial /\ Gave0(t)[i] = t[i].consumed
          /\ Costs(t)[i] = (t[i].initial - t[i].consumed) * t[i].cost
      BY <1>2, OfFacts
    <2>2. /\ w[i].initial = t[i].initial /\ w[i].cost = t[i].cost
          /\ t[i].cost \in Nat /\ t[i].initial \in Nat /\ t[i].consumed \in Nat
          /\ d[i] \in Nat /\ w[i].consumed = t[i].consumed + d[i] /\ e[i] = d[i] * t[i].cost
      BY <1>2, LayerFacts DEF SameLayers, Priced
    <2>3. \A p, q, x, c \in Nat : /\ (p - q) * c = (p - (q + x)) * c + x * c
                                  /\ x * c \in Nat
      OBVIOUS
    <2>4. /\ (t[i].initial - t[i].consumed) * t[i].cost
               = (t[i].initial - (t[i].consumed + d[i])) * t[i].cost + d[i] * t[i].cost
          /\ d[i] * t[i].cost \in Nat
      BY <2>2, <2>3
    <2> QED
      BY <2>1, <2>2, <2>4
  <1>4. /\ Summable(Came0(t), S) /\ Summable(Gave0(t), S) /\ Summable(Costs(t), S)
        /\ Summable(Came0(w), S) /\ Summable(Gave0(w), S) /\ Summable(Costs(w), S)
        /\ Initials(t, v) = SumFunctionOnSet(Came0(t), S)
        /\ Initials(w, v) = SumFunctionOnSet(Came0(w), S)
        /\ Consumption(t, v) = SumFunctionOnSet(Gave0(t), S)
        /\ Consumption(w, v) = SumFunctionOnSet(Gave0(w), S)
    BY <1>1, <1>2, OfFacts
  <1>5. /\ Value(t, v) = SumFunctionOnSet(Costs(t), S)
        /\ Value(w, v) = SumFunctionOnSet(Costs(w), S)
    BY <1>1, ValueSplit
  <1> HIDE DEF e, S
  <1>6. Summable(d, S) /\ Summable(e, S)
    BY <1>2, <1>3 DEF Summable
  <1>7. Initials(w, v) = Initials(t, v)
    BY <1>3, <1>4, SumSame
  <1>8. SumFunctionOnSet(Gave0(w), S) = SumFunctionOnSet(Gave0(t), S) + SumFunctionOnSet(d, S)
    BY <1>3, <1>4, <1>6, SumPlus
  <1>9. SumFunctionOnSet(Costs(t), S) = SumFunctionOnSet(Costs(w), S) + SumFunctionOnSet(e, S)
    BY <1>3, <1>4, <1>6, SumPlus
  <1>10. SumFunctionOnSet(Costs(w), S) \in Int /\ SumFunctionOnSet(e, S) \in Int
    BY <1>4, <1>6, SumType
  <1>11. Value(w, v) = Value(t, v) - SumFunctionOnSet(e, S)
    BY <1>5, <1>9, <1>10
  <1> QED
    BY <1>1, <1>4, <1>6, <1>7, <1>8, <1>11 DEF e, S

\* What the layers of a variant that were read give.
Gives(t, old, v, n) ==
    [i \in Of(t, v) |-> IF i \in Active(old, v) THEN Given("FIFO", old, v, n, i) ELSE 0]

LEMMA GivesFacts ==
    ASSUME NEW t, Table(t), NEW old, Table(old), Grown(old, t), NEW v, NEW n \in Nat,
           n <= Units(old, v)
    PROVE  /\ Active(old, v) \subseteq Of(t, v) /\ Active(old, v) \subseteq DOMAIN old
           /\ \A i \in Of(t, v) : /\ Gives(t, old, v, n)[i] \in Nat
                                  /\ n = 0 => Gives(t, old, v, n)[i] = 0
           /\ \A i \in Active(old, v) : /\ Gives(t, old, v, n)[i] = Given("FIFO", old, v, n, i)
                                        /\ Gives(t, old, v, n)[i] <= Remaining(old[i])
           /\ \A i \in Of(t, v) \ Active(old, v) : Gives(t, old, v, n)[i] = 0
           /\ SumFunctionOnSet(Gives(t, old, v, n), Of(t, v)) = n
           /\ SumFunctionOnSet(Priced(t, v, Gives(t, old, v, n)), Of(t, v))
                = Charged("FIFO", old, v, n)
  <1> DEFINE d == Gives(t, old, v, n)
             e == Priced(t, v, d)
             S == Of(t, v)
             A == Active(old, v)
             c == [i \in A |-> Given("FIFO", old, v, n, i) * old[i].cost]
  <1>1. A \subseteq DOMAIN old /\ IsFiniteSet(A) /\ IsFiniteSet(S) /\ S \subseteq DOMAIN t
    BY ActiveFacts
  <1>2. A \subseteq S /\ \A i \in A : t[i].cost = old[i].cost
    BY <1>1 DEF Grown, Of, Active
  <1>3. /\ Summable(Giving(old, v, n), A) /\ SumFunctionOnSet(Giving(old, v, n), A) = n
        /\ \A i \in A : /\ Given("FIFO", old, v, n, i) \in Nat
                        /\ Given("FIFO", old, v, n, i) <= Remaining(old[i])
                        /\ Giving(old, v, n)[i] = Given("FIFO", old, v, n, i)
    BY GivenIsWanted
  <1>4. \A i \in S : d[i] = IF i \in A THEN Given("FIFO", old, v, n, i) ELSE 0
    BY DEF Gives
  <1>5. ASSUME n = 0, NEW i \in A PROVE Given("FIFO", old, v, n, i) = 0
    <2>1. LET p == SumFunctionOnSet(Holding(old, v), Ahead(old, v, i))
          IN  p \in Nat /\ Given("FIFO", old, v, n, i)
                    = IF n - p <= 0 THEN 0
                      ELSE IF Remaining(old[i]) < n - p THEN Remaining(old[i]) ELSE n - p
      BY GivenFacts
    <2> QED
      BY <1>5, <2>1
  <1>6. \A i \in A : d[i] = Giving(old, v, n)[i]
    BY <1>2, <1>3, <1>4
  <1>7. \A i \in S : d[i] \in Nat /\ (n = 0 => d[i] = 0)
    BY <1>3, <1>4, <1>5
  <1>8. ASSUME NEW i \in S PROVE e[i] \in Nat /\ (i \notin A => e[i] = 0)
    <2>1. e[i] = d[i] * t[i].cost /\ d[i] \in Nat /\ t[i].cost \in Nat
      BY <1>1, <1>7, LayerFacts DEF Priced
    <2>2. \A p, q \in Nat : p * q \in Nat /\ 0 * q = 0
      OBVIOUS
    <2> QED
      BY <1>4, <2>1, <2>2
  <1>9. \A i \in A : e[i] = c[i]
    BY <1>2, <1>4 DEF Priced
  <1>10. Charged("FIFO", old, v, n) = SumFunctionOnSet(c, A)
    BY DEF Charged
  <1> HIDE DEF d, e, S, A, c
  <1>11. Summable(d, S) /\ Summable(e, S)
    BY <1>1, <1>7, <1>8 DEF Summable
  <1>12. Summable(d, A) /\ SumFunctionOnSet(d, S) = SumFunctionOnSet(d, A)
    <2>1. \A i \in S \ A : d[i] = 0
      BY <1>4
    <2> QED
      BY <1>2, <1>11, <2>1, SumWhere
  <1>13. SumFunctionOnSet(d, A) = SumFunctionOnSet(Giving(old, v, n), A)
    BY <1>6, <1>12, SumSame
  <1>14. Summable(e, A) /\ SumFunctionOnSet(e, S) = SumFunctionOnSet(e, A)
    BY <1>2, <1>8, <1>11, SumWhere
  <1>15. SumFunctionOnSet(e, A) = SumFunctionOnSet(c, A)
    BY <1>9, <1>14, SumSame
  <1>16. \A i \in A : d[i] = Given("FIFO", old, v, n, i) /\ d[i] <= Remaining(old[i])
    BY <1>2, <1>3, <1>4
  <1>17. \A i \in S \ A : d[i] = 0
    BY <1>4
  <1>18. SumFunctionOnSet(d, S) = n
    BY <1>3, <1>12, <1>13
  <1>19. SumFunctionOnSet(e, S) = Charged("FIFO", old, v, n)
    BY <1>10, <1>14, <1>15
  <1> QED
    BY <1>1, <1>2, <1>7, <1>16, <1>17, <1>18, <1>19 DEF d, e, S, A

\* The table after a consumption that was computed from an earlier one.
Consumed(t, old, takes) ==
    Written(t, old, ConsumedAll(old, takes), {v \in Variants : takes[v] > 0})

Enough(old, takes) == takes \in [Variants -> Nat] /\ \A v \in Variants : takes[v] <= Units(old, v)

LEMMA WrittenFacts ==
    ASSUME NEW t, Table(t), NEW old, Table(old), Grown(old, t), NEW takes, Enough(old, takes)
    PROVE  /\ Table(Consumed(t, old, takes)) /\ SameLayers(t, Consumed(t, old, takes))
           /\ \A v \in Variants : \A i \in Of(t, v) :
                  Consumed(t, old, takes)[i].consumed
                    = IF i \in Active(old, v) /\ takes[v] > 0
                      THEN old[i].consumed + Gives(t, old, v, takes[v])[i] ELSE t[i].consumed
  <1> DEFINE w == Consumed(t, old, takes)
             vs == {v \in Variants : takes[v] > 0}
             after == ConsumedAll(old, takes)
             Changed(i) == i \in DOMAIN old /\ \E v \in vs : i \in Active(old, v)
  <1>1. /\ t \in Seq(Layer) /\ old \in Seq(Layer) /\ DOMAIN w = DOMAIN t
        /\ DOMAIN old \subseteq DOMAIN t /\ DOMAIN after = DOMAIN old
    BY DEF Table, Grown, Consumed, Written, ConsumedAll
  <1>2. \A i \in DOMAIN t : w[i] = IF Changed(i) THEN [t[i] EXCEPT !.consumed = after[i].consumed]
                                   ELSE t[i]
    BY DEF Consumed, Written
  <1>3. ASSUME NEW v \in Variants, NEW i \in Of(t, v)
        PROVE  /\ i \in DOMAIN t
               /\ Changed(i) <=> i \in Active(old, v) /\ takes[v] > 0
               /\ Changed(i) => /\ after[i].consumed = old[i].consumed + Gives(t, old, v, takes[v])[i]
                                /\ after[i].consumed \in Nat /\ after[i].consumed <= t[i].initial
    <2>1. i \in DOMAIN t /\ t[i].variant = v
      BY DEF Of
    <2>2. i \in DOMAIN old => old[i].variant = v /\ old[i].initial = t[i].initial
      BY <2>1 DEF Grown
    <2>3. Changed(i) <=> i \in Active(old, v) /\ takes[v] > 0
      BY <2>2 DEF Active
    <2>4. ASSUME Changed(i)
          PROVE  /\ after[i].consumed = old[i].consumed + Gives(t, old, v, takes[v])[i]
                 /\ after[i].consumed \in Nat /\ after[i].consumed <= t[i].initial
      <3>1. i \in DOMAIN old /\ i \in Active(old, v)
        BY <2>3, <2>4
      <3>2. /\ old[i] \in Layer /\ old[i].consumed \in Nat /\ old[i].initial \in Nat
            /\ Remaining(old[i]) = old[i].initial - old[i].consumed
        BY <3>1, LayerFacts
      <3>3. takes[v] \in Nat /\ takes[v] <= Units(old, v)
        BY DEF Enough
      <3>4. /\ Gives(t, old, v, takes[v])[i] = Given("FIFO", old, v, takes[v], i)
            /\ Gives(t, old, v, takes[v])[i] <= Remaining(old[i])
            /\ Gives(t, old, v, takes[v])[i] \in Nat
        BY <3>1, <3>3, GivesFacts
      <3>5. after[i] = [old[i] EXCEPT !.consumed = @ + Given("FIFO", old, v, takes[v], i)]
        BY <2>2, <3>1 DEF ConsumedAll
      <3>6. after[i].consumed = old[i].consumed + Given("FIFO", old, v, takes[v], i)
        BY <3>2, <3>5 DEF Layer
      <3> QED
        BY <2>2, <3>1, <3>2, <3>4, <3>6
    <2> QED
      BY <2>1, <2>3, <2>4
  <1> HIDE DEF w, after, vs, Changed
  <1>4. ASSUME NEW i \in DOMAIN t
        PROVE  /\ w[i] \in Layer /\ w[i].consumed <= w[i].initial
               /\ w[i].variant = t[i].variant /\ w[i].initial = t[i].initial
               /\ w[i].cost = t[i].cost
               /\ w[i].consumed = IF Changed(i) THEN after[i].consumed ELSE t[i].consumed
    <2>1. t[i] \in Layer /\ t[i].consumed <= t[i].initial /\ t[i].variant \in Variants
      BY LayerFacts
    <2>2. i \in Of(t, t[i].variant)
      BY DEF Of
    <2>3. Changed(i) => after[i].consumed \in Nat /\ after[i].consumed <= t[i].initial
      BY <1>3, <2>1, <2>2
    <2>4. CASE Changed(i)
      <3>1. w[i] = [t[i] EXCEPT !.consumed = after[i].consumed]
        BY <1>2, <2>4
      <3> QED
        BY <2>1, <2>3, <2>4, <3>1 DEF Layer
    <2>5. CASE ~Changed(i)
      BY <1>2, <2>1, <2>5
    <2> QED
      BY <2>4, <2>5
  <1>5. w \in Seq(Layer)
    <2>1. DOMAIN t = 1..Len(t) /\ Len(t) \in Nat
      BY <1>1
    <2>2. w = [i \in 1..Len(t) |-> w[i]]
      BY <1>1, <2>1 DEF w, Consumed, Written
    <2>3. \A i \in 1..Len(t) : w[i] \in Layer
      BY <1>4, <2>1
    <2> QED
      BY <2>1, <2>2, <2>3
  <1>6. Table(w) /\ SameLayers(t, w)
    BY <1>1, <1>4, <1>5 DEF Table, SameLayers
  <1>7. ASSUME NEW v \in Variants, NEW i \in Of(t, v)
        PROVE  w[i].consumed = IF i \in Active(old, v) /\ takes[v] > 0
                               THEN old[i].consumed + Gives(t, old, v, takes[v])[i] ELSE t[i].consumed
    <2>1. /\ i \in DOMAIN t
          /\ Changed(i) <=> i \in Active(old, v) /\ takes[v] > 0
          /\ Changed(i) => after[i].consumed = old[i].consumed + Gives(t, old, v, takes[v])[i]
      <3>1. i \in DOMAIN t
        BY <1>3
      <3>2. Changed(i) <=> i \in Active(old, v) /\ takes[v] > 0
        BY <1>3
      <3>3. Changed(i) => after[i].consumed = old[i].consumed + Gives(t, old, v, takes[v])[i]
        BY <1>3
      <3> QED
        BY <3>1, <3>2, <3>3
    <2>2. w[i].consumed = IF Changed(i) THEN after[i].consumed ELSE t[i].consumed
      BY <1>4, <2>1
    <2> QED
      BY <2>1, <2>2
  <1> QED
    BY <1>6, <1>7 DEF w

\* What a consumption takes of a variant whose layers nobody has touched.
LEMMA FreshTaken ==
    ASSUME NEW t, Table(t), NEW old, Table(old), Grown(old, t), NEW takes, Enough(old, takes),
           NEW v \in Variants,
           takes[v] > 0 => \A i \in Active(old, v) : t[i].consumed = old[i].consumed
    PROVE  /\ Consumption(Consumed(t, old, takes), v) = Consumption(t, v) + takes[v]
           /\ Value(Consumed(t, old, takes), v) = Value(t, v) - Charged("FIFO", old, v, takes[v])
           /\ Charged("FIFO", old, v, takes[v]) \in Int
  <1> DEFINE w == Consumed(t, old, takes)
             d == Gives(t, old, v, takes[v])
             e == Priced(t, v, d)
  <1>1. takes[v] \in Nat /\ takes[v] <= Units(old, v)
    BY DEF Enough
  <1>2. Table(w) /\ SameLayers(t, w)
    BY WrittenFacts
  <1>3. /\ Active(old, v) \subseteq Of(t, v)
        /\ \A i \in Of(t, v) : d[i] \in Nat /\ (takes[v] = 0 => d[i] = 0)
        /\ \A i \in Of(t, v) \ Active(old, v) : d[i] = 0
        /\ SumFunctionOnSet(d, Of(t, v)) = takes[v]
        /\ SumFunctionOnSet(e, Of(t, v)) = Charged("FIFO", old, v, takes[v])
    BY <1>1, GivesFacts
  <1>4. ASSUME NEW i \in Of(t, v) PROVE d[i] \in Nat /\ w[i].consumed = t[i].consumed + d[i]
    <2>1. w[i].consumed = IF i \in Active(old, v) /\ takes[v] > 0
                          THEN old[i].consumed + d[i] ELSE t[i].consumed
      BY WrittenFacts
    <2>2. t[i].consumed \in Nat
      BY ActiveFacts, LayerFacts
    <2> HIDE DEF d, w
    <2>3. takes[v] > 0 \/ takes[v] = 0
      BY <1>1
    <2> QED
      BY <1>3, <2>1, <2>2, <2>3
  <1> HIDE DEF d, w
  <1>5. /\ Consumption(w, v) = Consumption(t, v) + SumFunctionOnSet(d, Of(t, v))
        /\ Value(w, v) = Value(t, v) - SumFunctionOnSet(e, Of(t, v))
        /\ Summable(e, Of(t, v))
    BY <1>2, <1>4, MoreConsumed
  <1> QED
    BY <1>3, <1>5, SumType DEF w
-----------------------------------------------------------------------------
\* A finite set as a sequence has its elements once each, and all of them.
LEMMA ListedOnce ==
    ASSUME NEW S, IsFiniteSet(S)
    PROVE  /\ SetToSeq(S) \in Seq(S)
           /\ SetToSeq(S) \in Bijection(DOMAIN SetToSeq(S), S)
           /\ \A i \in DOMAIN SetToSeq(S) : SetToSeq(S)[i] \in S
           /\ \A i, j \in DOMAIN SetToSeq(S) : SetToSeq(S)[i] = SetToSeq(S)[j] => i = j
           /\ \A x \in S : \E i \in DOMAIN SetToSeq(S) : SetToSeq(S)[i] = x
  <1> DEFINE n == Cardinality(S)
             s == SetToSeq(S)
  <1>1. n \in Nat /\ ExistsBijection(1..n, S)
    BY FS_CardinalityType
  <1>2. PICK f \in [1..n -> S] : IsInjective(f)
    BY <1>1 DEF ExistsBijection, Bijection, Injection
  <1>3. s = CHOOSE g \in [1..n -> S] : IsInjective(g)
    BY DEF SetToSeq
  <1>4. IsFiniteSet(1..n) /\ Cardinality(1..n) = n
    <2>1. 1 \in Int /\ n \in Int
      BY <1>1
    <2>2. IsFiniteSet(1..n) /\ Cardinality(1..n) = IF 1 > n THEN 0 ELSE n - 1 + 1
      BY <2>1, FS_Interval
    <2> QED
      BY <1>1, <2>2
  <1> HIDE DEF s
  <1>5. s \in [1..n -> S] /\ IsInjective(s)
    <2> HIDE DEF n
    <2> QED
      BY <1>2, <1>3
  <1>6. s \in Injection(1..n, S)
    BY <1>5 DEF Injection
  <1>7. s \in Surjection(1..n, S)
    BY <1>4, <1>6, FS_Injection
  <1> HIDE DEF n
  <1>8. DOMAIN s = 1..n /\ s \in Seq(S)
    BY <1>1, <1>5
  <1>9. s \in Bijection(DOMAIN s, S)
    BY <1>6, <1>7, <1>8 DEF Bijection
  <1>10. /\ \A i \in DOMAIN s : s[i] \in S
         /\ \A i, j \in DOMAIN s : s[i] = s[j] => i = j
         /\ \A x \in S : \E i \in DOMAIN s : s[i] = x
    BY <1>5, <1>7, <1>8 DEF IsInjective, Surjection
  <1> QED
    BY <1>8, <1>9, <1>10 DEF s

\* Layers are added to a table.
Fresh(new) == new \in Seq(Layer) /\ \A j \in DOMAIN new : new[j].consumed = 0

LEMMA AppendFacts ==
    ASSUME NEW t, Table(t), NEW new, Fresh(new), NEW v
    PROVE  /\ Table(t \o new) /\ Grown(t, t \o new)
           /\ DOMAIN t \subseteq DOMAIN (t \o new)
           /\ \A i \in DOMAIN t : (t \o new)[i] = t[i]
           /\ \A i \in DOMAIN (t \o new) \ DOMAIN t : (t \o new)[i].consumed = 0
           /\ Initials(t \o new, v) = Initials(t, v) + Initials(new, v)
           /\ Consumption(t \o new, v) = Consumption(t, v)
           /\ Value(t \o new, v) = Value(t, v) + Value(new, v)
           /\ Of(t, v) \subseteq Of(t \o new, v) /\ Of(t \o new, v) \cap DOMAIN t = Of(t, v)
  <1> DEFINE w == t \o new
             len == Len(t)
  <1>1. /\ t \in Seq(Layer) /\ len \in Nat /\ DOMAIN t = 1..len
        /\ Len(new) \in Nat /\ DOMAIN new = 1..Len(new) /\ new \in Seq(Layer)
    BY DEF Table, Fresh
  <1>2. /\ w \in Seq(Layer) /\ DOMAIN w = 1..(len + Len(new))
        /\ \A i \in 1..len : w[i] = t[i]
        /\ \A i \in (len + 1)..(len + Len(new)) : w[i] = new[i - len] /\ i - len \in DOMAIN new
        /\ \A j \in DOMAIN new : w[len + j] = new[j] /\ len + j \in DOMAIN w
    BY <1>1
  <1> HIDE DEF w, len
  <1>3. \A j \in DOMAIN new : /\ new[j] \in Layer /\ new[j].initial \in Nat
                              /\ new[j].consumed = 0
    <2>1. \A j \in DOMAIN new : new[j] \in Layer
      BY <1>1
    <2> QED
      BY <2>1 DEF Layer, Fresh
  <1>4. Table(new)
    BY <1>3 DEF Table, Fresh
  <1>5. \A i \in DOMAIN w : i \in 1..len \/ i \in (len + 1)..(len + Len(new))
    BY <1>1, <1>2
  <1>6. Table(w)
    <2>1. ASSUME NEW i \in DOMAIN w PROVE w[i].consumed <= w[i].initial
      <3>1. CASE i \in 1..len
        BY <1>1, <1>2, <3>1 DEF Table
      <3>2. CASE i \in (len + 1)..(len + Len(new))
        <4>1. w[i] = new[i - len] /\ i - len \in DOMAIN new
          BY <1>2, <3>2
        <4> QED
          BY <1>3, <4>1
      <3> QED
        BY <1>5, <3>1, <3>2
    <2> QED
      BY <1>2, <2>1 DEF Table
  <1>7. DOMAIN t \subseteq DOMAIN w /\ \A i \in DOMAIN t : w[i] = t[i]
    BY <1>1, <1>2
  <1>8. Grown(t, w)
    BY <1>7 DEF Grown
  <1>9. ASSUME NEW i \in DOMAIN w \ DOMAIN t PROVE w[i].consumed = 0
    <2>1. i \in (len + 1)..(len + Len(new))
      BY <1>1, <1>5
    <2>2. w[i] = new[i - len] /\ i - len \in DOMAIN new
      BY <1>2, <2>1
    <2> QED
      BY <1>3, <2>2
  <1> DEFINE P == Of(t, v)
             Q == Of(new, v)
             W == Of(w, v)
  <1>10. P \in SUBSET (1..len) /\ Q \in SUBSET (Nat \ {0}) /\ Q \subseteq DOMAIN new
    BY <1>1 DEF Of
  <1>11. W = P \cup Moved(Q, len)
    <2>1. \A i \in Moved(Q, len) : i \in W
      BY <1>2 DEF Of, Moved
    <2>2. P \subseteq W
      BY <1>1, <1>2, <1>7 DEF Of
    <2>3. ASSUME NEW i \in W PROVE i \in P \/ i \in Moved(Q, len)
      <3>1. i \in DOMAIN w /\ w[i].variant = v
        BY DEF Of
      <3>2. CASE i \in 1..len
        BY <1>1, <1>2, <3>1, <3>2 DEF Of
      <3>3. CASE i \in (len + 1)..(len + Len(new))
        <4>1. i - len \in Q
          BY <1>2, <3>1, <3>3 DEF Of
        <4>2. i = len + (i - len)
          BY <1>1, <3>3
        <4> QED
          BY <4>1, <4>2 DEF Moved
      <3> QED
        BY <1>5, <3>1, <3>2, <3>3
    <2> QED
      BY <2>1, <2>2, <2>3
  <1>12. /\ \A i \in P : Came0(w)[i] = Came0(t)[i]
         /\ \A i \in P : Gave0(w)[i] = Gave0(t)[i]
         /\ \A i \in P : Costs(w)[i] = Costs(t)[i]
         /\ Follows(Came0(w), len, Came0(new), Q) /\ Follows(Costs(w), len, Costs(new), Q)
         /\ Follows(Gave0(w), len, Gave0(new), Q) /\ \A j \in Q : Gave0(new)[j] = 0
    <2>1. ASSUME NEW i \in P
          PROVE  /\ Came0(w)[i] = Came0(t)[i] /\ Gave0(w)[i] = Gave0(t)[i]
                 /\ Costs(w)[i] = Costs(t)[i]
      <3>1. i \in DOMAIN t /\ i \in DOMAIN w /\ w[i] = t[i]
        BY <1>1, <1>7, <1>10
      <3> QED
        BY <3>1 DEF Came0, Gave0, Costs
    <2>2. ASSUME NEW j \in Q
          PROVE  /\ Came0(w)[len + j] = Came0(new)[j] /\ Came0(new)[j] \in Int
                 /\ Costs(w)[len + j] = Costs(new)[j] /\ Costs(new)[j] \in Int
                 /\ Gave0(w)[len + j] = Gave0(new)[j] /\ Gave0(new)[j] = 0
      <3>1. j \in DOMAIN new /\ len + j \in DOMAIN w /\ w[len + j] = new[j] /\ new[j].consumed = 0
        BY <1>2, <1>3, <1>10
      <3>2. Came0(new)[j] \in Int /\ Costs(new)[j] \in Int /\ Gave0(new)[j] = new[j].consumed
        BY <1>4, <3>1, OfFacts
      <3> QED
        BY <3>1, <3>2 DEF Came0, Gave0, Costs
    <2> QED
      BY <2>1, <2>2 DEF Follows
  <1>13. /\ Summable(Came0(t), P) /\ Summable(Gave0(t), P) /\ Summable(Costs(t), P)
         /\ Summable(Came0(new), Q) /\ Summable(Gave0(new), Q) /\ Summable(Costs(new), Q)
         /\ IsFiniteSet(Q)
    <2>1. P \in SUBSET DOMAIN t /\ Q \in SUBSET DOMAIN new
      BY <1>1, <1>10
    <2> QED
      BY <1>4, <2>1, OfFacts DEF Summable
  <1>14. /\ Initials(t, v) = SumFunctionOnSet(Came0(t), P)
         /\ Initials(new, v) = SumFunctionOnSet(Came0(new), Q)
         /\ Initials(w, v) = SumFunctionOnSet(Came0(w), W)
         /\ Consumption(t, v) = SumFunctionOnSet(Gave0(t), P)
         /\ Consumption(w, v) = SumFunctionOnSet(Gave0(w), W)
         /\ Consumption(t, v) \in Nat
    BY <1>4, <1>6, OfFacts
  <1>15. /\ Value(t, v) = SumFunctionOnSet(Costs(t), P)
         /\ Value(new, v) = SumFunctionOnSet(Costs(new), Q)
         /\ Value(w, v) = SumFunctionOnSet(Costs(w), W)
    BY <1>4, <1>6, ValueSplit
  <1>16. P \subseteq W /\ W \cap DOMAIN t = P
    BY <1>7 DEF Of
  <1> HIDE DEF P, Q, W
  <1>17. SumFunctionOnSet(Came0(w), W)
           = SumFunctionOnSet(Came0(t), P) + SumFunctionOnSet(Came0(new), Q)
    <2>1. Places(P, Q, len)
      BY <1>1, <1>10 DEF Places
    <2>2. Summable(Came0(t), P) /\ Summable(Came0(new), Q)
      BY <1>13
    <2>3. Agrees(Came0(w), Came0(t), P) /\ Follows(Came0(w), len, Came0(new), Q)
      BY <1>12 DEF Agrees
    <2>4. SumFunctionOnSet(Came0(w), P \cup Moved(Q, len))
            = SumFunctionOnSet(Came0(t), P) + SumFunctionOnSet(Came0(new), Q)
      BY <2>1, <2>2, <2>3, SumAppend
    <2> QED
      BY <1>11, <2>4
  <1>18. SumFunctionOnSet(Gave0(w), W)
           = SumFunctionOnSet(Gave0(t), P) + SumFunctionOnSet(Gave0(new), Q)
    <2>1. Places(P, Q, len)
      BY <1>1, <1>10 DEF Places
    <2>2. Summable(Gave0(t), P) /\ Summable(Gave0(new), Q)
      BY <1>13
    <2>3. Agrees(Gave0(w), Gave0(t), P) /\ Follows(Gave0(w), len, Gave0(new), Q)
      BY <1>12 DEF Agrees
    <2>4. SumFunctionOnSet(Gave0(w), P \cup Moved(Q, len))
            = SumFunctionOnSet(Gave0(t), P) + SumFunctionOnSet(Gave0(new), Q)
      BY <2>1, <2>2, <2>3, SumAppend
    <2> QED
      BY <1>11, <2>4
  <1>19. SumFunctionOnSet(Costs(w), W)
           = SumFunctionOnSet(Costs(t), P) + SumFunctionOnSet(Costs(new), Q)
    <2>1. Places(P, Q, len)
      BY <1>1, <1>10 DEF Places
    <2>2. Summable(Costs(t), P) /\ Summable(Costs(new), Q)
      BY <1>13
    <2>3. Agrees(Costs(w), Costs(t), P) /\ Follows(Costs(w), len, Costs(new), Q)
      BY <1>12 DEF Agrees
    <2>4. SumFunctionOnSet(Costs(w), P \cup Moved(Q, len))
            = SumFunctionOnSet(Costs(t), P) + SumFunctionOnSet(Costs(new), Q)
      BY <2>1, <2>2, <2>3, SumAppend
    <2> QED
      BY <1>11, <2>4
  <1>20. SumFunctionOnSet(Gave0(new), Q) = 0
    BY <1>12, <1>13, SumZero
  <1>21. Consumption(w, v) = Consumption(t, v)
    BY <1>14, <1>18, <1>20
  <1>22. Initials(w, v) = Initials(t, v) + Initials(new, v) /\ Value(w, v) = Value(t, v) + Value(new, v)
    BY <1>14, <1>15, <1>17, <1>19
  <1> QED
    BY <1>6, <1>7, <1>8, <1>9, <1>16, <1>21, <1>22 DEF w, P, W

LEMMA NewLayersAre ==
    ASSUME NEW v \in Variants, NEW n \in Nat \ {0}, NEW c \in Nat
    PROVE  /\ R!NewLayer(v, n, c) = NewLayer(v, n, c) /\ K!NewLayer(v, n, c) = NewLayer(v, n, c)
           /\ NewLayer(v, n, c) \in Layer
           /\ NewLayer(v, n, c).variant = v /\ NewLayer(v, n, c).initial = n
           /\ NewLayer(v, n, c).consumed = 0 /\ NewLayer(v, n, c).cost = c
BY DEF R!NewLayer, K!NewLayer, NewLayer, Layer, NoExpiry, R!NoExpiry, K!NoExpiry

\* The layers of a receipt hold what its lines bring, at the cost of the return.
LEMMA LineLayers ==
    ASSUME NEW lines \in Seq(R!ReceiptLine), NEW cost \in [Variants -> Nat], NEW v \in Variants
    PROVE  LET new == [i \in DOMAIN lines |-> R!NewLayer(lines[i].variant, lines[i].amount,
                                                        cost[lines[i].variant])]
           IN  /\ Fresh(new)
               /\ Initials(new, v) = R!Amount(lines, R!Dispositions, v)
               /\ Value(new, v) = R!Amount(lines, R!Dispositions, v) * cost[v]
  <1>1. PICK new : new = [i \in DOMAIN lines |-> R!NewLayer(lines[i].variant, lines[i].amount,
                                                           cost[lines[i].variant])]
    OBVIOUS
  <1>2. /\ Len(lines) \in Nat /\ DOMAIN lines = 1..Len(lines)
        /\ \A i \in DOMAIN lines : lines[i] \in R!ReceiptLine
    OBVIOUS
  <1>3. ASSUME NEW i \in DOMAIN lines
        PROVE  /\ new[i] \in Layer /\ new[i].consumed = 0 /\ new[i].variant = lines[i].variant
               /\ new[i].initial = lines[i].amount /\ new[i].cost = cost[lines[i].variant]
               /\ lines[i].amount \in Nat /\ lines[i].disposition \in R!Dispositions
    <2>1. lines[i] \in R!ReceiptLine
      BY <1>2
    <2>2. /\ lines[i].variant \in Variants /\ lines[i].amount \in Nat \ {0}
          /\ lines[i].disposition \in R!Dispositions
      BY <2>1 DEF R!ReceiptLine
    <2>3. cost[lines[i].variant] \in Nat
      BY <2>2
    <2>4. new[i] = NewLayer(lines[i].variant, lines[i].amount, cost[lines[i].variant])
      BY <1>1, <2>2, <2>3, NewLayersAre
    <2> QED
      BY <2>2, <2>3, <2>4, NewLayersAre
  <1>4. DOMAIN new = DOMAIN lines
    BY <1>1
  <1>5. new \in Seq(Layer)
    <2>1. new = [i \in 1..Len(lines) |-> new[i]]
      BY <1>1, <1>2
    <2> QED
      BY <1>2, <1>3, <2>1
  <1>6. Table(new)
    <2>1. \A i \in DOMAIN new : new[i].consumed <= new[i].initial
      BY <1>3, <1>4
    <2> QED
      BY <1>5, <2>1 DEF Table
  <1> DEFINE f == Counted(lines, R!Dispositions, v)
             D == DOMAIN lines
             S == Of(new, v)
  <1>7. /\ R!Amount(lines, R!Dispositions, v) = SumFunctionOnSet(f, D) /\ Summable(f, D)
        /\ R!Amount(lines, R!Dispositions, v) \in Nat
    BY AmountIs
  <1>8. /\ S \in SUBSET D /\ \A i \in D \ S : f[i] = 0
        /\ \A i \in S : f[i] = lines[i].amount /\ new[i].cost = cost[v]
    BY <1>3, <1>4 DEF Of, Counted
  <1>9. /\ Initials(new, v) = SumFunctionOnSet(Came0(new), S)
        /\ Value(new, v) = SumFunctionOnSet(Costs(new), S)
    BY <1>6, OfFacts, ValueSplit
  <1>10. ASSUME NEW i \in S PROVE f[i] = Came0(new)[i] /\ Costs(new)[i] = cost[v] * f[i]
    <2>1. /\ i \in D /\ f[i] = lines[i].amount /\ new[i].cost = cost[v]
          /\ new[i].initial = lines[i].amount /\ new[i].consumed = 0 /\ lines[i].amount \in Nat
      BY <1>3, <1>8
    <2>2. Came0(new)[i] = new[i].initial
          /\ Costs(new)[i] = (new[i].initial - new[i].consumed) * new[i].cost
      BY <1>4, <1>6, <2>1, OfFacts
    <2>3. \A p, q \in Nat : (p - 0) * q = q * p
      OBVIOUS
    <2> QED
      BY <2>1, <2>2, <2>3
  <1> HIDE DEF f, D, S
  <1>11. Summable(f, S) /\ SumFunctionOnSet(f, D) = SumFunctionOnSet(f, S)
    BY <1>7, <1>8, SumWhere
  <1>12. SumFunctionOnSet(f, S) = SumFunctionOnSet(Came0(new), S)
    BY <1>10, <1>11, SumSame
  <1>13. cost[v] \in Int /\ cost[v] \in Nat
    OBVIOUS
  <1>14. SumFunctionOnSet(Costs(new), S) = cost[v] * SumFunctionOnSet(f, S)
    BY <1>10, <1>11, <1>13, SumTimes
  <1>15. \A p, q \in Nat : p * q = q * p
    OBVIOUS
  <1>16. Value(new, v) = R!Amount(lines, R!Dispositions, v) * cost[v]
    BY <1>7, <1>9, <1>11, <1>13, <1>14, <1>15
  <1>17. Initials(new, v) = R!Amount(lines, R!Dispositions, v)
    BY <1>7, <1>9, <1>11, <1>12
  <1>18. \A j \in DOMAIN new : new[j].consumed = 0
    BY <1>3, <1>4
  <1> QED
    BY <1>1, <1>5, <1>16, <1>17, <1>18 DEF Fresh
-----------------------------------------------------------------------------
\* The sum over one element.
LEMMA SumOne ==
    ASSUME NEW f, NEW x, f[x] \in Int
    PROVE  Summable(f, {x}) /\ SumFunctionOnSet(f, {x}) = f[x]
  <1>1. x \notin {} /\ {} \cup {x} = {x}
    OBVIOUS
  <1>2. Summable(f, {x})
    BY FS_Singleton DEF Summable
  <1>3. SumFunctionOnSet(f, {} \cup {x}) = SumFunctionOnSet(f, {}) + f[x]
    BY <1>1, <1>2, SumAddElement
  <1> QED
    BY <1>1, <1>2, <1>3, SumEmpty

\* A layer for each variant holds what is made of it, at its cost.
MadeOf(makes) == {v \in Variants : makes[v] > 0}

LayersOf(new, makes, cost) ==
    LET vs == SetToSeq(MadeOf(makes))
    IN  new = [i \in DOMAIN vs |-> K!NewLayer(vs[i], makes[vs[i]], cost[vs[i]])]

LEMMA VariantLayers ==
    ASSUME NEW makes \in [Variants -> Nat], NEW cost \in [Variants -> Nat],
           NEW new, LayersOf(new, makes, cost), NEW v \in Variants
    PROVE  /\ Fresh(new) /\ Initials(new, v) = makes[v]
           /\ Value(new, v) = makes[v] * cost[v]
  <1> DEFINE M == MadeOf(makes)
  <1>1. PICK vs : vs = SetToSeq(M)
    OBVIOUS
  <1>2. IsFiniteSet(M)
    BY ValuationAssumption, FS_Subset DEF ValuationAssumption, MadeOf
  <1>3. /\ vs \in Seq(M) /\ \A i \in DOMAIN vs : vs[i] \in M
        /\ \A i, j \in DOMAIN vs : vs[i] = vs[j] => i = j
        /\ \A x \in M : \E i \in DOMAIN vs : vs[i] = x
    BY <1>1, <1>2, ListedOnce
  <1>4. new = [i \in DOMAIN vs |-> K!NewLayer(vs[i], makes[vs[i]], cost[vs[i]])]
    BY <1>1 DEF LayersOf
  <1>5. ASSUME NEW i \in DOMAIN vs
        PROVE  /\ new[i] \in Layer /\ new[i].consumed = 0 /\ new[i].variant = vs[i]
               /\ new[i].initial = makes[vs[i]] /\ new[i].cost = cost[vs[i]]
    <2>1. vs[i] \in Variants /\ makes[vs[i]] \in Nat \ {0} /\ cost[vs[i]] \in Nat
      BY <1>3 DEF MadeOf
    <2>2. new[i] = NewLayer(vs[i], makes[vs[i]], cost[vs[i]])
      BY <1>4, <2>1, NewLayersAre
    <2> QED
      BY <2>1, <2>2, NewLayersAre
  <1>6. DOMAIN new = DOMAIN vs /\ new \in Seq(Layer)
    <2>1. Len(vs) \in Nat /\ DOMAIN vs = 1..Len(vs)
      BY <1>3
    <2>2. new = [i \in 1..Len(vs) |-> new[i]]
      BY <1>4, <2>1
    <2>3. \A i \in 1..Len(vs) : new[i] \in Layer
      BY <1>5, <2>1
    <2> QED
      BY <1>4, <2>1, <2>2, <2>3
  <1>7. Fresh(new)
    BY <1>5, <1>6 DEF Fresh
  <1>8. Table(new)
    <2>1. ASSUME NEW i \in DOMAIN new PROVE new[i].consumed <= new[i].initial
      <3>1. new[i] \in Layer /\ new[i].consumed = 0
        BY <1>5, <1>6
      <3>2. new[i].initial \in Nat
        BY <3>1 DEF Layer
      <3> QED
        BY <3>1, <3>2
    <2> QED
      BY <1>6, <2>1 DEF Table
  <1>9. /\ Initials(new, v) = SumFunctionOnSet(Came0(new), Of(new, v))
        /\ Value(new, v) = SumFunctionOnSet(Costs(new), Of(new, v))
    BY <1>8, OfFacts, ValueSplit
  <1>10. CASE v \notin M
    <2>1. Of(new, v) = {}
      BY <1>3, <1>5, <1>6, <1>10 DEF Of
    <2>2. makes[v] = 0 /\ makes[v] * cost[v] = 0
      <3>1. makes[v] \in Nat /\ cost[v] \in Nat /\ ~(makes[v] > 0)
        BY <1>10 DEF MadeOf
      <3> QED
        BY <3>1
    <2> QED
      BY <1>7, <1>9, <2>1, <2>2, SumEmpty
  <1>11. CASE v \in M
    <2>1. PICK i \in DOMAIN vs : vs[i] = v
      BY <1>3, <1>11
    <2>2. Of(new, v) = {i} /\ i \in DOMAIN new
      BY <1>3, <1>5, <1>6, <2>1 DEF Of
    <2>3. /\ Came0(new)[i] = makes[v] /\ Costs(new)[i] = makes[v] * cost[v]
      <3>1. /\ Came0(new)[i] = new[i].initial
            /\ Costs(new)[i] = (new[i].initial - new[i].consumed) * new[i].cost
        BY <1>8, <2>2, OfFacts
      <3>2. /\ new[i].initial = makes[v] /\ new[i].consumed = 0 /\ new[i].cost = cost[v]
            /\ makes[v] \in Nat /\ makes[v] - 0 = makes[v]
        BY <1>5, <2>1
      <3> QED
        BY <3>1, <3>2
    <2>4. Came0(new)[i] \in Int /\ Costs(new)[i] \in Int
      BY <1>8, <2>2, OfFacts
    <2>5. /\ SumFunctionOnSet(Came0(new), {i}) = Came0(new)[i]
          /\ SumFunctionOnSet(Costs(new), {i}) = Costs(new)[i]
      BY <2>4, SumOne
    <2> QED
      BY <1>7, <1>9, <2>2, <2>3, <2>5
  <1> QED
    BY <1>10, <1>11

\* The records of a variant.
IsRecords(t) == t \in Seq(Record)
Noted(t, v) == [i \in DOMAIN t |-> IF t[i].variant = v THEN t[i].amount ELSE 0]

LEMMA RecordFacts ==
    ASSUME NEW t, IsRecords(t), NEW v
    PROVE  /\ Recorded(t, v) = SumFunctionOnSet(Noted(t, v), DOMAIN t)
           /\ Summable(Noted(t, v), DOMAIN t) /\ Recorded(t, v) \in Nat
  <1>1. IsFiniteSet(DOMAIN t) /\ \A i \in DOMAIN t : t[i] \in Record
    BY IndexSet DEF IsRecords
  <1>2. ASSUME NEW i \in DOMAIN t PROVE Noted(t, v)[i] \in Nat
    <2>1. t[i] \in Record
      BY <1>1
    <2>2. t[i].amount \in Nat
      BY <2>1 DEF Record
    <2> QED
      BY <2>2 DEF Noted
  <1>3. Recorded(t, v) = SumFunctionOnSet(Noted(t, v), DOMAIN t)
    BY DEF Recorded, Noted
  <1> QED
    BY <1>1, <1>2, <1>3, SumNat DEF Summable

IsLines(lines) == lines \in Seq(R!ReceiptLine)

Held(lines) == {i \in DOMAIN lines : lines[i].disposition = "QUARANTINE"}

RecordsOf(new, lines) ==
    LET s == SetToSeq(Held(lines))
    IN  new = [i \in DOMAIN s |-> [variant |-> lines[s[i]].variant,
                                   amount |-> lines[s[i]].amount,
                                   status |-> "QUARANTINED"]]

LEMMA NewRecord ==
    ASSUME NEW v \in Variants, NEW n \in Nat \ {0}
    PROVE  [variant |-> v, amount |-> n, status |-> "QUARANTINED"] \in Record
  <1>1. PICK S : S = {"QUARANTINED"} \cup {R!Outcome[x] : x \in DOMAIN R!Outcome}
    OBVIOUS
  <1>2. "QUARANTINED" \in S
    BY <1>1
  <1>3. Record = [variant : Variants, amount : Nat \ {0}, status : S]
    BY <1>1 DEF Record
  <1> HIDE <1>1
  <1> QED
    BY <1>2, <1>3

LEMMA RecordsAdded ==
    ASSUME NEW t, IsRecords(t), NEW lines, IsLines(lines), NEW v,
           NEW new, RecordsOf(new, lines)
    PROVE  /\ IsRecords(t \o new)
           /\ Recorded(t \o new, v) = Recorded(t, v) + R!Amount(lines, {"QUARANTINE"}, v)
  <1>1. /\ IsFiniteSet(DOMAIN lines) /\ \A i \in DOMAIN lines : lines[i] \in R!ReceiptLine
    BY IndexSet DEF IsLines
  <1>0. PICK M : M = Held(lines)
    OBVIOUS
  <1>2. IsFiniteSet(M) /\ M \in SUBSET DOMAIN lines
    BY <1>0, <1>1, FS_Subset DEF Held
  <1>3. PICK s : s = SetToSeq(M)
    OBVIOUS
  <1>4. /\ s \in Seq(M) /\ s \in Bijection(DOMAIN s, M) /\ \A i \in DOMAIN s : s[i] \in M
    BY <1>2, <1>3, ListedOnce
  <1>5. Len(s) \in Nat /\ DOMAIN s = 1..Len(s) /\ IsFiniteSet(DOMAIN s)
    BY <1>4, IndexSet
  <1>6. new = [i \in DOMAIN s |-> [variant |-> lines[s[i]].variant,
                                   amount |-> lines[s[i]].amount, status |-> "QUARANTINED"]]
    BY <1>0, <1>3 DEF RecordsOf
  <1>7. ASSUME NEW i \in DOMAIN s
        PROVE  /\ s[i] \in DOMAIN lines /\ lines[s[i]].disposition = "QUARANTINE"
               /\ new[i] \in Record /\ new[i].variant = lines[s[i]].variant
               /\ new[i].amount = lines[s[i]].amount /\ lines[s[i]].amount \in Nat
    <2>1. s[i] \in DOMAIN lines /\ lines[s[i]].disposition = "QUARANTINE"
      BY <1>0, <1>4 DEF Held
    <2>2. lines[s[i]] \in R!ReceiptLine
      BY <1>1, <2>1
    <2>3. lines[s[i]].variant \in Variants /\ lines[s[i]].amount \in Nat \ {0}
      BY <2>2 DEF R!ReceiptLine
    <2>4. new[i] = [variant |-> lines[s[i]].variant,
                    amount |-> lines[s[i]].amount, status |-> "QUARANTINED"]
      BY <1>6
    <2> QED
      BY <2>1, <2>3, <2>4, NewRecord
  <1>8. DOMAIN new = DOMAIN s /\ new \in Seq(Record) /\ Len(new) = Len(s)
    <2>1. new = [i \in 1..Len(s) |-> new[i]]
      BY <1>5, <1>6
    <2>2. \A i \in 1..Len(s) : new[i] \in Record
      BY <1>5, <1>7
    <2>3. new \in [1..Len(s) -> Record]
      BY <2>1, <2>2
    <2>4. new \in Seq(Record) /\ DOMAIN new = 1..Len(s)
      BY <1>5, <2>3
    <2>5. Len(new) = Len(s)
      BY <1>5, <2>4
    <2> QED
      BY <1>5, <2>4, <2>5
  <1> DEFINE w == t \o new
             len == Len(t)
             P == DOMAIN t
             Q == DOMAIN s
             c == Counted(lines, {"QUARANTINE"}, v)
  <1>9. t \in Seq(Record) /\ len \in Nat /\ P = 1..len
    BY DEF IsRecords
  <1>10. /\ w \in Seq(Record) /\ DOMAIN w = 1..(len + Len(s))
         /\ \A i \in 1..len : w[i] = t[i]
         /\ \A j \in 1..Len(s) : w[len + j] = new[j] /\ len + j \in DOMAIN w
    BY <1>5, <1>8, <1>9
  <1>11. DOMAIN w = P \cup Moved(Q, len)
    <2>1. \A j \in 1..Len(s) : len + j \in 1..(len + Len(s))
      BY <1>5, <1>9
    <2>2. ASSUME NEW i \in 1..(len + Len(s)) PROVE i \in 1..len \/ i \in Moved(1..Len(s), len)
      <3>1. i \in 1..len \/ (i - len \in 1..Len(s) /\ i = len + (i - len))
        BY <1>5, <1>9
      <3> QED
        BY <3>1 DEF Moved
    <2>3. \A i \in 1..len : i \in 1..(len + Len(s))
      BY <1>5, <1>9
    <2>4. \A i \in Moved(1..Len(s), len) : i \in 1..(len + Len(s))
      BY <2>1 DEF Moved
    <2> HIDE DEF P, Q, w, len
    <2>5. 1..(len + Len(s)) = 1..len \cup Moved(1..Len(s), len)
      BY <2>2, <2>3, <2>4
    <2> QED
      BY <1>5, <1>9, <1>10, <2>5 DEF Q
  <1>12. IsRecords(w) /\ IsRecords(new)
    BY <1>8, <1>10 DEF IsRecords
  <1>13. Agrees(Noted(w, v), Noted(t, v), P)
    BY <1>9, <1>10, <1>11 DEF Agrees, Noted
  <1>14. \A j \in Q : Noted(new, v)[j] \in Int /\ Noted(new, v)[j] = c[s[j]]
    <2> SUFFICES ASSUME NEW j \in DOMAIN s
                 PROVE  Noted(new, v)[j] \in Int /\ Noted(new, v)[j] = c[s[j]]
      OBVIOUS
    <2>1. Noted(new, v)[j] = IF new[j].variant = v THEN new[j].amount ELSE 0
      BY <1>8 DEF Noted
    <2>2. c[s[j]] = IF lines[s[j]].variant = v THEN lines[s[j]].amount ELSE 0
      BY <1>7 DEF Counted
    <2> HIDE DEF c
    <2> QED
      BY <1>7, <2>1, <2>2
  <1>15. Follows(Noted(w, v), len, Noted(new, v), Q)
    <2> SUFFICES ASSUME NEW j \in DOMAIN s
                 PROVE  Noted(new, v)[j] \in Int /\ Noted(w, v)[len + j] = Noted(new, v)[j]
      BY DEF Follows
    <2>1. len + j \in DOMAIN w /\ w[len + j] = new[j] /\ j \in DOMAIN new
      BY <1>5, <1>8, <1>10
    <2> QED
      BY <1>14, <2>1 DEF Noted
  <1>16. Places(P, Q, len)
    <2>1. DOMAIN s \subseteq Nat \ {0}
      BY <1>5
    <2> QED
      BY <1>9, <2>1 DEF Places
  <1>17. \A i \in DOMAIN lines \ M : c[i] = 0
    BY <1>0 DEF Counted, Held
  <1>18. /\ R!Amount(lines, {"QUARANTINE"}, v) = SumFunctionOnSet(c, DOMAIN lines)
         /\ Summable(c, DOMAIN lines)
    BY AmountIs DEF IsLines
  <1> HIDE DEF c
  <1> HIDE <1>0, <1>3
  <1>19. SumFunctionOnSet(c, DOMAIN lines) = SumFunctionOnSet(c, M)
    BY <1>2, <1>17, <1>18, SumWhere
  <1>20. Recorded(w, v) = SumFunctionOnSet(Noted(w, v), DOMAIN w)
    BY <1>12, RecordFacts
  <1>21. Recorded(t, v) = SumFunctionOnSet(Noted(t, v), P) /\ Summable(Noted(t, v), P)
    BY RecordFacts
  <1>22. Summable(Noted(new, v), Q)
    BY <1>8, <1>12, RecordFacts
  <1> HIDE DEF w, len, P, Q
  <1>23. SumFunctionOnSet(c, M) = SumFunctionOnSet(Noted(new, v), Q)
    <2>1. s \in Bijection(Q, M) /\ IsFiniteSet(Q)
      BY <1>4, <1>5 DEF Q
    <2> QED
      BY <1>14, <2>1, SumAlong
  <1>24. SumFunctionOnSet(Noted(w, v), P \cup Moved(Q, len))
           = SumFunctionOnSet(Noted(t, v), P) + SumFunctionOnSet(Noted(new, v), Q)
    BY <1>13, <1>15, <1>16, <1>21, <1>22, SumAppend
  <1> QED
    BY <1>11, <1>12, <1>18, <1>19, <1>20, <1>21, <1>23, <1>24 DEF w
-----------------------------------------------------------------------------
\* Math.round is off by half a unit at most.
LEMMA RoundFacts ==
    ASSUME NEW n \in Nat, NEW d \in Nat \ {0}
    PROVE  /\ Round(n, d) \in Nat
           /\ 2 * d * Round(n, d) <= 2 * n + d /\ 2 * n - d <= 2 * d * Round(n, d)
  <1> DEFINE x == 2 * n + d
             y == 2 * d
  <1>1. x \in Nat /\ y \in Nat \ {0}
    OBVIOUS
  <1>2. Round(n, d) = x \div y
    BY DEF Round
  <1> HIDE DEF x, y
  <1>3. /\ x \div y \in Nat /\ x % y \in 0..(y - 1) /\ x = y * (x \div y) + (x % y)
    BY <1>1
  <1>4. y * Round(n, d) <= x /\ x - y < y * Round(n, d) /\ Round(n, d) \in Nat
    <2>1. PICK a \in Nat, b \in 0..(y - 1) : a = x \div y /\ b = x % y
      BY <1>3
    <2>2. x = y * a + b
      BY <1>3, <2>1
    <2>3. y * a \in Nat
      BY <1>1
    <2> QED
      BY <1>1, <1>2, <2>1, <2>2, <2>3
  <1>5. PICK z \in Int : z = y * Round(n, d)
    BY <1>1, <1>4
  <1>6. z <= 2 * n + d /\ 2 * n + d - 2 * d < z
    BY <1>4, <1>5 DEF x, y
  <1>7. z <= 2 * n + d /\ 2 * n - d <= z
    BY <1>6
  <1> QED
    BY <1>4, <1>5, <1>7 DEF y

LEMMA ValueNat ==
    ASSUME NEW t, Table(t), NEW v
    PROVE  Value(t, v) \in Nat
  <1>1. Of(t, v) \subseteq DOMAIN t /\ IsFiniteSet(Of(t, v))
    BY ActiveFacts
  <1>2. ASSUME NEW i \in Of(t, v) PROVE Costs(t)[i] \in Nat
    <2>1. /\ t[i].initial - t[i].consumed \in Nat /\ t[i].cost \in Nat
          /\ Costs(t)[i] = (t[i].initial - t[i].consumed) * t[i].cost
      BY <1>1, LayerFacts, OfFacts
    <2>2. \A p, q \in Nat : p * q \in Nat
      OBVIOUS
    <2> QED
      BY <2>1, <2>2
  <1> QED
    BY <1>1, <1>2, ValueSplit, SumNat

LEMMA AverageNat ==
    ASSUME NEW t, Table(t), NEW v, Units(t, v) > 0, NEW n \in Nat
    PROVE  K!AverageCost(t, v, n) \in Nat
  <1>1. Units(t, v) \in Nat \ {0}
    BY UnitsSplit
  <1>2. Value(t, v) \in Nat
    BY ValueNat
  <1>3. n * Value(t, v) \in Nat
    BY <1>2
  <1> QED
    BY <1>1, <1>3, RoundFacts, ValuesAre

-----------------------------------------------------------------------------
\* A step of one call leaves the memory of the others alone.
Same(q) ==
    /\ pc'[q] = pc[q] /\ copy'[q] = copy[q] /\ loaded'[q] = loaded[q] /\ read'[q] = read[q]
    /\ recipe'[q] = recipe[q] /\ average'[q] = average[q]

Frame(r) ==
    /\ call' = call /\ \A q \in Requests \ {r} : Same(q)
    /\ pc' \in [Requests -> Stages]
    /\ DOMAIN read' = Requests /\ DOMAIN copy' = Requests /\ DOMAIN recipe' = Requests
    /\ loaded' \in [Requests -> [R!Keys -> Item \cup {NoRow}]]
    /\ average' \in [Requests -> [Variants -> Nat]]

RSays(r) == R!Execute(r) /\ UNCHANGED <<call, halted, kitsOnly>>
KSays(r) == K!Execute(r) /\ UNCHANGED <<call, halted, returnsOnly>>
Stops == UNCHANGED <<layers, stale, call, pc, read, items, rmas, quarantine, booked, copy, loaded,
                     ledger, kit, goods, parts, recipe, average>>

LEMMA NextCases ==
    ASSUME [Next]_vars
    PROVE  (\E r \in Requests : RSays(r) \/ KSays(r)) \/ Stops
  <1>1. CASE UNCHANGED vars
    BY <1>1 DEF vars, Stops, returnsOnly, kitsOnly
  <1>2. ASSUME NEW r \in Requests, R!Step(r), UNCHANGED kitsOnly PROVE RSays(r)
    BY <1>2 DEF R!Step, RSays
  <1>3. ASSUME NEW r \in Requests, K!Step(r), UNCHANGED returnsOnly PROVE KSays(r)
    BY <1>3 DEF K!Step, KSays
  <1>4. ASSUME NEW r \in Requests, R!Crash(r), UNCHANGED kitsOnly PROVE Stops
    BY <1>4 DEF R!Crash, Stops, kitsOnly, R!tables, R!memory
  <1>5. ASSUME NEW r \in Requests, K!Crash(r), UNCHANGED returnsOnly PROVE Stops
    BY <1>5 DEF K!Crash, Stops, returnsOnly, K!tables, K!memory
  <1> QED
    BY <1>1, <1>2, <1>3, <1>4, <1>5 DEF Next
-----------------------------------------------------------------------------
\* A step of a return changes the memory of its call alone.
LEMMA ReturnsFrame ==
    ASSUME TypeInv, NEW r \in Requests, RSays(r)
    PROVE  Frame(r)
  <1>0. /\ call' = call /\ recipe' = recipe /\ average' = average
        /\ pc \in [Requests -> Stages] /\ items \in [R!Keys -> Item \cup {NoRow}]
        /\ DOMAIN read = Requests /\ DOMAIN copy = Requests /\ DOMAIN recipe = Requests
        /\ loaded \in [Requests -> [R!Keys -> Item \cup {NoRow}]]
        /\ average \in [Requests -> [Variants -> Nat]]
    BY DEF RSays, kitsOnly, TypeInv, ValuationTypes
  <1>1. CASE R!Create(r)
    BY <1>0, <1>1 DEF R!Create, R!Goto, R!memory, Frame, Same, Stages
  <1>2. CASE R!Insert(r)
    BY <1>0, <1>2 DEF R!Insert, R!Goto, R!memory, Frame, Same, Stages
  <1>3. CASE R!Authorize(r)
    BY <1>0, <1>3 DEF R!Authorize, R!Goto, R!memory, Frame, Same, Stages
  <1>4. CASE R!FindRma(r)
    BY <1>0, <1>4 DEF R!FindRma, R!Goto, R!memory, Frame, Same, Stages
  <1>5. CASE R!LoadReceipt(r)
    BY <1>0, <1>5 DEF R!LoadReceipt, R!Goto, R!memory, Frame, Same, Stages
  <1>6. CASE R!ReadLayers(r)
    BY <1>0, <1>6 DEF R!ReadLayers, R!Goto, R!memory, Frame, Same, Stages
  <1>7. CASE R!Consume(r)
    BY <1>0, <1>7 DEF R!Consume, R!Goto, R!memory, Frame, Same, Stages
  <1>8. CASE R!SaveRows(r)
    BY <1>0, <1>8 DEF R!SaveRows, R!Goto, R!memory, Frame, Same, Stages
  <1>9. CASE R!SaveLayers(r)
    BY <1>0, <1>9 DEF R!SaveLayers, R!Goto, R!memory, Frame, Same, Stages
  <1>10. CASE R!SaveRecords(r)
    BY <1>0, <1>10 DEF R!SaveRecords, R!Goto, R!memory, Frame, Same, Stages
  <1>11. CASE R!Journal(r)
    BY <1>0, <1>11 DEF R!Journal, R!Goto, R!memory, Frame, Same, Stages
  <1>12. CASE R!SaveRma(r)
    BY <1>0, <1>12 DEF R!SaveRma, R!Goto, R!memory, Frame, Same, Stages
  <1>13. CASE R!FindRecord(r)
    BY <1>0, <1>13 DEF R!FindRecord, R!Goto, R!memory, Frame, Same, Stages
  <1>14. CASE R!Intercept(r)
    BY <1>0, <1>14 DEF R!Intercept, R!Goto, R!memory, Frame, Same, Stages
  <1>15. CASE R!LoadQuarantine(r)
    <2>0. PICK row : row = <<copy[r].variant, "quarantine">>
      OBVIOUS
    <2>1. PICK to \in {"shelf", "layers", "rejected"} :
              /\ pc' = [pc EXCEPT ![r] = to] /\ copy' = copy /\ read' = read
              /\ loaded' = loaded \/ loaded' = [loaded EXCEPT ![r][row] = items[row]]
      BY <1>15, <2>0 DEF R!LoadQuarantine, R!Goto
    <2>2. loaded' \in [Requests -> [R!Keys -> Item \cup {NoRow}]]
      <3>1. PICK T : T = Item \cup {NoRow}
        OBVIOUS
      <3>2. loaded \in [Requests -> [R!Keys -> T]] /\ items \in [R!Keys -> T]
        BY <1>0, <3>1
      <3> HIDE <3>1
      <3>3. [loaded[r] EXCEPT ![row] = items[row]] \in [R!Keys -> T]
        BY <3>2
      <3>4. loaded' \in [Requests -> [R!Keys -> T]]
        BY <2>1, <3>2, <3>3
      <3> QED
        BY <3>1, <3>4
    <2>3. \A q \in Requests \ {r} : loaded'[q] = loaded[q]
      BY <1>0, <2>1
    <2>4. to \in Stages
      BY <2>1 DEF Stages
    <2> QED
      BY <1>0, <2>1, <2>2, <2>3, <2>4 DEF Frame, Same
  <1>16. CASE R!LoadShelf(r)
    BY <1>0, <1>16 DEF R!LoadShelf, R!Goto, R!memory, Frame, Same, Stages
  <1>17. CASE R!WriteOff(r)
    BY <1>0, <1>17 DEF R!WriteOff, R!Goto, R!memory, Frame, Same, Stages
  <1>18. CASE R!SaveRecord(r)
    BY <1>0, <1>18 DEF R!SaveRecord, R!Goto, R!memory, Frame, Same, Stages
  <1> QED
    BY <1>1, <1>2, <1>3, <1>4, <1>5, <1>6, <1>7, <1>8, <1>9, <1>10, <1>11, <1>12, <1>13, <1>14, <1>15, <1>16, <1>17, <1>18 DEF RSays, R!Execute

\* So does a step of a kit.
LEMMA KitsFrame ==
    ASSUME TypeInv, NEW r \in Requests, KSays(r)
    PROVE  Frame(r)
  <1>0. /\ call' = call /\ copy' = copy /\ loaded' = loaded
        /\ pc \in [Requests -> Stages]
        /\ DOMAIN read = Requests /\ DOMAIN copy = Requests /\ DOMAIN recipe = Requests
        /\ loaded \in [Requests -> [R!Keys -> Item \cup {NoRow}]]
        /\ average \in [Requests -> [Variants -> Nat]]
    BY DEF KSays, returnsOnly, TypeInv, ValuationTypes
  <1>1. CASE K!CreateKit(r)
    BY <1>0, <1>1 DEF K!CreateKit, K!Goto, K!memory, Frame, Same, Stages
  <1>2. CASE K!AddKitComponent(r)
    BY <1>0, <1>2 DEF K!AddKitComponent, K!Goto, K!memory, Frame, Same, Stages
  <1>3. CASE K!RemoveKitComponent(r)
    BY <1>0, <1>3 DEF K!RemoveKitComponent, K!Goto, K!memory, Frame, Same, Stages
  <1>4. CASE K!SaveKit(r)
    BY <1>0, <1>4 DEF K!SaveKit, K!Goto, K!memory, Frame, Same, Stages
  <1>5. CASE K!FindKit(r)
    BY <1>0, <1>5 DEF K!FindKit, K!Goto, K!memory, Frame, Same, Stages
  <1>6. CASE K!CheckLedger(r)
    BY <1>0, <1>6 DEF K!CheckLedger, K!Goto, K!memory, Frame, Same, Stages
  <1>7. CASE K!ReadKitLayers(r)
    BY <1>0, <1>7 DEF K!ReadKitLayers, K!Goto, K!memory, Frame, Same, Stages
  <1>8. CASE K!ConsumeKitLayers(r)
    BY <1>0, <1>8 DEF K!ConsumeKitLayers, K!Goto, K!memory, Frame, Same, Stages
  <1>9. CASE K!ReadAverages(r)
    <2>1. PICK a : a = [v \in Variants |-> IF K!Units(layers, v) > 0 THEN K!AverageCost(layers, v, 1)
                                           ELSE DefaultCost]
      OBVIOUS
    <2>2. a \in [Variants -> Nat]
      <3>1. Table(layers) /\ DefaultCost \in Nat /\ 1 \in Nat
        BY ValuationAssumption DEF TypeInv, ValuationTypes, ValuationAssumption
      <3>2. ASSUME NEW v \in Variants, K!Units(layers, v) > 0 PROVE K!AverageCost(layers, v, 1) \in Nat
        BY <3>1, <3>2, AverageNat, UnitsAre
      <3> QED
        BY <2>1, <3>1, <3>2
    <2>3. /\ average' = [average EXCEPT ![r] = a] /\ pc' = [pc EXCEPT ![r] = "newLayers"]
          /\ recipe' = recipe /\ read' = read
      BY <1>9, <2>1 DEF K!ReadAverages, K!Goto
    <2>4. "newLayers" \in Stages
      BY DEF Stages
    <2> QED
      BY <1>0, <2>2, <2>3, <2>4 DEF Frame, Same
  <1>10. CASE K!SaveNewLayers(r)
    BY <1>0, <1>10 DEF K!SaveNewLayers, K!Goto, K!memory, Frame, Same, Stages
  <1>11. CASE K!AppendEntries(r)
    BY <1>0, <1>11 DEF K!AppendEntries, K!Goto, K!memory, Frame, Same, Stages
  <1>12. CASE K!KitJournal(r)
    BY <1>0, <1>12 DEF K!KitJournal, K!Goto, K!memory, Frame, Same, Stages
  <1> QED
    BY <1>1, <1>2, <1>3, <1>4, <1>5, <1>6, <1>7, <1>8, <1>9, <1>10, <1>11, <1>12 DEF KSays, K!Execute
-----------------------------------------------------------------------------
\* What the save of its rows changes in one of them.
Delta(r, k) ==
    IF r \in Receipts THEN R!Amount(R!Lines(r), R!Kept(k[2]), k[1])
    ELSE IF k[1] # copy[r].variant THEN 0
    ELSE IF k[2] = "quarantine" THEN 0 - copy[r].amount
    ELSE IF call[r].resolution = "RESTOCK" THEN copy[r].amount ELSE 0

\* The row is changed once.
Alone(r, k) == r \in Receipts => R!Changes(R!Lines(r), k) = 1

LEMMA CallKinds ==
    ASSUME TypeInv, NEW r \in Requests
    PROVE  /\ r \in Receipts <=> call[r].op = "receive"
           /\ r \in Resolutions <=> call[r].op = "resolve"
           /\ r \in KitCalls <=> call[r].op \in {"assemble", "disassemble"}
BY DEF Receipts, Resolutions, KitCalls

LEMMA RowFacts ==
    ASSUME TypeInv, NEW r \in Requests, NEW k \in R!Keys
    PROVE  /\ items[k] # NoRow => items[k] \in Item
           /\ loaded[r][k] # NoRow => loaded[r][k] \in Item
           /\ Quantity(items, k) \in Nat /\ Quantity(loaded[r], k) \in Nat
           /\ k[1] \in Variants /\ k[2] \in {"shelf", "quarantine"} /\ k = <<k[1], k[2]>>
  <1>1. /\ items[k] \in Item \cup {NoRow} /\ loaded[r][k] \in Item \cup {NoRow}
    BY DEF TypeInv, ValuationTypes
  <1>2. \A i \in Item : i.quantity \in Nat
    BY DEF Item
  <1>3. k[1] \in Variants /\ k[2] \in {"shelf", "quarantine"} /\ k = <<k[1], k[2]>>
    BY DEF R!Keys
  <1> QED
    BY <1>1, <1>2, <1>3 DEF Quantity

LEMMA OrNewIs ==
    ASSUME NEW row, row = NoRow \/ row \in Item
    PROVE  /\ R!OrNew(row) \in Item
           /\ R!OrNew(row).quantity = IF row = NoRow THEN 0 ELSE row.quantity
           /\ R!OrNew(row).version = IF row = NoRow THEN 1 ELSE row.version
BY DEF R!OrNew, R!CreateNew, Item

Changed(i, n, c) == [i EXCEPT !.quantity = @ + n, !.version = @ + c]

LEMMA ItemChanged ==
    ASSUME NEW i \in Item, NEW n \in Nat, NEW c \in Nat
    PROVE  /\ Changed(i, n, c) \in Item
           /\ Changed(i, n, c).quantity = i.quantity + n
           /\ Changed(i, n, c).version = i.version + c
  <1>1. i.quantity + n \in Nat /\ i.version + c \in Nat \ {0}
    BY DEF Item
  <1> QED
    BY <1>1 DEF Item, Changed

LEMMA ReceiptDraft ==
    ASSUME TypeInv, NEW r \in Receipts, NEW k \in R!Places(r)
    PROVE  /\ k \in R!Keys /\ R!Drafts(r)[k] \in Item
           /\ R!Drafts(r)[k].quantity = Quantity(loaded[r], k) + Delta(r, k)
           /\ R!Drafts(r)[k].version
                = (IF loaded[r][k] = NoRow THEN 1 ELSE loaded[r][k].version) + R!Changes(R!Lines(r), k)
           /\ R!Changes(R!Lines(r), k) \in Nat \ {0} /\ Delta(r, k) \in Nat
  <1>1. /\ r \in Requests /\ call[r].op = "receive"
        /\ R!Lines(r) \in Seq(R!ReceiptLine)
    BY ReceiptFacts
  <1>2. PICK i \in DOMAIN R!Lines(r) : k = R!Place(R!Lines(r)[i])
    BY <1>1 DEF R!Places, R!Cmd
  <1>3. R!Lines(r)[i] \in R!ReceiptLine
    BY <1>1
  <1>4. k \in R!Keys
    BY <1>2, <1>3 DEF R!Place, R!Keys, R!ReceiptLine
  <1>5. R!Changes(R!Lines(r), k) \in Nat /\ R!Changes(R!Lines(r), k) # 0
    <2>1. R!Changes(R!Lines(r), k) \in Nat
      BY <1>1, ChangesAre
    <2>2. R!Changes(R!Lines(r), k) # 0
      BY <1>1, <1>2, ChangesCount
    <2> QED
      BY <2>1, <2>2
  <1>6. Delta(r, k) = R!Amount(R!Lines(r), R!Kept(k[2]), k[1]) /\ Delta(r, k) \in Nat
    BY <1>1, AmountIs DEF Delta
  <1>7. R!Drafts(r)[k] = [R!OrNew(loaded[r][k]) EXCEPT !.quantity = @ + Delta(r, k),
                                                       !.version = @ + R!Changes(R!Lines(r), k)]
    BY <1>1, <1>4, <1>5, <1>6 DEF R!Drafts, R!Shelved, R!Cmd
  <1>8. PICK row, n, c : row = loaded[r][k] /\ n = Delta(r, k) /\ c = R!Changes(R!Lines(r), k)
    OBVIOUS
  <1>9. row = NoRow \/ row \in Item
    BY <1>1, <1>4, <1>8, RowFacts
  <1>10. PICK new \in Item : /\ new = R!OrNew(row)
                             /\ new.quantity = IF row = NoRow THEN 0 ELSE row.quantity
                             /\ new.version = IF row = NoRow THEN 1 ELSE row.version
    BY <1>9, OrNewIs
  <1>11. R!Drafts(r)[k] = Changed(new, n, c)
    BY <1>7, <1>8, <1>10 DEF Changed
  <1>12. /\ R!Drafts(r)[k] \in Item
         /\ R!Drafts(r)[k].quantity = new.quantity + n
         /\ R!Drafts(r)[k].version = new.version + c
    <2>1. n \in Nat /\ c \in Nat
      BY <1>5, <1>6, <1>8
    <2> QED
      BY <1>11, <2>1, ItemChanged
  <1> QED
    BY <1>4, <1>5, <1>6, <1>8, <1>10, <1>12 DEF Quantity

LEMMA RevisedIs ==
    ASSUME NEW i \in Item, NEW n \in Nat
    PROVE  /\ R!ReceiveStock(i, n) \in Item
           /\ R!ReceiveStock(i, n).quantity = i.quantity + n
           /\ R!ReceiveStock(i, n).version = i.version + 1
           /\ i.quantity >= n => R!DispatchStock(i, n) \in Item
           /\ R!DispatchStock(i, n).quantity = i.quantity - n
           /\ R!DispatchStock(i, n).version = i.version + 1
BY DEF R!ReceiveStock, R!DispatchStock, R!Revised, Item

LEMMA ResolutionDraft ==
    ASSUME TypeInv, Snapshots, NEW r \in Resolutions, pc[r] = "saveRows", NEW k \in R!Places(r)
    PROVE  /\ k \in R!Keys /\ R!Drafts(r)[k] \in Item
           /\ R!Drafts(r)[k].quantity = Quantity(loaded[r], k) + Delta(r, k)
           /\ R!Drafts(r)[k].version
                = (IF loaded[r][k] = NoRow THEN 1 ELSE loaded[r][k].version) + 1
           /\ Delta(r, k) \in Int
           /\ k[2] = "shelf" => Delta(r, k) \in Nat
  <1>1. /\ r \in Requests /\ call[r].op = "resolve" /\ r \notin Receipts
        /\ call[r].resolution \in {"RESTOCK", "SCRAP", "RTV"}
        /\ copy[r] \in Record /\ copy[r].variant \in Variants /\ copy[r].amount \in Nat \ {0}
    <2>1. r \in Requests /\ call[r].op = "resolve" /\ call[r].resolution \in {"RESTOCK", "SCRAP", "RTV"}
      BY ResolutionFacts
    <2>2. copy[r] \in Record
      BY <2>1 DEF TypeInv, Remembers
    <2> QED
      BY <2>1, <2>2, ResolutionFacts DEF Receipts
  <1>2. PICK v, n : v = copy[r].variant /\ n = copy[r].amount
    OBVIOUS
  <1>3. v \in Variants /\ n \in Nat \ {0}
    BY <1>1, <1>2
  <1>4. \/ k = <<v, "quarantine">>
        \/ k = <<v, "shelf">> /\ call[r].resolution = "RESTOCK"
    BY <1>1, <1>2 DEF R!Places, R!Cmd
  <1>5. k \in R!Keys /\ k[1] = v
    BY <1>3, <1>4 DEF R!Keys
  <1>6. CASE k = <<v, "quarantine">>
    <2>1. loaded[r][k] # NoRow /\ loaded[r][k].quantity >= n
      BY <1>2, <1>6 DEF Snapshots
    <2>2. loaded[r][k] \in Item
      BY <1>1, <1>5, <2>1, RowFacts
    <2>3. R!Drafts(r)[k] = R!DispatchStock(loaded[r][k], n)
      BY <1>1, <1>2, <1>5, <1>6 DEF R!Drafts, R!Cmd
    <2>4. Delta(r, k) = 0 - n /\ k[2] # "shelf"
      BY <1>1, <1>2, <1>5, <1>6 DEF Delta
    <2>5. /\ R!Drafts(r)[k] \in Item /\ R!Drafts(r)[k].quantity = loaded[r][k].quantity - n
          /\ R!Drafts(r)[k].version = loaded[r][k].version + 1
      BY <1>3, <2>1, <2>2, <2>3, RevisedIs
    <2>6. loaded[r][k].quantity \in Nat
      BY <2>2 DEF Item
    <2> QED
      BY <1>3, <1>5, <2>1, <2>4, <2>5, <2>6 DEF Quantity
  <1>7. CASE k = <<v, "shelf">> /\ call[r].resolution = "RESTOCK"
    <2>0. k[2] = "shelf" /\ k # <<v, "quarantine">>
      BY <1>7
    <2>1. PICK new \in Item :
             /\ new = R!OrNew(loaded[r][k])
             /\ new.quantity = IF loaded[r][k] = NoRow THEN 0 ELSE loaded[r][k].quantity
             /\ new.version = IF loaded[r][k] = NoRow THEN 1 ELSE loaded[r][k].version
      BY <1>1, <1>5, RowFacts, OrNewIs
    <2>2. R!Drafts(r)[k] = R!ReceiveStock(new, n)
      BY <1>1, <1>2, <1>5, <1>7, <2>0, <2>1 DEF R!Drafts, R!Cmd
    <2>3. Delta(r, k) = n
      BY <1>1, <1>2, <1>5, <1>7, <2>0 DEF Delta
    <2>4. /\ R!Drafts(r)[k] \in Item /\ R!Drafts(r)[k].quantity = new.quantity + n
          /\ R!Drafts(r)[k].version = new.version + 1
      BY <1>3, <2>2, RevisedIs
    <2> QED
      BY <1>3, <1>5, <2>1, <2>3, <2>4 DEF Quantity
  <1> QED
    BY <1>4, <1>6, <1>7

\* Where the rows that are saved are not, nothing changes.
LEMMA DeltaElsewhere ==
    ASSUME TypeInv, NEW r \in Requests, pc[r] = "saveRows", NEW k \in R!Keys, k \notin R!Places(r)
    PROVE  Delta(r, k) = 0
  <1>1. k = <<k[1], k[2]>> /\ k[2] \in {"shelf", "quarantine"}
    BY RowFacts
  <1>2. CASE r \in Receipts
    <2>1. R!Lines(r) \in Seq(R!ReceiptLine) /\ call[r].op = "receive"
      BY <1>2, ReceiptFacts
    <2>2. ASSUME NEW i \in DOMAIN R!Lines(r)
          PROVE  ~(R!Lines(r)[i].variant = k[1] /\ R!Lines(r)[i].disposition \in R!Kept(k[2]))
      <3>1. R!Place(R!Lines(r)[i]) # k
        BY <2>1 DEF R!Places, R!Cmd
      <3> QED
        BY <1>1, <3>1 DEF R!Place, R!Kept
    <2>3. R!Amount(R!Lines(r), R!Kept(k[2]), k[1]) = 0
      BY <2>1, <2>2, AmountOfNone
    <2> QED
      BY <1>2, <2>3 DEF Delta
  <1>3. CASE r \notin Receipts
    <2>1. call[r].op = "resolve"
      BY <1>3, CallKinds DEF TypeInv, Staged
    <2>2. /\ k # <<copy[r].variant, "quarantine">>
          /\ call[r].resolution = "RESTOCK" => k # <<copy[r].variant, "shelf">>
      BY <2>1 DEF R!Places, R!Cmd
    <2> QED
      BY <1>1, <1>3, <2>2 DEF Delta
  <1> QED
    BY <1>2, <1>3
-----------------------------------------------------------------------------
\* What a call takes.
LEMMA WantsAre ==
    ASSUME TypeInv, NEW r \in Requests
    PROVE  /\ r \in Receipts => Wants(r) = R!Takes(r) /\ Wants(r) \in [Variants -> Nat]
           /\ r \in Resolutions /\ pc[r] \notin {"find", "rejected"} =>
                /\ Wants(r) = R!Takes(r) /\ Wants(r) \in [Variants -> Nat]
                /\ Wants(r) = [v \in Variants |-> IF v = copy[r].variant THEN copy[r].amount ELSE 0]
           /\ r \in KitCalls /\ pc[r] \notin {"find", "rejected"} =>
                Wants(r) = K!Takes(r) /\ Wants(r) \in [Variants -> Nat]
  <1>1. CASE r \in Receipts
    BY <1>1, CallKinds, ReceiptFacts DEF Wants
  <1>2. CASE r \in Resolutions
    BY <1>2, CallKinds, ResolutionFacts DEF Wants, TypeInv, Remembers
  <1>3. CASE r \in KitCalls
    BY <1>3, CallKinds, KitFacts DEF Wants, TypeInv, Remembers
  <1> QED
    BY <1>1, <1>2, <1>3

\* A call that is about to consume has read enough.
LEMMA EnoughRead ==
    ASSUME TypeInv, Covered, NEW r \in Requests, pc[r] \in {"consume", "kitConsume"}
    PROVE  /\ Enough(read[r], Wants(r)) /\ Table(read[r]) /\ Grown(read[r], layers) /\ Table(layers)
           /\ pc[r] = "consume" => Wants(r) = R!Takes(r) /\ r \notin KitCalls
           /\ pc[r] = "kitConsume" => Wants(r) = K!Takes(r) /\ r \in KitCalls
  <1>1. /\ Table(read[r]) /\ Grown(read[r], layers) /\ Table(layers)
    BY DEF TypeInv, ValuationTypes, Remembers
  <1>2. /\ pc[r] = "consume" => r \in Receipts \cup Resolutions /\ r \notin KitCalls
        /\ pc[r] = "kitConsume" => r \in KitCalls
    BY CallKinds DEF TypeInv, Staged
  <1>3. Wants(r) \in [Variants -> Nat]
    BY <1>2, WantsAre
  <1>4. /\ pc[r] = "consume" => Wants(r) = R!Takes(r)
        /\ pc[r] = "kitConsume" => Wants(r) = K!Takes(r)
    BY <1>2, WantsAre
  <1> QED
    BY <1>1, <1>2, <1>3, <1>4 DEF Enough, Covered

\* What the consumption of a call leaves.
Overwrites(r) ==
    {v \in Variants : Wants(r)[v] > 0 /\
                      \E i \in Active(read[r], v) : layers[i].consumed # read[r][i].consumed}
Consumes(r) ==
    /\ pc[r] \in {"consume", "kitConsume"}
    /\ layers' = Consumed(layers, read[r], Wants(r))
    /\ stale' = stale \cup Overwrites(r)

LEMMA ReturnConsumes ==
    ASSUME TypeInv, Covered, NEW r \in Requests, R!Consume(r)
    PROVE  Consumes(r)
  <1>1. pc[r] = "consume" /\ Wants(r) = R!Takes(r)
    BY EnoughRead DEF R!Consume
  <1>2. layers' = R!Written(layers, read[r], R!ConsumedAll(read[r], R!Takes(r)), R!TakenVariants(r))
    BY DEF R!Consume
  <1>3. R!TakenVariants(r) = {v \in Variants : Wants(r)[v] > 0}
    BY <1>1 DEF R!TakenVariants
  <1>4. layers' = Consumed(layers, read[r], Wants(r))
    BY <1>1, <1>2, <1>3, WrittenAre, ConsumedAre DEF Consumed
  <1>5. stale' = stale \cup {v \in R!TakenVariants(r) : R!Stale(r, v)}
    BY DEF R!Consume
  <1>6. {v \in R!TakenVariants(r) : R!Stale(r, v)} = Overwrites(r)
    BY <1>3, ActiveIs DEF R!Stale, Overwrites
  <1> QED
    BY <1>1, <1>4, <1>5, <1>6 DEF Consumes

LEMMA KitConsumes ==
    ASSUME TypeInv, Covered, NEW r \in Requests, K!ConsumeKitLayers(r)
    PROVE  Consumes(r)
  <1>1. pc[r] = "kitConsume" /\ Wants(r) = K!Takes(r)
    BY EnoughRead DEF K!ConsumeKitLayers
  <1>2. layers' = K!Written(layers, read[r], K!ConsumedAll(read[r], K!Takes(r)), K!TakenVariants(r))
    BY DEF K!ConsumeKitLayers
  <1>3. K!TakenVariants(r) = {v \in Variants : Wants(r)[v] > 0}
    BY <1>1 DEF K!TakenVariants
  <1>4. layers' = Consumed(layers, read[r], Wants(r))
    BY <1>1, <1>2, <1>3, WrittenAre, ConsumedAre DEF Consumed
  <1>5. stale' = stale \cup {v \in K!TakenVariants(r) : K!Stale(r, v)}
    BY DEF K!ConsumeKitLayers
  <1>6. {v \in K!TakenVariants(r) : K!Stale(r, v)} = Overwrites(r)
    BY <1>3, ActiveIs DEF K!Stale, Overwrites
  <1> QED
    BY <1>1, <1>4, <1>5, <1>6 DEF Consumes

LEMMA SameIsGrown ==
    ASSUME NEW t, NEW w, SameLayers(t, w)
    PROVE  Grown(t, w)
BY DEF SameLayers, Grown

LEMMA GrownOn ==
    ASSUME NEW t, NEW w, NEW x, Grown(t, w), Grown(w, x)
    PROVE  Grown(t, x)
BY DEF Grown

LEMMA ConsumeTables ==
    ASSUME TypeInv, Covered, NEW r \in Requests, Consumes(r)
    PROVE  Table(layers') /\ SameLayers(layers, layers') /\ Grown(layers, layers')
           /\ stale' \subseteq Variants
  <1>1. Table(layers') /\ SameLayers(layers, layers')
    BY EnoughRead, WrittenFacts DEF Consumes
  <1> QED
    BY <1>1, SameIsGrown DEF Consumes, Overwrites, TypeInv, ValuationTypes

\* What it is charged.
LEMMA ChargedNat ==
    ASSUME NEW t, Table(t), NEW v, NEW n \in Nat
    PROVE  Charged("FIFO", t, v, n) \in Nat
  <1> DEFINE f == [i \in Active(t, v) |-> Given("FIFO", t, v, n, i) * t[i].cost]
  <1>1. Active(t, v) \subseteq DOMAIN t /\ IsFiniteSet(Active(t, v))
    BY ActiveFacts
  <1>2. ASSUME NEW i \in Active(t, v) PROVE f[i] \in Nat
    <2>1. Given("FIFO", t, v, n, i) \in Nat /\ t[i].cost \in Nat
      BY <1>1, GivenFacts, LayerFacts
    <2>2. \A p, q \in Nat : p * q \in Nat
      OBVIOUS
    <2> QED
      BY <2>1, <2>2
  <1>3. Charged("FIFO", t, v, n) = SumFunctionOnSet(f, Active(t, v))
    BY DEF Charged
  <1> HIDE DEF f
  <1> QED
    BY <1>1, <1>2, <1>3, SumNat

LEMMA ChargeNat ==
    ASSUME TypeInv, NEW r \in Requests, Wants(r) \in [Variants -> Nat]
    PROVE  /\ Charge(r) \in Nat
           /\ Summable([v \in Variants |-> Charged("FIFO", read[r], v, Wants(r)[v])], Variants)
  <1> DEFINE f == [v \in Variants |-> Charged("FIFO", read[r], v, Wants(r)[v])]
  <1>1. Table(read[r])
    BY DEF TypeInv, Remembers
  <1>2. \A v \in Variants : f[v] \in Nat
    BY <1>1, ChargedNat
  <1>3. IsFiniteSet(Variants) /\ Charge(r) = SumFunctionOnSet(f, Variants)
    BY ValuationAssumption DEF ValuationAssumption, Charge
  <1> HIDE DEF f
  <1>4. SumFunctionOnSet(f, Variants) \in Nat
    BY <1>2, <1>3, SumNat
  <1>5. Summable(f, Variants)
    BY <1>2, <1>3 DEF Summable
  <1> QED
    BY <1>3, <1>4, <1>5 DEF f

LEMMA WorthNat ==
    ASSUME TypeInv, NEW r \in Receipts, NEW ds
    PROVE  /\ Worth(r, ds) \in Nat
           /\ Worth(r, ds) = SumFunctionOnSet([v \in Variants |-> R!Amount(R!Lines(r), ds, v) * UnitCost[call[r].rma][v]], Variants)
           /\ Summable([v \in Variants |-> R!Amount(R!Lines(r), ds, v) * UnitCost[call[r].rma][v]], Variants)
           /\ UnitCost[call[r].rma] \in [Variants -> Nat]
  <1> DEFINE f == [v \in Variants |-> R!Amount(R!Lines(r), ds, v) * UnitCost[call[r].rma][v]]
  <1>1. UnitCost[call[r].rma] \in [Variants -> Nat] /\ IsFiniteSet(Variants)
    BY ReceiptFacts, ValuationAssumption DEF ValuationAssumption
  <1>2. \A v \in Variants : f[v] \in Nat
    <2>1. TAKE v \in Variants
    <2>2. R!Amount(R!Lines(r), ds, v) \in Nat /\ UnitCost[call[r].rma][v] \in Nat
      BY <1>1, ReceiptFacts
    <2>3. \A p, q \in Nat : p * q \in Nat
      OBVIOUS
    <2> QED
      BY <2>2, <2>3
  <1>3. Worth(r, ds) = SumFunctionOnSet(f, Variants)
    BY SumOfReturns DEF Worth, R!CostOfLines
  <1> HIDE DEF f
  <1>4. SumFunctionOnSet(f, Variants) \in Nat
    BY <1>1, <1>2, SumNat
  <1>5. Summable(f, Variants)
    BY <1>1, <1>2 DEF Summable
  <1> QED
    BY <1>1, <1>3, <1>4, <1>5 DEF f
-----------------------------------------------------------------------------
\* The tables have their types.
Tables ==
    /\ Table(layers) /\ stale \subseteq Variants
    /\ items \in [R!Keys -> Item \cup {NoRow}]
    /\ rmas \in [Rmas -> Rma \cup {NoRma}]
    /\ IsRecords(quarantine)
    /\ booked \in Int /\ goods \in Int /\ parts \in Int
    /\ ledger \in [Variants -> Int]
    /\ kit \in K!Recipes \cup {None}

\* Most steps only read.
Untouched ==
    /\ layers' = layers /\ stale' = stale /\ items' = items /\ rmas' = rmas
    /\ quarantine' = quarantine /\ booked' = booked /\ goods' = goods /\ parts' = parts
    /\ ledger' = ledger /\ kit' = kit

ReturnReads(r) ==
    \/ R!Create(r) \/ R!Authorize(r) \/ R!FindRma(r) \/ R!LoadReceipt(r) \/ R!ReadLayers(r)
    \/ R!FindRecord(r) \/ R!Intercept(r) \/ R!LoadQuarantine(r) \/ R!LoadShelf(r)
KitReads(r) ==
    \/ K!AddKitComponent(r) \/ K!RemoveKitComponent(r) \/ K!FindKit(r) \/ K!CheckLedger(r)
    \/ K!ReadKitLayers(r) \/ K!ReadAverages(r)

LEMMA TablesTyped ==
    ASSUME TypeInv
    PROVE  Tables
BY DEF TypeInv, ValuationTypes, Tables, IsRecords

LEMMA ReturnReadsOnly ==
    ASSUME NEW r \in Requests, RSays(r), ReturnReads(r)
    PROVE  Untouched
  <1>1. R!tables' = R!tables
    BY DEF ReturnReads, R!Create, R!Authorize, R!FindRma, R!LoadReceipt, R!ReadLayers,
           R!FindRecord, R!Intercept, R!LoadQuarantine, R!LoadShelf
  <1> QED
    BY <1>1 DEF R!tables, RSays, kitsOnly, Untouched

LEMMA KitReadsOnly ==
    ASSUME NEW r \in Requests, KSays(r), KitReads(r)
    PROVE  Untouched
  <1>1. K!tables' = K!tables
    BY DEF KitReads, K!AddKitComponent, K!RemoveKitComponent, K!FindKit, K!CheckLedger,
           K!ReadKitLayers, K!ReadAverages
  <1> QED
    BY <1>1 DEF K!tables, KSays, returnsOnly, Untouched

LEMMA GrownSelf ==
    ASSUME NEW t
    PROVE  Grown(t, t)
BY DEF Grown

\* What its rows are after the save.
LEMMA SavedRows ==
    ASSUME TypeInv, Snapshots, NEW r \in Requests, pc[r] = "saveRows"
    PROVE  /\ r \in Receipts \/ r \in Resolutions
           /\ \A k \in R!Places(r) : k \in R!Keys /\ R!Drafts(r)[k] \in Item
  <1>1. r \in Receipts \/ r \in Resolutions
    BY CallKinds DEF TypeInv, Staged
  <1>2. CASE r \in Receipts
    BY <1>1, <1>2, ReceiptDraft
  <1>3. CASE r \in Resolutions
    BY <1>1, <1>3, ResolutionDraft
  <1> QED
    BY <1>1, <1>2, <1>3

\* The layers and the records that a receipt adds.
LEMMA ReceiptLayers ==
    ASSUME TypeInv, NEW r \in Requests, R!SaveLayers(r)
    PROVE  \E new : /\ layers' = layers \o new /\ Fresh(new)
                    /\ r \in Receipts
                    /\ \A v \in Variants :
                          /\ Initials(new, v) = R!Amount(R!Lines(r), R!Dispositions, v)
                          /\ Value(new, v) = R!Amount(R!Lines(r), R!Dispositions, v)
                                                * UnitCost[call[r].rma][v]
  <1>1. r \in Receipts
    BY CallKinds DEF TypeInv, Staged, R!SaveLayers
  <1>2. R!Lines(r) \in Seq(R!ReceiptLine) /\ UnitCost[call[r].rma] \in [Variants -> Nat]
    BY <1>1, ReceiptFacts, WorthNat
  <1>3. PICK lines, cost : lines = R!Lines(r) /\ cost = UnitCost[call[r].rma]
    OBVIOUS
  <1>4. lines \in Seq(R!ReceiptLine) /\ cost \in [Variants -> Nat]
    BY <1>2, <1>3
  <1>5. PICK new : new = [i \in DOMAIN lines |-> R!NewLayer(lines[i].variant, lines[i].amount,
                                                           cost[lines[i].variant])]
    OBVIOUS
  <1>6. layers' = layers \o new
    BY <1>3, <1>5 DEF R!SaveLayers, R!Cmd
  <1>7. \A v \in Variants :
            /\ Fresh(new)
            /\ Initials(new, v) = R!Amount(lines, R!Dispositions, v)
            /\ Value(new, v) = R!Amount(lines, R!Dispositions, v) * cost[v]
    BY <1>4, <1>5, LineLayers
  <1>8. \E v \in Variants : TRUE
    BY ValuationAssumption DEF ValuationAssumption
  <1> QED
    BY <1>1, <1>3, <1>6, <1>7, <1>8

LEMMA ReceiptRecords ==
    ASSUME TypeInv, NEW r \in Requests, R!SaveRecords(r)
    PROVE  /\ r \in Receipts /\ IsRecords(quarantine')
           /\ \A v : Recorded(quarantine', v)
                       = Recorded(quarantine, v) + R!Amount(R!Lines(r), {"QUARANTINE"}, v)
  <1>1. r \in Receipts
    BY CallKinds DEF TypeInv, Staged, R!SaveRecords
  <1>2. R!Lines(r) \in Seq(R!ReceiptLine) /\ IsRecords(quarantine)
    BY <1>1, ReceiptFacts DEF TypeInv, ValuationTypes, IsRecords
  <1>3. PICK lines : lines = R!Lines(r)
    OBVIOUS
  <1>4. IsLines(lines)
    BY <1>2, <1>3 DEF IsLines
  <1>5. R!SetToSeq(R!Marked(r, "QUARANTINE")) = SetToSeq(Held(lines))
    BY <1>3, SeqOfReturns DEF R!Marked, Held
  <1>6. PICK new : /\ quarantine' = quarantine \o new
                   /\ RecordsOf(new, lines)
    BY <1>3, <1>5 DEF R!SaveRecords, RecordsOf
  <1>7. \A v : /\ IsRecords(quarantine \o new)
               /\ Recorded(quarantine \o new, v) = Recorded(quarantine, v) + R!Amount(lines, {"QUARANTINE"}, v)
    BY <1>2, <1>4, <1>6, RecordsAdded
  <1> QED
    BY <1>1, <1>3, <1>6, <1>7

\* The resolution of a record changes its status alone.
LEMMA ResolvedRecord ==
    ASSUME TypeInv, NEW r \in Requests, R!SaveRecord(r)
    PROVE  /\ IsRecords(quarantine') /\ r \in Resolutions
           /\ \A v : Recorded(quarantine', v) = Recorded(quarantine, v)
  <1>1. r \in Resolutions
    BY CallKinds DEF TypeInv, Staged, R!SaveRecord
  <1>2. PICK n, s : n = call[r].record /\ s = R!Outcome[call[r].resolution]
    OBVIOUS
  <1>3. s \in {R!Outcome[x] : x \in DOMAIN R!Outcome}
    BY <1>1, <1>2, ResolutionFacts DEF R!Outcome
  <1>4. quarantine' = [quarantine EXCEPT ![n].status = s] /\ quarantine \in Seq(Record)
    BY <1>2 DEF R!SaveRecord, R!Cmd, TypeInv, ValuationTypes
  <1>5. PICK t, w : t = quarantine /\ w = quarantine'
    OBVIOUS
  <1>6. t \in Seq(Record) /\ w = [t EXCEPT ![n].status = s]
    BY <1>4, <1>5
  <1>7. DOMAIN w = DOMAIN t /\ Len(t) \in Nat /\ DOMAIN t = 1..Len(t)
    BY <1>6
  <1>8. ASSUME NEW i \in DOMAIN t
        PROVE  w[i] \in Record /\ w[i].variant = t[i].variant /\ w[i].amount = t[i].amount
    <2>1. t[i] \in Record
      BY <1>6
    <2>2. w[i] = IF i = n THEN [t[i] EXCEPT !.status = s] ELSE t[i]
      BY <1>6
    <2> QED
      BY <1>3, <2>1, <2>2 DEF Record
  <1>9. w \in Seq(Record)
    <2>1. w \in [1..Len(t) -> Record]
      BY <1>6, <1>7, <1>8
    <2> QED
      BY <1>7, <2>1
  <1>10. \A v : Noted(w, v) = Noted(t, v)
    BY <1>7, <1>8 DEF Noted
  <1>11. IsRecords(t) /\ IsRecords(w)
    BY <1>6, <1>9 DEF IsRecords
  <1>12. \A v : Recorded(w, v) = Recorded(t, v)
    BY <1>7, <1>10, <1>11, RecordFacts
  <1> QED
    BY <1>1, <1>5, <1>11, <1>12
-----------------------------------------------------------------------------
\* The costs of what a kit call makes.
LEMMA KitCost ==
    ASSUME TypeInv, NEW r \in KitCalls, pc[r] \notin {"find", "rejected"}
    PROVE  /\ K!Cost(r) = Charge(r) /\ K!Cost(r) \in Nat
           /\ K!Estimate(r) \in Nat
           /\ \A v \in Variants : K!NewCost(r, v) \in Nat
  <1>1. /\ r \in Requests /\ Wants(r) = K!Takes(r) /\ Wants(r) \in [Variants -> Nat]
        /\ recipe[r] \in K!Recipes /\ average[r] \in [Variants -> Nat]
    BY WantsAre, KitFacts DEF TypeInv, Remembers, ValuationTypes
  <1>2. K!Cost(r) = Charge(r)
    BY <1>1, TotalsAre DEF K!Cost, Charge
  <1>3. K!Cost(r) \in Nat
    BY <1>1, <1>2, ChargeNat
  <1>4. K!Estimate(r) \in Nat
    <2> DEFINE f == [v \in Variants |-> K!Need(r, v) * average[r][v]]
    <2>1. \A v \in Variants : f[v] \in Nat
      <3>1. TAKE v \in Variants
      <3>2. K!Need(r, v) \in Nat /\ average[r][v] \in Nat
        BY <1>1, KitFacts
      <3>3. \A p, q \in Nat : p * q \in Nat
        OBVIOUS
      <3> QED
        BY <3>2, <3>3
    <2>2. IsFiniteSet(Variants) /\ K!Estimate(r) = SumFunctionOnSet(f, Variants)
      BY ValuationAssumption, SumOfKits DEF ValuationAssumption, K!Estimate
    <2> HIDE DEF f
    <2> QED
      BY <2>1, <2>2, SumNat
  <1>5. ASSUME NEW v \in Variants PROVE K!NewCost(r, v) \in Nat
    <2>1. call[r].amount \in Nat \ {0}
      BY KitFacts
    <2>2. CASE K!Building(r)
      <3>1. K!NewCost(r, v) = Round(K!Cost(r), call[r].amount)
        BY <2>2 DEF K!NewCost, K!Round, Round, K!Cmd
      <3> QED
        BY <1>3, <2>1, <3>1, RoundFacts
    <2>3. CASE ~K!Building(r) /\ K!Estimate(r) = 0
      BY <2>3 DEF K!NewCost
    <2>4. CASE ~K!Building(r) /\ K!Estimate(r) # 0
      <3>1. K!NewCost(r, v) = Round(average[r][v] * K!Cost(r), K!Estimate(r))
        BY <2>4 DEF K!NewCost, K!Round, Round
      <3>2. average[r][v] \in Nat
        BY <1>1
      <3>3. average[r][v] * K!Cost(r) \in Nat
        <4>1. \A p, q \in Nat : p * q \in Nat
          OBVIOUS
        <4> QED
          BY <1>3, <3>2, <4>1
      <3> QED
        BY <1>4, <2>4, <3>1, <3>3, RoundFacts
    <2> QED
      BY <2>2, <2>3, <2>4
  <1> QED
    BY <1>2, <1>3, <1>4, <1>5

LEMMA KitLayers ==
    ASSUME TypeInv, NEW r \in Requests, K!SaveNewLayers(r)
    PROVE  \E new : /\ layers' = layers \o new /\ Fresh(new) /\ r \in KitCalls
                    /\ \A v \in Variants : /\ Initials(new, v) = K!Makes(r)[v]
                                           /\ Value(new, v) = K!Makes(r)[v] * K!NewCost(r, v)
  <1>1. r \in KitCalls /\ pc[r] = "newLayers"
    BY CallKinds DEF TypeInv, Staged, K!SaveNewLayers
  <1>2. K!Makes(r) \in [Variants -> Nat]
    BY <1>1, KitFacts DEF TypeInv, Remembers
  <1>3. PICK makes, cost : makes = K!Makes(r) /\ cost = [v \in Variants |-> K!NewCost(r, v)]
    OBVIOUS
  <1>4. makes \in [Variants -> Nat] /\ cost \in [Variants -> Nat]
    BY <1>1, <1>2, <1>3, KitCost
  <1>5. K!SetToSeq(K!MadeVariants(r)) = SetToSeq(MadeOf(makes))
    BY <1>3, SeqOfKits DEF K!MadeVariants, MadeOf
  <1>6. MadeOf(makes) \subseteq Variants /\ IsFiniteSet(MadeOf(makes))
    <2>1. MadeOf(makes) \subseteq Variants /\ IsFiniteSet(Variants)
      BY ValuationAssumption DEF ValuationAssumption, MadeOf
    <2> QED
      BY <2>1, FS_Subset
  <1>7. PICK vs : vs = SetToSeq(MadeOf(makes))
    OBVIOUS
  <1>8. \A i \in DOMAIN vs : vs[i] \in Variants
    BY <1>6, <1>7, ListedOnce
  <1>9. PICK new : new = [i \in DOMAIN vs |-> K!NewLayer(vs[i], makes[vs[i]], cost[vs[i]])]
    OBVIOUS
  <1>10. layers' = layers \o new
    <2>1. layers' = layers \o [i \in DOMAIN vs |-> K!NewLayer(vs[i], makes[vs[i]], K!NewCost(r, vs[i]))]
      BY <1>3, <1>5, <1>7 DEF K!SaveNewLayers
    <2>2. \A i \in DOMAIN vs : cost[vs[i]] = K!NewCost(r, vs[i])
      BY <1>3, <1>8
    <2> QED
      BY <1>9, <2>1, <2>2
  <1>11. LayersOf(new, makes, cost)
    BY <1>7, <1>9 DEF LayersOf
  <1>12. ASSUME NEW v \in Variants
         PROVE  /\ Fresh(new) /\ Initials(new, v) = makes[v] /\ Value(new, v) = makes[v] * cost[v]
                /\ cost[v] = K!NewCost(r, v)
    BY <1>3, <1>4, <1>11, VariantLayers
  <1>13. KitVariant \in Variants
    BY ValuationAssumption DEF ValuationAssumption
  <1> QED
    BY <1>1, <1>3, <1>10, <1>12, <1>13
-----------------------------------------------------------------------------
\* A step of a return leaves the tables typed, and the layers where they were.
LEMMA ReturnTables ==
    ASSUME TypeInv, Snapshots, Covered, NEW r \in Requests, RSays(r)
    PROVE  Tables' /\ Grown(layers, layers')
  <1>0. /\ Tables /\ kit' = kit /\ ledger' = ledger /\ goods' = goods /\ parts' = parts
        /\ Grown(layers, layers)
    BY TablesTyped, GrownSelf DEF RSays, kitsOnly
  <1>1. CASE ReturnReads(r)
    BY <1>0, <1>1, ReturnReadsOnly DEF Untouched, Tables
  <1>2. CASE R!Insert(r)
    <2>1. call[r].rma \in Rmas
      BY <1>2, CommandType DEF TypeInv, ValuationTypes, Staged, R!Insert
    <2>2. R!Blank(call[r].rma) \in Rma
      BY DEF R!Blank, Rma, R!RmaStates
    <2>3. rmas' \in [Rmas -> Rma \cup {NoRma}]
      BY <1>0, <1>2, <2>1, <2>2 DEF R!Insert, R!Cmd, Tables
    <2> QED
      BY <1>0, <1>2, <2>3 DEF R!Insert, Tables
  <1>3. CASE R!Consume(r)
    BY <1>0, <1>3, ReturnConsumes, ConsumeTables DEF R!Consume, Tables
  <1>4. CASE R!SaveRows(r)
    <2>1. /\ pc[r] = "saveRows" /\ layers' = layers /\ rmas' = rmas /\ quarantine' = quarantine
          /\ booked' = booked
          /\ \/ items' = items /\ stale' = stale
             \/ /\ items' = [k \in R!Keys |-> IF k \in R!Places(r) THEN R!Drafts(r)[k] ELSE items[k]]
                /\ stale' = stale \cup {k[1] : k \in {p \in R!Places(r) : items[p] # loaded[r][p]}}
      BY <1>4 DEF R!SaveRows
    <2>2. \A k \in R!Places(r) : k \in R!Keys /\ k[1] \in Variants /\ R!Drafts(r)[k] \in Item
      BY <2>1, SavedRows, RowFacts
    <2>3. items' \in [R!Keys -> Item \cup {NoRow}] /\ stale' \subseteq Variants
      BY <1>0, <2>1, <2>2 DEF Tables
    <2> QED
      BY <1>0, <2>1, <2>3 DEF Tables
  <1>5. CASE R!SaveLayers(r)
    <2>1. Table(layers') /\ Grown(layers, layers')
      BY <1>0, <1>5, ReceiptLayers, AppendFacts DEF Tables
    <2> QED
      BY <1>0, <1>5, <2>1 DEF R!SaveLayers, Tables
  <1>6. CASE R!SaveRecords(r)
    <2>1. IsRecords(quarantine')
      BY <1>6, ReceiptRecords
    <2> QED
      BY <1>0, <1>6, <2>1 DEF R!SaveRecords, Tables
  <1>7. CASE R!Journal(r)
    <2>1. r \in Receipts
      BY <1>7, CallKinds DEF TypeInv, Staged, R!Journal
    <2>2. booked' = booked + Worth(r, R!Dispositions) - Worth(r, {"SCRAP"})
      BY <1>7 DEF R!Journal, Worth, R!Cmd
    <2>3. booked' \in Int
      BY <1>0, <2>1, <2>2, WorthNat DEF Tables
    <2> QED
      BY <1>0, <1>7, <2>3 DEF R!Journal, Tables
  <1>8. CASE R!SaveRma(r)
    <2>1. pc[r] = "saveRma"
      BY <1>8 DEF R!SaveRma
    <2>2. call[r].rma \in Rmas /\ copy[r] \in Rma
      BY <2>1, CommandType DEF TypeInv, ValuationTypes, Staged, Remembers
    <2>3. rmas' \in [Rmas -> Rma \cup {NoRma}]
      BY <1>0, <1>8, <2>2 DEF R!SaveRma, R!Cmd, Tables
    <2> QED
      BY <1>0, <1>8, <2>3 DEF R!SaveRma, Tables
  <1>9. CASE R!WriteOff(r)
    <2>1. r \in Resolutions /\ pc[r] = "writeOff"
      BY <1>9, CallKinds DEF TypeInv, Staged, R!WriteOff
    <2>2. Wants(r) = R!Takes(r) /\ Wants(r) \in [Variants -> Nat]
      BY <2>1, WantsAre
    <2>3. booked' = booked - Charge(r) /\ Charge(r) \in Nat
      BY <1>9, <2>2, TotalsAre, ChargeNat DEF R!WriteOff, Charge
    <2>4. booked' \in Int
      BY <1>0, <2>3 DEF Tables
    <2> QED
      BY <1>0, <1>9, <2>4 DEF R!WriteOff, Tables
  <1>10. CASE R!SaveRecord(r)
    <2>1. IsRecords(quarantine')
      BY <1>10, ResolvedRecord
    <2> QED
      BY <1>0, <1>10, <2>1 DEF R!SaveRecord, Tables
  <1> QED
    BY <1>1, <1>2, <1>3, <1>4, <1>5, <1>6, <1>7, <1>8, <1>9, <1>10
       DEF RSays, R!Execute, ReturnReads

\* So does a step of a kit.
LEMMA KitTables ==
    ASSUME TypeInv, Covered, NEW r \in Requests, KSays(r)
    PROVE  Tables' /\ Grown(layers, layers')
  <1>0. /\ Tables /\ items' = items /\ rmas' = rmas /\ quarantine' = quarantine
        /\ booked' = booked /\ Grown(layers, layers)
    BY TablesTyped, GrownSelf DEF KSays, returnsOnly
  <1>1. CASE KitReads(r)
    BY <1>0, <1>1, KitReadsOnly DEF Untouched, Tables
  <1>2. CASE K!CreateKit(r)
    <2>1. call[r].recipe \in K!Recipes
      BY <1>2, CommandType DEF TypeInv, ValuationTypes, K!CreateKit, K!Cmd
    <2> QED
      BY <1>0, <1>2, <2>1 DEF K!CreateKit, K!Cmd, Tables
  <1>3. CASE K!SaveKit(r)
    <2>1. recipe[r] \in K!Recipes
      BY <1>3 DEF TypeInv, Remembers, K!SaveKit
    <2> QED
      BY <1>0, <1>3, <2>1 DEF K!SaveKit, Tables
  <1>4. CASE K!ConsumeKitLayers(r)
    BY <1>0, <1>4, KitConsumes, ConsumeTables DEF K!ConsumeKitLayers, Tables
  <1>5. CASE K!SaveNewLayers(r)
    <2>1. Table(layers') /\ Grown(layers, layers')
      BY <1>0, <1>5, KitLayers, AppendFacts DEF Tables
    <2> QED
      BY <1>0, <1>5, <2>1 DEF K!SaveNewLayers, Tables
  <1>6. CASE K!AppendEntries(r)
    <2>1. r \in KitCalls /\ pc[r] = "append"
      BY <1>6, CallKinds DEF TypeInv, Staged, K!AppendEntries
    <2>2. K!Takes(r) \in [Variants -> Nat] /\ K!Makes(r) \in [Variants -> Nat]
      BY <2>1, KitFacts DEF TypeInv, Remembers
    <2>3. ledger' \in [Variants -> Int]
      BY <1>0, <1>6, <2>2 DEF K!AppendEntries, Tables
    <2> QED
      BY <1>0, <1>6, <2>3 DEF K!AppendEntries, Tables
  <1>7. CASE K!KitJournal(r)
    <2>1. r \in KitCalls /\ pc[r] = "kitJournal"
      BY <1>7, CallKinds DEF TypeInv, Staged, K!KitJournal
    <2>2. K!Cost(r) \in Int
      BY <2>1, KitCost
    <2>3. goods' \in Int /\ parts' \in Int
      BY <1>0, <1>7, <2>2 DEF K!KitJournal, Tables
    <2> QED
      BY <1>0, <1>7, <2>3 DEF K!KitJournal, Tables
  <1> QED
    BY <1>1, <1>2, <1>3, <1>4, <1>5, <1>6, <1>7 DEF KSays, K!Execute, KitReads
-----------------------------------------------------------------------------
LEMMA ReturnOps ==
    ASSUME TypeInv, NEW r \in Requests, RSays(r)
    PROVE  /\ call[r].op \in {"create", "authorize", "receive", "resolve"}
           /\ r \notin KitCalls /\ pc[r] # "saveKit"
  <1>1. call[r].op \in {"create", "authorize", "receive", "resolve"}
    BY DEF RSays, R!Execute, R!Create, R!Insert, R!Authorize, R!FindRma, R!LoadReceipt,
           R!ReadLayers, R!Consume, R!SaveRows, R!SaveLayers, R!SaveRecords, R!Journal,
           R!SaveRma, R!FindRecord, R!Intercept, R!LoadQuarantine, R!LoadShelf, R!WriteOff,
           R!SaveRecord, R!Cmd, TypeInv, Staged
  <1> QED
    BY <1>1 DEF KitCalls, TypeInv, Staged

LEMMA KitOps ==
    ASSUME TypeInv, NEW r \in Requests, KSays(r)
    PROVE  /\ call[r].op \in {"assemble", "disassemble", "createKit", "addComponent", "removeComponent"}
           /\ r \notin Receipts /\ r \notin Resolutions
  <1>1. call[r].op \in {"assemble", "disassemble", "createKit", "addComponent", "removeComponent"}
    BY DEF KSays, K!Execute, K!CreateKit, K!AddKitComponent, K!RemoveKitComponent, K!SaveKit,
           K!FindKit, K!CheckLedger, K!ReadKitLayers, K!ConsumeKitLayers, K!ReadAverages,
           K!SaveNewLayers, K!AppendEntries, K!KitJournal, K!Cmd, TypeInv, Staged
  <1> QED
    BY <1>1 DEF Receipts, Resolutions

\* A call comes only to the stages of its command.
LEMMA ReturnStages ==
    ASSUME TypeInv, NEW r \in Requests, RSays(r)
    PROVE  Staged(r)'
  <1>0. call' = call /\ pc \in [Requests -> Stages] /\ Staged(r)
    BY DEF RSays, TypeInv, ValuationTypes
  <1>1. CASE R!Create(r) \/ R!Insert(r) \/ R!Authorize(r) \/ R!FindRma(r)
    BY <1>0, <1>1 DEF R!Create, R!Insert, R!Authorize, R!FindRma, R!Goto, R!Cmd, Staged
  <1>2. CASE R!LoadReceipt(r) \/ R!SaveLayers(r) \/ R!SaveRecords(r) \/ R!Journal(r) \/ R!SaveRma(r)
    BY <1>0, <1>2 DEF R!LoadReceipt, R!SaveLayers, R!SaveRecords, R!Journal, R!SaveRma, R!Goto, R!Cmd, Staged
  <1>3. CASE R!ReadLayers(r) \/ R!Consume(r) \/ R!SaveRows(r)
    BY <1>0, <1>3 DEF R!ReadLayers, R!Consume, R!SaveRows, R!Goto, R!Cmd, Staged
  <1>4. CASE R!FindRecord(r) \/ R!Intercept(r)
    BY <1>0, <1>4 DEF R!FindRecord, R!Intercept, R!Goto, R!Cmd, Staged
  <1>5. CASE R!LoadQuarantine(r)
    BY <1>0, <1>5 DEF R!LoadQuarantine, R!Goto, R!Cmd, Staged
  <1>6. CASE R!LoadShelf(r) \/ R!WriteOff(r) \/ R!SaveRecord(r)
    BY <1>0, <1>6 DEF R!LoadShelf, R!WriteOff, R!SaveRecord, R!Goto, R!Cmd, Staged
  <1> QED
    BY <1>1, <1>2, <1>3, <1>4, <1>5, <1>6 DEF RSays, R!Execute

LEMMA KitStages ==
    ASSUME TypeInv, NEW r \in Requests, KSays(r)
    PROVE  Staged(r)'
  <1>0. call' = call /\ pc \in [Requests -> Stages] /\ Staged(r)
    BY DEF KSays, TypeInv, ValuationTypes
  <1>1. CASE K!CreateKit(r) \/ K!AddKitComponent(r) \/ K!RemoveKitComponent(r) \/ K!SaveKit(r)
    BY <1>0, <1>1 DEF K!CreateKit, K!AddKitComponent, K!RemoveKitComponent, K!SaveKit, K!Goto, K!Cmd, Staged
  <1>2. CASE K!FindKit(r) \/ K!CheckLedger(r) \/ K!ReadKitLayers(r) \/ K!ConsumeKitLayers(r)
    BY <1>0, <1>2 DEF K!FindKit, K!CheckLedger, K!ReadKitLayers, K!ConsumeKitLayers, K!Building, K!Goto, K!Cmd, Staged
  <1>3. CASE K!ReadAverages(r) \/ K!SaveNewLayers(r) \/ K!AppendEntries(r) \/ K!KitJournal(r)
    BY <1>0, <1>3 DEF K!ReadAverages, K!SaveNewLayers, K!AppendEntries, K!KitJournal, K!Goto, K!Cmd, Staged
  <1> QED
    BY <1>1, <1>2, <1>3 DEF KSays, K!Execute

LEMMA ReceivedRma ==
    ASSUME TypeInv, NEW r \in Receipts, copy[r] \in Rma
    PROVE  /\ R!Received(copy[r], call[r].rma, R!Lines(r)) \in Rma
           /\ \A v \in Variants :
                  R!Received(copy[r], call[r].rma, R!Lines(r)).received[v]
                    = copy[r].received[v] + R!Amount(R!Lines(r), R!Dispositions, v)
           /\ R!Received(copy[r], call[r].rma, R!Lines(r)).status = "COMPLETED" =>
                  R!Received(copy[r], call[r].rma, R!Lines(r)).received = Expected[call[r].rma]
  <1>1. copy[r].received \in [Variants -> Nat]
    BY DEF Rma
  <1>2. PICK g : g = [v \in Variants |-> copy[r].received[v] + R!Amount(R!Lines(r), R!Dispositions, v)]
    OBVIOUS
  <1>3. g \in [Variants -> Nat]
    BY <1>1, <1>2, ReceiptFacts
  <1>4. PICK s \in {"COMPLETED", "RECEIVED"} :
            /\ s = IF g = Expected[call[r].rma] THEN "COMPLETED" ELSE "RECEIVED"
            /\ R!Received(copy[r], call[r].rma, R!Lines(r)) = [status |-> s, received |-> g]
    BY <1>2 DEF R!Received
  <1> QED
    BY <1>2, <1>3, <1>4 DEF Rma, R!RmaStates

\* What a call has in memory is what its later steps take it for.
LEMMA ReturnRemembers ==
    ASSUME TypeInv, Tables', Grown(layers, layers'), NEW r \in Requests, RSays(r)
    PROVE  Remembers(r)'
  <1>0. /\ call' = call /\ recipe' = recipe /\ Remembers(r) /\ Staged(r) /\ pc \in [Requests -> Stages]
        /\ DOMAIN copy = Requests /\ DOMAIN read = Requests /\ Table(layers)
        /\ Receipts' = Receipts /\ Resolutions' = Resolutions /\ KitCalls' = KitCalls
        /\ r \notin KitCalls /\ pc[r] # "saveKit"
    BY ReturnOps DEF RSays, kitsOnly, TypeInv, ValuationTypes, Receipts, Resolutions, KitCalls
  <1>1. Table(read'[r]) /\ Grown(read'[r], layers')
    <2>1. CASE read' = read
      BY <1>0, <2>1, GrownOn DEF Remembers
    <2>2. CASE R!ReadLayers(r) /\ read' # read
      <3>1. read'[r] = layers
        BY <1>0, <2>2 DEF R!ReadLayers
      <3> QED
        BY <1>0, <3>1
    <2>3. read' = read \/ R!ReadLayers(r)
      BY DEF RSays, R!Execute, R!Create, R!Insert, R!Authorize, R!FindRma, R!LoadReceipt,
             R!ReadLayers, R!Consume, R!SaveRows, R!SaveLayers, R!SaveRecords, R!Journal,
             R!SaveRma, R!FindRecord, R!Intercept, R!LoadQuarantine, R!LoadShelf, R!WriteOff,
             R!SaveRecord, R!memory
    <2> QED
      BY <2>1, <2>2, <2>3
  <1>2. /\ r \in Receipts /\ pc'[r] \notin {"find", "rejected"} => copy'[r] \in Rma
        /\ pc'[r] = "saveRma" => copy'[r] \in Rma
        /\ r \in Resolutions /\ pc'[r] \notin {"find", "rejected"} => copy'[r] \in Record
        /\ pc'[r] # "saveKit"
    <2>1. CASE R!Authorize(r)
      <3>1. call[r].rma \in Rmas /\ rmas[call[r].rma] \in Rma \cup {NoRma} /\ call[r].op = "authorize"
        BY <2>1, CommandType DEF R!Authorize, R!Cmd, TypeInv, ValuationTypes
      <3>2. CASE pc'[r] = "saveRma"
        <4>1. /\ rmas[call[r].rma] # NoRma
              /\ copy' = [copy EXCEPT ![r] = [rmas[call[r].rma] EXCEPT !.status = "AUTHORIZED"]]
          BY <1>0, <2>1, <3>2 DEF R!Authorize, R!Cmd, R!Goto
        <4>2. copy'[r] = [rmas[call[r].rma] EXCEPT !.status = "AUTHORIZED"] /\ rmas[call[r].rma] \in Rma
          BY <1>0, <3>1, <4>1
        <4>3. copy'[r] \in Rma
          BY <4>2 DEF Rma, R!RmaStates
        <4> QED
          BY <3>1, <3>2, <4>3 DEF Receipts, Resolutions
      <3> QED
        BY <1>0, <2>1, <3>1, <3>2 DEF R!Authorize, R!Goto, Receipts, Resolutions
    <2>2. CASE R!FindRma(r)
      <3>1. call[r].rma \in Rmas /\ rmas[call[r].rma] \in Rma \cup {NoRma} /\ call[r].op = "receive"
        BY <2>2, CommandType DEF R!FindRma, R!Cmd, TypeInv, ValuationTypes
      <3>2. copy'[r] = rmas[call[r].rma] /\ pc'[r] = IF rmas[call[r].rma] = NoRma THEN "rejected" ELSE "load"
        BY <1>0, <2>2 DEF R!FindRma, R!Cmd, R!Goto
      <3> QED
        BY <3>1, <3>2 DEF Receipts, Resolutions
    <2>3. CASE R!LoadReceipt(r)
      <3>1. r \in Receipts /\ call[r].op = "receive" /\ copy[r] \in Rma
        BY <1>0, <2>3 DEF R!LoadReceipt, R!Cmd, Receipts, Remembers
      <3>2. \/ pc'[r] = "rejected"
            \/ /\ pc'[r] \in {"saveRows", "layers"}
               /\ copy'[r] = R!Received(copy[r], call[r].rma, R!Lines(r))
        BY <1>0, <2>3 DEF R!LoadReceipt, R!Cmd, R!Goto
      <3> QED
        BY <3>1, <3>2, ReceivedRma DEF Receipts, Resolutions
    <2>4. CASE R!FindRecord(r)
      <3>1. call[r].op = "resolve" /\ quarantine \in Seq(Record)
        BY <2>4 DEF R!FindRecord, R!Cmd, TypeInv, ValuationTypes
      <3>2. \/ pc'[r] = "rejected"
            \/ /\ call[r].record \in DOMAIN quarantine /\ copy'[r] = quarantine[call[r].record]
               /\ pc'[r] \in {"intercept", "load"}
        BY <1>0, <2>4 DEF R!FindRecord, R!Cmd, R!Goto
      <3> QED
        BY <3>1, <3>2 DEF Receipts, Resolutions
    <2>5. CASE R!Create(r) \/ R!Insert(r)
      <3>1. call[r].op = "create" /\ pc'[r] \in {"insert", "rejected", "done"}
        BY <1>0, <2>5 DEF R!Create, R!Insert, R!Cmd, R!Goto, Staged
      <3> QED
        BY <3>1 DEF Receipts, Resolutions
    <2>6. CASE /\ copy' = copy /\ pc[r] \notin {"find", "rejected"}
               /\ pc'[r] = "saveRma" => r \in Receipts
               /\ pc'[r] # "saveKit"
      BY <1>0, <2>6 DEF Remembers
    <2>7. ASSUME ~(R!Authorize(r) \/ R!FindRma(r) \/ R!LoadReceipt(r) \/ R!FindRecord(r)
                   \/ R!Create(r) \/ R!Insert(r))
          PROVE  /\ copy' = copy /\ pc[r] \notin {"find", "rejected"}
                 /\ pc'[r] = "saveRma" => r \in Receipts
                 /\ pc'[r] # "saveKit"
      BY <1>0, <2>7 DEF RSays, R!Execute,
             R!ReadLayers, R!Consume, R!SaveRows, R!SaveLayers, R!SaveRecords, R!Journal,
             R!SaveRma, R!Intercept, R!LoadQuarantine, R!LoadShelf, R!WriteOff,
             R!SaveRecord, R!memory, R!Goto, R!Cmd, Staged, Receipts
    <2> QED
      BY <2>1, <2>2, <2>3, <2>4, <2>5, <2>6, <2>7
  <1> QED
    BY <1>0, <1>1, <1>2 DEF Remembers

LEMMA KitRemembers ==
    ASSUME TypeInv, Tables', Grown(layers, layers'), NEW r \in Requests, KSays(r)
    PROVE  Remembers(r)'
  <1>0. /\ call' = call /\ copy' = copy /\ Remembers(r) /\ Staged(r) /\ pc \in [Requests -> Stages]
        /\ DOMAIN recipe = Requests /\ DOMAIN read = Requests /\ Table(layers)
        /\ Receipts' = Receipts /\ Resolutions' = Resolutions /\ KitCalls' = KitCalls
        /\ r \notin Receipts /\ r \notin Resolutions /\ kit \in K!Recipes \cup {None}
    BY KitOps DEF KSays, returnsOnly, TypeInv, ValuationTypes, Receipts, Resolutions, KitCalls
  <1>1. Table(read'[r]) /\ Grown(read'[r], layers')
    <2>1. CASE read' = read
      BY <1>0, <2>1, GrownOn DEF Remembers
    <2>2. CASE K!ReadKitLayers(r) /\ read' # read
      <3>1. read'[r] = layers
        BY <1>0, <2>2 DEF K!ReadKitLayers
      <3> QED
        BY <1>0, <3>1
    <2>3. read' = read \/ K!ReadKitLayers(r)
      BY DEF KSays, K!Execute, K!CreateKit, K!AddKitComponent, K!RemoveKitComponent, K!SaveKit,
           K!FindKit, K!CheckLedger, K!ReadKitLayers, K!ConsumeKitLayers, K!ReadAverages,
           K!SaveNewLayers, K!AppendEntries, K!KitJournal, K!memory
    <2> QED
      BY <2>1, <2>2, <2>3
  <1>2. /\ r \in KitCalls /\ pc'[r] \notin {"find", "rejected"} => recipe'[r] \in K!Recipes
        /\ pc'[r] = "saveKit" => recipe'[r] \in K!Recipes
        /\ pc'[r] # "saveRma"
    <2>1. CASE K!AddKitComponent(r) \/ K!RemoveKitComponent(r)
      <3>1. /\ call[r].op \in {"addComponent", "removeComponent"} /\ call[r].variant \in Variants
            /\ call[r].op = "addComponent" => call[r].amount \in Nat
        BY <2>1, CommandType DEF K!AddKitComponent, K!RemoveKitComponent, K!Cmd, TypeInv, ValuationTypes
      <3>2. \/ pc'[r] = "rejected"
            \/ /\ pc'[r] = "saveKit" /\ kit \in K!Recipes
               /\ \/ /\ recipe'[r] = [kit EXCEPT ![call[r].variant] = @ + call[r].amount]
                     /\ call[r].op = "addComponent"
                  \/ recipe'[r] = [kit EXCEPT ![call[r].variant] = 0]
        BY <1>0, <2>1 DEF K!AddKitComponent, K!RemoveKitComponent, K!Cmd, K!Goto
      <3>3. ASSUME pc'[r] = "saveKit" PROVE recipe'[r] \in K!Recipes
        <4>1. kit \in [Variants -> Nat] /\ call[r].variant \in Variants
          BY <3>1, <3>2, <3>3 DEF K!Recipes
        <4>2. PICK k, v, n : k = kit /\ v = call[r].variant /\ n = call[r].amount
          OBVIOUS
        <4>3. k \in [Variants -> Nat] /\ v \in Variants /\ k[v] \in Nat
          BY <4>1, <4>2
        <4>4. [k EXCEPT ![v] = 0] \in [Variants -> Nat]
          BY <4>3
        <4>5. n \in Nat => [k EXCEPT ![v] = @ + n] \in [Variants -> Nat]
          BY <4>3
        <4> QED
          BY <3>1, <3>2, <3>3, <4>2, <4>4, <4>5 DEF K!Recipes
      <3> QED
        BY <3>1, <3>2, <3>3 DEF KitCalls
    <2>2. CASE K!FindKit(r)
      <3>1. recipe'[r] = kit /\ pc'[r] = IF kit = None THEN "rejected" ELSE "check"
        BY <1>0, <2>2 DEF K!FindKit, K!Goto
      <3> QED
        BY <1>0, <3>1
    <2>3. CASE K!CreateKit(r)
      <3>1. call[r].op = "createKit" /\ pc'[r] = "done"
        BY <1>0, <2>3 DEF K!CreateKit, K!Cmd, K!Goto
      <3> QED
        BY <3>1 DEF KitCalls
    <2>4. CASE recipe' = recipe /\ pc[r] \notin {"find", "rejected"} /\ pc'[r] \notin {"saveRma", "saveKit"}
      BY <1>0, <2>4 DEF Remembers
    <2>5. ASSUME ~(K!AddKitComponent(r) \/ K!RemoveKitComponent(r) \/ K!FindKit(r) \/ K!CreateKit(r))
          PROVE  recipe' = recipe /\ pc[r] \notin {"find", "rejected"} /\ pc'[r] \notin {"saveRma", "saveKit"}
      BY <1>0, <2>5 DEF KSays, K!Execute, K!SaveKit, K!CheckLedger, K!ReadKitLayers,
             K!ConsumeKitLayers, K!ReadAverages, K!SaveNewLayers, K!AppendEntries, K!KitJournal,
             K!memory, K!Goto
    <2> QED
      BY <2>1, <2>2, <2>3, <2>4, <2>5
  <1> QED
    BY <1>0, <1>1, <1>2 DEF Remembers

\* The types are kept.
LEMMA TypesFromParts ==
    ASSUME TypeInv, Tables', Grown(layers, layers'), NEW r \in Requests, Frame(r),
           Staged(r)', Remembers(r)'
    PROVE  TypeInv'
  <1>1. ValuationTypes'
    BY DEF TypeInv, ValuationTypes, Tables, Frame, IsRecords
  <1>2. ASSUME NEW q \in Requests, q # r PROVE Staged(q)' /\ Remembers(q)'
    <2>1. /\ Same(q) /\ Staged(q) /\ Remembers(q) /\ call' = call
          /\ Receipts' = Receipts /\ Resolutions' = Resolutions /\ KitCalls' = KitCalls
      BY <1>2 DEF Frame, TypeInv, Receipts, Resolutions, KitCalls
    <2>2. Grown(read[q], layers')
      BY <2>1, GrownOn DEF Remembers
    <2> QED
      BY <2>1, <2>2 DEF Same, Staged, Remembers
  <1> QED
    BY <1>1, <1>2 DEF TypeInv

LEMMA TypesStep ==
    ASSUME TypeInv, Snapshots, Covered, NEW r \in Requests, RSays(r) \/ KSays(r)
    PROVE  TypeInv' /\ Tables' /\ Grown(layers, layers') /\ Frame(r)
  <1>1. Frame(r) /\ Tables' /\ Grown(layers, layers') /\ Staged(r)' /\ Remembers(r)'
    BY ReturnsFrame, KitsFrame, ReturnTables, KitTables, ReturnStages, KitStages,
       ReturnRemembers, KitRemembers
  <1> QED
    BY <1>1, TypesFromParts
-----------------------------------------------------------------------------
\* What a call wants depends on its command and its memory alone.
LEMMA WantsKept ==
    ASSUME NEW r, call' = call, copy'[r] = copy[r], recipe'[r] = recipe[r]
    PROVE  /\ Wants(r)' = Wants(r) /\ R!Takes(r)' = R!Takes(r)
           /\ K!Takes(r)' = K!Takes(r) /\ K!Makes(r)' = K!Makes(r)
           /\ R!Lines(r)' = R!Lines(r)
           /\ Receipts' = Receipts /\ Resolutions' = Resolutions /\ KitCalls' = KitCalls
  <1>1. /\ R!Takes(r)' = R!Takes(r) /\ R!Lines(r)' = R!Lines(r)
        /\ Receipts' = Receipts /\ Resolutions' = Resolutions /\ KitCalls' = KitCalls
    BY DEF R!Takes, R!Cmd, R!Lines, Receipts, Resolutions, KitCalls
  <1>2. K!Takes(r)' = K!Takes(r) /\ K!Makes(r)' = K!Makes(r)
    BY DEF K!Takes, K!Makes, K!Building, K!Contents, K!Whole, K!Need, K!Cmd
  <1> QED
    BY <1>1, <1>2 DEF Wants

LEMMA CoveredStep ==
    ASSUME TypeInv, Covered, NEW r \in Requests, RSays(r) \/ KSays(r), Frame(r)
    PROVE  Covered'
  <1>1. ASSUME NEW q \in Requests \ {r}, pc'[q] \in {"consume", "kitConsume"}, NEW v \in Variants
        PROVE  Wants(q)'[v] <= Units(read'[q], v)
    <2>1. Same(q) /\ call' = call
      BY DEF Frame
    <2> QED
      BY <1>1, <2>1, WantsKept DEF Same, Covered
  <1>2. ASSUME pc'[r] \in {"consume", "kitConsume"}, NEW v \in Variants
        PROVE  Wants(r)'[v] <= Units(read'[r], v)
    <2>0. pc \in [Requests -> Stages] /\ DOMAIN read = Requests
      BY DEF TypeInv, ValuationTypes
    <2>1. CASE RSays(r)
      <3>1. R!ReadLayers(r) /\ recipe' = recipe /\ call' = call
        BY <1>2, <2>0, <2>1 DEF RSays, kitsOnly, R!Execute, R!Create, R!Insert, R!Authorize, R!FindRma,
           R!LoadReceipt, R!Consume, R!SaveRows, R!SaveLayers, R!SaveRecords, R!Journal,
           R!SaveRma, R!FindRecord, R!Intercept, R!LoadQuarantine, R!LoadShelf, R!WriteOff,
           R!SaveRecord, R!Goto
      <3>2. copy' = copy /\ read'[r] = layers /\ R!CoversAll(layers, R!Takes(r))
        BY <1>2, <2>0, <3>1 DEF R!ReadLayers, R!Goto
      <3>3. Wants(r)' = Wants(r) /\ Wants(r) = R!Takes(r)
        BY <2>1, <3>1, <3>2, WantsKept, ReturnOps DEF Wants
      <3>4. Units(layers, v) >= R!Takes(r)[v]
        BY <3>2, CoversAre
      <3>5. pc[r] = "layers" /\ (r \in Receipts \/ r \in Resolutions)
        BY <3>1, CallKinds DEF R!ReadLayers, TypeInv, Staged
      <3>6. R!Takes(r) \in [Variants -> Nat]
        BY <3>5, WantsAre
      <3>7. R!Takes(r)[v] \in Int /\ Units(layers, v) \in Int
        BY <3>6, UnitsSplit DEF TypeInv, ValuationTypes
      <3> QED
        BY <3>2, <3>3, <3>4, <3>7
    <2>2. CASE KSays(r)
      <3>1. K!ReadKitLayers(r) /\ copy' = copy /\ call' = call
        BY <1>2, <2>0, <2>2 DEF KSays, returnsOnly, K!Execute, K!CreateKit, K!AddKitComponent,
           K!RemoveKitComponent, K!SaveKit, K!FindKit, K!CheckLedger, K!ConsumeKitLayers,
           K!ReadAverages, K!SaveNewLayers, K!AppendEntries, K!KitJournal, K!Goto
      <3>2. recipe' = recipe /\ read'[r] = layers /\ K!CoversAll(layers, K!Takes(r)) /\ pc[r] = "kitLayers"
        BY <1>2, <2>0, <3>1 DEF K!ReadKitLayers, K!Goto
      <3>3. Wants(r)' = Wants(r) /\ r \in KitCalls
        BY <3>1, <3>2, WantsKept, CallKinds DEF TypeInv, Staged
      <3>4. Units(layers, v) >= K!Takes(r)[v]
        BY <3>2, CoversAre
      <3>5. Wants(r) = K!Takes(r) /\ K!Takes(r)[v] \in Int /\ Units(layers, v) \in Int
        BY <3>2, <3>3, WantsAre, UnitsSplit DEF TypeInv, ValuationTypes
      <3> QED
        BY <3>2, <3>3, <3>4, <3>5
    <2> QED
      BY <2>1, <2>2
  <1>3. ASSUME NEW q \in Requests, pc'[q] \in {"consume", "kitConsume"}, NEW v \in Variants
        PROVE  Wants(q)'[v] <= Units(read'[q], v)
    BY <1>1, <1>2, <1>3
  <1> QED
    BY <1>3 DEF Covered

-----------------------------------------------------------------------------
\* A reading of the rows, and the rows at a later time.
Reads(old, now) ==
    \A k \in R!Keys :
        old[k] # NoRow =>
            /\ now[k] # NoRow /\ old[k].version <= now[k].version
            /\ old[k].version = now[k].version => old[k] = now[k]

IsRows(t) == t \in [R!Keys -> Item \cup {NoRow}]

RowsGrow(now, next) ==
    \A k \in R!Keys :
        now[k] # NoRow => next[k] # NoRow /\ (next[k] = now[k] \/ next[k].version > now[k].version)

LEMMA ReadsOn ==
    ASSUME NEW old, IsRows(old), NEW now, IsRows(now), NEW next, IsRows(next),
           Reads(old, now), RowsGrow(now, next)
    PROVE  Reads(old, next)
  <1> SUFFICES ASSUME NEW k \in R!Keys, old[k] # NoRow
               PROVE  /\ next[k] # NoRow /\ old[k].version <= next[k].version
                      /\ old[k].version = next[k].version => old[k] = next[k]
    BY DEF Reads
  <1>1. /\ now[k] # NoRow /\ old[k].version <= now[k].version
        /\ old[k].version = now[k].version => old[k] = now[k]
    BY DEF Reads
  <1>2. next[k] # NoRow /\ (next[k] = now[k] \/ next[k].version > now[k].version)
    BY <1>1 DEF RowsGrow
  <1>3. old[k] \in Item /\ now[k] \in Item /\ next[k] \in Item
    BY <1>1, <1>2 DEF IsRows
  <1>4. old[k].version \in Int /\ now[k].version \in Int /\ next[k].version \in Int
    BY <1>3 DEF Item
  <1> QED
    BY <1>1, <1>2, <1>4

\* The save of a row, when it is not refused.
Saves(r) ==
    /\ pc[r] = "saveRows" /\ R!UpToDate(r)
    /\ items' = [k \in R!Keys |-> IF k \in R!Places(r) THEN R!Drafts(r)[k] ELSE items[k]]
    /\ stale' = stale \cup {k[1] : k \in {p \in R!Places(r) : items[p] # loaded[r][p]}}

LEMMA SavedFacts ==
    ASSUME TypeInv, Snapshots, NEW r \in Requests, Saves(r), NEW k \in R!Keys
    PROVE  /\ items[k] # NoRow => items'[k] # NoRow
           /\ items[k] # NoRow => items'[k] = items[k] \/ items'[k].version > items[k].version
           /\ Quantity(items', k) \in Int /\ Delta(r, k) \in Int
           /\ k \in R!Places(r) => Quantity(items', k) = Quantity(loaded[r], k) + Delta(r, k)
           /\ k \notin R!Places(r) => Quantity(items', k) = Quantity(items, k) /\ Delta(r, k) = 0
           /\ k[2] = "shelf" => Delta(r, k) \in Nat
           /\ k \in R!Places(r) /\ Alone(r, k) => loaded[r][k] = items[k]
           /\ k \in R!Places(r) /\ k[1] \notin stale' => loaded[r][k] = items[k]
  <1>1. /\ pc[r] = "saveRows" /\ R!UpToDate(r)
        /\ items'[k] = IF k \in R!Places(r) THEN R!Drafts(r)[k] ELSE items[k]
    BY DEF Saves
  <1>2. /\ Quantity(items, k) \in Nat /\ Quantity(loaded[r], k) \in Nat
        /\ items[k] # NoRow => items[k] \in Item
        /\ loaded[r][k] # NoRow => loaded[r][k] \in Item
    BY RowFacts
  <1>3. CASE k \notin R!Places(r)
    <2>1. Delta(r, k) = 0 /\ items'[k] = items[k]
      BY <1>1, <1>3, DeltaElsewhere
    <2>2. Quantity(items', k) = Quantity(items, k)
      BY <2>1 DEF Quantity
    <2> QED
      BY <1>2, <1>3, <2>1, <2>2
  <1>4. CASE k \in R!Places(r)
    <2>1. PICK d, c : /\ d = R!Drafts(r)[k] /\ items'[k] = d
                      /\ c = IF r \in Receipts THEN R!Changes(R!Lines(r), k) ELSE 1
      BY <1>1, <1>4
    <2>2. /\ d \in Item /\ d.quantity = Quantity(loaded[r], k) + Delta(r, k)
          /\ d.version = (IF loaded[r][k] = NoRow THEN 1 ELSE loaded[r][k].version) + c
          /\ c \in Nat \ {0} /\ Delta(r, k) \in Int
          /\ k[2] = "shelf" => Delta(r, k) \in Nat
      <3>1. CASE r \in Receipts
        BY <1>4, <2>1, <3>1, ReceiptDraft
      <3>2. CASE r \notin Receipts
        <4>1. r \in Resolutions
          BY <1>1, <3>2, SavedRows
        <4> QED
          BY <1>1, <1>4, <2>1, <3>2, <4>1, ResolutionDraft
      <3> QED
        BY <3>1, <3>2
    <2>3. d # NoRow
      BY <2>2, ValuationAssumption DEF ValuationAssumption
    <2>4. IF loaded[r][k] = NoRow THEN items[k] = NoRow ELSE items[k].version = d.version - 1
      BY <1>1, <1>4, <2>1 DEF R!UpToDate
    <2>5. Quantity(items', k) = Quantity(loaded[r], k) + Delta(r, k) /\ Quantity(items', k) \in Int
      BY <1>2, <2>1, <2>2, <2>3 DEF Quantity
    <2>6. ASSUME items[k] # NoRow
          PROVE  loaded[r][k] # NoRow /\ d.version > items[k].version
      <3>1. loaded[r][k] # NoRow /\ items[k].version = d.version - 1
        BY <2>4, <2>6
      <3>2. items[k].version \in Int /\ d.version \in Int
        BY <1>2, <2>2, <2>6 DEF Item
      <3> QED
        BY <3>1, <3>2
    <2>7. ASSUME Alone(r, k) PROVE loaded[r][k] = items[k]
      <3>1. CASE loaded[r][k] = NoRow
        BY <2>4, <3>1
      <3>2. CASE loaded[r][k] # NoRow
        <4>1. c = 1
          BY <2>1, <2>7 DEF Alone
        <4>2. items[k].version = d.version - 1 /\ d.version = loaded[r][k].version + c
          BY <2>2, <2>4, <3>2
        <4>3. loaded[r][k].version \in Int
          BY <1>2, <3>2 DEF Item
        <4>4. items[k].version = loaded[r][k].version
          BY <4>1, <4>2, <4>3
        <4> QED
          BY <3>2, <4>4 DEF Snapshots
      <3> QED
        BY <3>1, <3>2
    <2>8. ASSUME k[1] \notin stale' PROVE loaded[r][k] = items[k]
      BY <1>4, <2>8 DEF Saves
    <2> QED
      BY <1>4, <2>1, <2>2, <2>3, <2>5, <2>6, <2>7, <2>8
  <1> QED
    BY <1>3, <1>4

\* The rows change only by such a save.
LEMMA ItemsStep ==
    ASSUME NEW r \in Requests, RSays(r) \/ KSays(r)
    PROVE  items' = items \/ (Saves(r) /\ R!SaveRows(r) /\ RSays(r))
  <1>1. CASE KSays(r)
    BY <1>1 DEF KSays, returnsOnly
  <1>2. CASE RSays(r)
    BY <1>2 DEF RSays, R!Execute, R!Create, R!Insert, R!Authorize, R!FindRma, R!LoadReceipt,
             R!ReadLayers, R!Consume, R!SaveRows, R!SaveLayers, R!SaveRecords, R!Journal,
             R!SaveRma, R!FindRecord, R!Intercept, R!LoadQuarantine, R!LoadShelf, R!WriteOff,
             R!SaveRecord, R!tables, Saves
  <1> QED
    BY <1>1, <1>2
-----------------------------------------------------------------------------
LEMMA SnapshotsStep ==
    ASSUME TypeInv, Snapshots, NEW r \in Requests, RSays(r) \/ KSays(r), Frame(r), TypeInv'
    PROVE  Snapshots'
  <1>0. /\ call' = call /\ Receipts' = Receipts /\ Resolutions' = Resolutions /\ KitCalls' = KitCalls
        /\ IsRows(items) /\ IsRows(items') /\ pc \in [Requests -> Stages]
        /\ \A q \in Requests : IsRows(loaded[q]) /\ IsRows(loaded'[q])
        /\ DOMAIN loaded = Requests /\ DOMAIN copy = Requests
    BY DEF Frame, TypeInv, ValuationTypes, IsRows, Receipts, Resolutions, KitCalls
  <1>1. RowsGrow(items, items')
    <2>1. CASE items' = items
      BY <2>1 DEF RowsGrow
    <2>2. CASE Saves(r)
      BY <2>2, SavedFacts DEF RowsGrow
    <2> QED
      BY <2>1, <2>2, ItemsStep
  <1>2. \A q \in Requests : Reads(loaded[q], items')
    <2>1. TAKE q \in Requests
    <2>2. Reads(loaded[q], items)
      BY DEF Snapshots, Reads
    <2> QED
      BY <1>0, <1>1, <2>2, ReadsOn
  <1>3. Reads(items, items')
    <2>1. Reads(items, items)
      <3>1. ASSUME NEW k \in R!Keys, items[k] # NoRow PROVE items[k].version <= items[k].version
        <4>1. items[k] \in Item
          BY <1>0, <3>1 DEF IsRows
        <4>2. items[k].version \in Int
          BY <4>1 DEF Item
        <4> QED
          BY <4>2
      <3> QED
        BY <3>1 DEF Reads
    <2> QED
      BY <1>0, <1>1, <2>1, ReadsOn
  <1>4. Reads(loaded'[r], items')
    <2>1. CASE loaded' = loaded
      BY <1>2, <2>1
    <2>2. CASE R!LoadReceipt(r) /\ loaded' # loaded
      <3>1. loaded'[r] = items
        BY <1>0, <2>2 DEF R!LoadReceipt
      <3> QED
        BY <1>3, <3>1
    <2>3. CASE (R!LoadQuarantine(r) \/ R!LoadShelf(r)) /\ loaded' # loaded
      <3>1. PICK row : loaded' = [loaded EXCEPT ![r][row] = items[row]]
        BY <2>3 DEF R!LoadQuarantine, R!LoadShelf
      <3>2. \A k \in R!Keys : loaded'[r][k] = loaded[r][k] \/ loaded'[r][k] = items[k]
        BY <1>0, <3>1 DEF IsRows
      <3> QED
        BY <1>2, <1>3, <3>2 DEF Reads
    <2>4. loaded' = loaded \/ R!LoadReceipt(r) \/ R!LoadQuarantine(r) \/ R!LoadShelf(r)
      <3>1. CASE KSays(r)
        BY <3>1 DEF KSays, returnsOnly
      <3>2. CASE RSays(r)
        BY <3>2 DEF RSays, R!Execute, R!Create, R!Insert, R!Authorize, R!FindRma,
             R!ReadLayers, R!Consume, R!SaveRows, R!SaveLayers, R!SaveRecords, R!Journal,
             R!SaveRma, R!FindRecord, R!Intercept, R!WriteOff, R!SaveRecord, R!memory
      <3> QED
        BY <3>1, <3>2
    <2> QED
      BY <2>1, <2>2, <2>3, <2>4
  <1>5. \A q \in Requests : Reads(loaded'[q], items')
    BY <1>2, <1>4 DEF Frame, Same
  <1>6. ASSUME NEW q \in Resolutions \ {r},
               pc'[q] \in {"shelf", "layers", "consume", "writeOff", "saveRows"}
        PROVE  LET row == loaded'[q][<<copy'[q].variant, "quarantine">>]
               IN  row # NoRow /\ row.quantity >= copy'[q].amount
    <2>1. Same(q)
      BY <1>6 DEF Frame, Resolutions
    <2> QED
      BY <1>6, <2>1 DEF Same, Snapshots
  <1>7. ASSUME r \in Resolutions, pc'[r] \in {"shelf", "layers", "consume", "writeOff", "saveRows"}
        PROVE  LET row == loaded'[r][<<copy'[r].variant, "quarantine">>]
               IN  row # NoRow /\ row.quantity >= copy'[r].amount
    <2>1. call[r].op = "resolve" /\ RSays(r) /\ r \notin Receipts
      BY <1>7, CallKinds, KitOps DEF Receipts
    <2>2. CASE R!LoadQuarantine(r)
      <3>1. PICK v, n : v = copy[r].variant /\ n = copy[r].amount
        OBVIOUS
      <3>2. pc'[r] # "rejected"
        BY <1>7
      <3>3. /\ copy' = copy /\ loaded' = [loaded EXCEPT ![r][<<v, "quarantine">>] = items[<<v, "quarantine">>]]
            /\ items[<<v, "quarantine">>] # NoRow
            /\ R!Permits("dispatchStock", items[<<v, "quarantine">>], n)
        BY <1>0, <2>2, <3>1, <3>2 DEF R!LoadQuarantine, R!Goto
      <3>4. copy[r] \in Record /\ pc[r] = "load"
        BY <1>7, <2>2 DEF TypeInv, Remembers, R!LoadQuarantine
      <3>5. <<v, "quarantine">> \in R!Keys
        BY <3>1, <3>4, ResolutionFacts, <1>7 DEF R!Keys
      <3>6. loaded'[r][<<v, "quarantine">>] = items[<<v, "quarantine">>]
        BY <1>0, <3>3, <3>5 DEF IsRows
      <3>7. items[<<v, "quarantine">>].quantity >= n
        BY <3>3 DEF R!Permits
      <3> QED
        BY <3>1, <3>3, <3>6, <3>7
    <2>3. CASE R!LoadShelf(r)
      <3>1. PICK v, n : v = copy[r].variant /\ n = copy[r].amount
        OBVIOUS
      <3>2. /\ copy' = copy /\ pc[r] = "shelf"
            /\ loaded' = [loaded EXCEPT ![r][<<v, "shelf">>] = items[<<v, "shelf">>]]
        BY <2>3, <3>1 DEF R!LoadShelf
      <3>3. <<v, "shelf">> # <<v, "quarantine">>
        OBVIOUS
      <3>4. loaded'[r][<<v, "quarantine">>] = loaded[r][<<v, "quarantine">>]
        BY <1>0, <3>2, <3>3
      <3> QED
        BY <1>7, <3>1, <3>2, <3>4 DEF Snapshots
    <2>4. CASE /\ copy' = copy /\ loaded' = loaded
               /\ pc[r] \in {"shelf", "layers", "consume", "writeOff", "saveRows"}
      BY <1>7, <2>4 DEF Snapshots
    <2>5. ASSUME ~R!LoadQuarantine(r), ~R!LoadShelf(r)
          PROVE  /\ copy' = copy /\ loaded' = loaded
                 /\ pc[r] \in {"shelf", "layers", "consume", "writeOff", "saveRows"}
      BY <1>0, <1>7, <2>1, <2>5 DEF RSays, R!Execute, R!Create, R!Insert, R!Authorize, R!FindRma, R!LoadReceipt,
             R!ReadLayers, R!Consume, R!SaveRows, R!SaveLayers, R!SaveRecords, R!Journal,
             R!SaveRma, R!FindRecord, R!Intercept, R!WriteOff, R!SaveRecord, R!memory, R!Goto, R!Cmd
    <2> QED
      BY <2>2, <2>3, <2>4, <2>5
  <1>8. ASSUME NEW q \in Resolutions,
               pc'[q] \in {"shelf", "layers", "consume", "writeOff", "saveRows"}
        PROVE  LET row == loaded'[q][<<copy'[q].variant, "quarantine">>]
               IN  row # NoRow /\ row.quantity >= copy'[q].amount
    BY <1>6, <1>7, <1>8
  <1> QED
    BY <1>0, <1>5, <1>8 DEF Snapshots, Reads

-----------------------------------------------------------------------------
\* The invariant that the accounts of stock and layers are proved from.
Base == TypeInv /\ Snapshots /\ Covered

LEMMA CallsTyped ==
    ASSUME Init
    PROVE  /\ call \in [Requests -> Command]
           /\ \A r \in Requests : pc[r] = "find"
  <1>1. call \in [Requests -> UNION {Commands[r] : r \in Requests}] /\ \A r \in Requests : call[r] \in Commands[r]
    BY DEF Init, Calls
  <1>2. \A r \in Requests : Commands[r] \subseteq Command
    BY ValuationAssumption DEF ValuationAssumption
  <1> QED
    BY <1>1, <1>2 DEF Init

LEMMA BaseInit ==
    ASSUME Init
    PROVE  Base
  <1>1. /\ call \in [Requests -> Command] /\ pc \in [Requests -> Stages]
        /\ \A r \in Requests : pc[r] = "find"
    BY CallsTyped DEF Init, Stages
  <1>2. Table(layers) /\ Table(<<>>)
    BY InitialAssumption DEF InitialAssumption, Init, Table
  <1>3. /\ loaded \in [Requests -> [R!Keys -> Item \cup {NoRow}]]
        /\ average \in [Requests -> [Variants -> Nat]]
        /\ ledger \in [Variants -> Int]
    BY InitialAssumption DEF InitialAssumption, Init
  <1>4. ValuationTypes
    BY <1>1, <1>2, <1>3, InitialAssumption DEF InitialAssumption, Init, ValuationTypes
  <1>5. \A r \in Requests : read[r] = <<>> /\ Grown(<<>>, layers)
    BY DEF Init, Grown
  <1>6. TypeInv
    BY <1>1, <1>2, <1>4, <1>5 DEF TypeInv, Staged, Remembers
  <1>7. Snapshots
    BY <1>1, CallKinds, <1>6 DEF Init, Snapshots, Resolutions
  <1> QED
    BY <1>1, <1>6, <1>7 DEF Base, Covered

LEMMA WantsStopped ==
    ASSUME Stops
    PROVE  /\ \A r : Wants(r)' = Wants(r)
           /\ Receipts' = Receipts /\ Resolutions' = Resolutions /\ KitCalls' = KitCalls
BY WantsKept DEF Stops

LEMMA BaseStep ==
    ASSUME Base, [Next]_vars
    PROVE  Base'
  <1>1. CASE Stops
    <2>1. TypeInv'
      <3>1. ValuationTypes'
        BY <1>1 DEF Base, Stops, TypeInv, ValuationTypes
      <3>2. \A r \in Requests : Staged(r)' /\ Remembers(r)'
        BY <1>1, WantsStopped DEF Base, Stops, TypeInv, Staged, Remembers
      <3> QED
        BY <3>1, <3>2 DEF TypeInv
    <2>3. Snapshots'
      BY <1>1, WantsStopped DEF Base, Stops, Snapshots
    <2>2. Covered'
      BY <1>1, WantsStopped DEF Base, Stops, Covered
    <2> QED
      BY <2>1, <2>2, <2>3 DEF Base
  <1>2. ASSUME NEW r \in Requests, RSays(r) \/ KSays(r) PROVE Base'
    <2>1. TypeInv' /\ Frame(r)
      BY <1>2, TypesStep DEF Base
    <2> QED
      BY <1>2, <2>1, CoveredStep, SnapshotsStep DEF Base
  <1> QED
    BY <1>1, <1>2, NextCases

\* Returns and kits keep their types: what a call has read of rows and layers
\* is what they were at some earlier time, and what it is about to take from
\* the layers it read is in them.
THEOREM BaseInvariant == Spec => []Base
BY BaseInit, BaseStep, PTL DEF Spec
-----------------------------------------------------------------------------
\* A sum over the calls moves by what the acting call's part of it does.
LEMMA SumMoves ==
    ASSUME NEW f, NEW k, \A q \in Requests : f[q] \in Int /\ k[q] \in Int,
           NEW r \in Requests, \A q \in Requests : q # r => f[q] = k[q]
    PROVE  /\ SumFunctionOnSet(k, Requests) = SumFunctionOnSet(f, Requests) + (k[r] - f[r])
           /\ SumFunctionOnSet(f, Requests) \in Int /\ SumFunctionOnSet(k, Requests) \in Int
  <1>1. Summable(f, Requests) /\ Summable(k, Requests)
    BY ValuationAssumption DEF ValuationAssumption, Summable
  <1>2. SumFunctionOnSet(k, Requests) = SumFunctionOnSet(f, Requests) + (k[r] - f[r])
    BY <1>1, SumUpdate
  <1> QED
    BY <1>1, <1>2, SumType

\* What a call has brought in of a return.
CameBy(r, n, v) == IF r \in CameIn(n) THEN R!Amount(R!Lines(r), R!Dispositions, v) ELSE 0

LEMMA CameBySum ==
    ASSUME TypeInv, NEW n \in Rmas, NEW v \in Variants, InitialRmas[n] # NoRma
    PROVE  /\ Came(n, v) = InitialRmas[n].received[v]
                             + SumFunctionOnSet([r \in Requests |-> CameBy(r, n, v)], Requests)
           /\ \A r \in Requests : CameBy(r, n, v) \in Nat
           /\ InitialRmas[n] \in Rma /\ InitialRmas[n].received[v] \in Nat
           /\ Came(n, v) \in Int
  <1> DEFINE f == [r \in Requests |-> CameBy(r, n, v)]
             g == [r \in CameIn(n) |-> R!Amount(R!Lines(r), R!Dispositions, v)]
  <1>1. CameIn(n) \subseteq Requests /\ CameIn(n) \subseteq Receipts
    BY DEF CameIn, Receipts
  <1>2. \A r \in Requests : CameBy(r, n, v) \in Nat
    BY <1>1, ReceiptFacts DEF CameBy
  <1>3. \A r \in Requests : f[r] = CameBy(r, n, v)
    OBVIOUS
  <1>4. \A r \in CameIn(n) : g[r] = f[r]
    BY <1>1 DEF CameBy
  <1>5. \A r \in Requests \ CameIn(n) : f[r] = 0
    BY DEF CameBy
  <1>6. Came(n, v) = InitialRmas[n].received[v] + SumFunctionOnSet(g, CameIn(n))
    BY DEF Came
  <1>7. InitialRmas[n] \in Rma
    BY InitialAssumption DEF InitialAssumption
  <1>8. InitialRmas[n].received[v] \in Nat
    BY <1>7 DEF Rma
  <1> HIDE DEF f, g
  <1>9. Summable(f, Requests)
    BY <1>2, <1>3, ValuationAssumption DEF ValuationAssumption, Summable
  <1>10. Summable(f, CameIn(n)) /\ SumFunctionOnSet(f, Requests) = SumFunctionOnSet(f, CameIn(n))
    BY <1>1, <1>5, <1>9, SumWhere
  <1>11. SumFunctionOnSet(f, CameIn(n)) = SumFunctionOnSet(g, CameIn(n))
    BY <1>4, <1>10, SumSame
  <1>12. SumFunctionOnSet(f, Requests) \in Int
    BY <1>9, SumType
  <1>13. Came(n, v) = InitialRmas[n].received[v] + SumFunctionOnSet(f, Requests)
    BY <1>6, <1>10, <1>11
  <1>14. Came(n, v) \in Int
    BY <1>8, <1>12, <1>13
  <1> QED
    BY <1>2, <1>7, <1>8, <1>13, <1>14 DEF f

CameSums ==
    \A n \in Rmas, v \in Variants :
        InitialRmas[n] # NoRma =>
            /\ Came(n, v) = InitialRmas[n].received[v]
                             + SumFunctionOnSet([r \in Requests |-> CameBy(r, n, v)], Requests)
            /\ \A r \in Requests : CameBy(r, n, v) \in Nat

LEMMA CameAlways == TypeInv => CameSums
BY CameBySum DEF CameSums

\* A return counts more as the acting call comes to its save.
LEMMA CameMoves ==
    ASSUME TypeInv, TypeInv', NEW r \in Requests, Frame(r),
           NEW n \in Rmas, NEW v \in Variants, InitialRmas[n] # NoRma
    PROVE  /\ Came(n, v)' = Came(n, v) + (CameBy(r, n, v)' - CameBy(r, n, v))
           /\ Came(n, v)' \in Int /\ Came(n, v) \in Int
           /\ CameBy(r, n, v)' \in Nat /\ CameBy(r, n, v) \in Nat
  <1> DEFINE f == [q \in Requests |-> CameBy(q, n, v)]
             k == [q \in Requests |-> CameBy(q, n, v)']
  <1>1. /\ Came(n, v) = InitialRmas[n].received[v] + SumFunctionOnSet(f, Requests)
        /\ \A q \in Requests : CameBy(q, n, v) \in Nat
        /\ InitialRmas[n].received[v] \in Nat
    BY CameBySum
  <1>2. /\ Came(n, v)' = InitialRmas[n].received[v] + SumFunctionOnSet(k, Requests)
        /\ \A q \in Requests : CameBy(q, n, v)' \in Nat
    <2>1. TypeInv' => CameSums'
      BY CameAlways, PTL
    <2> QED
      BY <2>1 DEF CameSums
  <1>3. ASSUME NEW q \in Requests, q # r PROVE CameBy(q, n, v)' = CameBy(q, n, v)
    <2>1. Same(q) /\ call' = call
      BY <1>3 DEF Frame
    <2>2. R!Lines(q)' = R!Lines(q) /\ (q \in CameIn(n)' <=> q \in CameIn(n))
      BY <2>1, WantsKept DEF Same, CameIn
    <2> QED
      BY <2>2 DEF CameBy
  <1>4. \A q \in Requests : f[q] \in Int /\ k[q] \in Int /\ (q # r => f[q] = k[q])
    BY <1>1, <1>2, <1>3
  <1>5. f[r] = CameBy(r, n, v) /\ k[r] = CameBy(r, n, v)'
    OBVIOUS
  <1> HIDE DEF f, k
  <1>6. SumFunctionOnSet(k, Requests) = SumFunctionOnSet(f, Requests) + (k[r] - f[r])
        /\ SumFunctionOnSet(f, Requests) \in Int /\ SumFunctionOnSet(k, Requests) \in Int
    BY <1>4, SumMoves
  <1> QED
    BY <1>1, <1>2, <1>5, <1>6
-----------------------------------------------------------------------------
\* The stages at which a call holds a copy of the return.
Holds == {"load", "layers", "consume", "saveRows", "saveLayers", "saveRecords", "journal", "saveRma"}
Holder(r, n) == call[r].op \in {"receive", "authorize"} /\ call[r].rma = n /\ pc[r] \in Holds

LEMMA CountingIs ==
    Counting <=> \A n \in Rmas :
        InitialRmas[n] # NoRma =>
            /\ rmas[n] \in Rma /\ Counts(rmas[n], n, Nothing)
            /\ \A r \in Requests : Holder(r, n) => Counts(copy[r], n, Brought(r))
BY DEF Counting, Holder, Holds

\* What counts no more, with what more may have come in, counts no more still.
LEMMA CountsStill ==
    ASSUME NEW n \in Rmas, NEW x \in Rma, NEW b \in [Variants -> Nat], Counts(x, n, b),
           NEW y \in Rma, NEW c \in [Variants -> Nat],
           y.status = "COMPLETED" => y.received = Expected[n],
           \A v \in Variants :
               /\ Came(n, v) \in Int /\ Came(n, v)' \in Int
               /\ (y.received[v] - x.received[v]) + b[v] <= (Came(n, v)' - Came(n, v)) + c[v]
    PROVE  /\ \A v \in Variants : y.received[v] <= Came(n, v)' + c[v]
           /\ y.status = "COMPLETED" => y.received = Expected[n]
  <1>1. ASSUME NEW v \in Variants PROVE y.received[v] <= Came(n, v)' + c[v]
    <2>1. x.received[v] <= Came(n, v) + b[v]
      BY DEF Counts
    <2>2. x.received \in [Variants -> Nat] /\ y.received \in [Variants -> Nat]
      BY DEF Rma
    <2>3. x.received[v] \in Nat /\ y.received[v] \in Nat /\ b[v] \in Nat /\ c[v] \in Nat
      BY <2>2
    <2>4. /\ Came(n, v) \in Int /\ Came(n, v)' \in Int
          /\ (y.received[v] - x.received[v]) + b[v] <= (Came(n, v)' - Came(n, v)) + c[v]
      OBVIOUS
    <2> QED
      BY <2>1, <2>3, <2>4
  <1> QED
    BY <1>1

LEMMA BroughtNat ==
    ASSUME TypeInv, NEW r \in Requests
    PROVE  Brought(r) \in [Variants -> Nat] /\ Nothing \in [Variants -> Nat]
BY ReceiptFacts DEF Brought, Nothing

\* Goods come in as a receipt saves its rows, and are carried until then.
LEMMA Brings ==
    ASSUME TypeInv, TypeInv', NEW r \in Requests, RSays(r) \/ KSays(r), Frame(r),
           NEW n \in Rmas, NEW v \in Variants, InitialRmas[n] # NoRma
    PROVE  /\ Came(n, v) \in Int /\ Came(n, v)' \in Int /\ Came(n, v)' >= Came(n, v)
           /\ Holder(r, n) /\ Holder(r, n)' /\ ~R!LoadReceipt(r) =>
                  Brought(r)[v] <= (Came(n, v)' - Came(n, v)) + Brought(r)'[v]
  <1>0. /\ Came(n, v)' = Came(n, v) + (CameBy(r, n, v)' - CameBy(r, n, v))
        /\ Came(n, v) \in Int /\ Came(n, v)' \in Int
        /\ CameBy(r, n, v)' \in Nat /\ CameBy(r, n, v) \in Nat
        /\ call' = call /\ pc \in [Requests -> Stages]
        /\ Receipts' = Receipts /\ R!Lines(r)' = R!Lines(r)
    BY CameMoves DEF Frame, TypeInv, ValuationTypes, Receipts, R!Lines, R!Cmd
  <1>1. CASE r \notin Receipts
    <2>1. /\ CameBy(r, n, v) = 0 /\ CameBy(r, n, v)' = 0
          /\ Brought(r) = Nothing /\ Brought(r)' = Nothing
      BY <1>0, <1>1 DEF CameBy, CameIn, Brought, Nothing
    <2> QED
      BY <1>0, <2>1 DEF Nothing
  <1>2. CASE r \in Receipts
    <2>1. RSays(r)
      BY <1>2, KitOps
    <2>2. PICK m : m = R!Amount(R!Lines(r), R!Dispositions, v)
      OBVIOUS
    <2>3. m \in Nat
      BY <1>2, <2>2, ReceiptFacts
    <2>4. PICK In : In = {"saveLayers", "saveRecords", "journal", "saveRma", "done"}
      OBVIOUS
    <2>5. /\ CameBy(r, n, v) = IF call[r].rma = n /\ pc[r] \in In THEN m ELSE 0
          /\ CameBy(r, n, v)' = IF call[r].rma = n /\ pc'[r] \in In THEN m ELSE 0
          /\ Brought(r)[v] = IF pc[r] \in {"layers", "consume", "saveRows"} THEN m ELSE 0
          /\ Brought(r)'[v] = IF pc'[r] \in {"layers", "consume", "saveRows"} THEN m ELSE 0
      BY <1>0, <1>2, <2>2, <2>4 DEF CameBy, CameIn, Brought, Nothing
    <2>6. pc[r] \in In => pc'[r] \in In
      BY <1>0, <2>1, <2>4 DEF RSays, R!Execute, R!Create, R!Insert, R!Authorize, R!FindRma, R!LoadReceipt,
             R!ReadLayers, R!Consume, R!SaveRows, R!SaveLayers, R!SaveRecords, R!Journal,
             R!SaveRma, R!FindRecord, R!Intercept, R!LoadQuarantine, R!LoadShelf, R!WriteOff,
             R!SaveRecord, R!Goto
    <2>7. /\ pc[r] \in {"layers", "consume", "saveRows"} =>
                 pc'[r] \in {"consume", "saveRows", "saveLayers", "refused", "rejected"}
                 \/ call[r].op # "receive"
      BY <1>0, <2>1 DEF RSays, R!Execute, R!Create, R!Insert, R!Authorize, R!FindRma, R!LoadReceipt,
             R!ReadLayers, R!Consume, R!SaveRows, R!SaveLayers, R!SaveRecords, R!Journal,
             R!SaveRma, R!FindRecord, R!Intercept, R!LoadQuarantine, R!LoadShelf, R!WriteOff,
             R!SaveRecord, R!Goto, R!Cmd
    <2>8. call[r].op = "receive"
      BY <1>2 DEF Receipts
    <2>9. CameBy(r, n, v)' >= CameBy(r, n, v)
      BY <2>3, <2>5, <2>6
    <2>10. ASSUME Holder(r, n), Holder(r, n)'
           PROVE  Brought(r)[v] <= (CameBy(r, n, v)' - CameBy(r, n, v)) + Brought(r)'[v]
      <3>1. call[r].rma = n /\ pc'[r] \in Holds
        BY <1>0, <2>10 DEF Holder
      <3>2. pc[r] \in {"layers", "consume", "saveRows"} =>
                pc'[r] \in {"layers", "consume", "saveRows", "saveLayers"} /\ pc[r] \notin In
        BY <2>4, <2>7, <2>8, <3>1 DEF Holds
      <3> QED
        BY <2>3, <2>4, <2>5, <2>6, <3>1, <3>2
    <2>11. Brought(r)[v] \in Nat /\ Brought(r)'[v] \in Nat
      BY <2>3, <2>5
    <2> QED
      BY <1>0, <2>9, <2>10, <2>11
  <1> QED
    BY <1>1, <1>2
-----------------------------------------------------------------------------
LEMMA HolderRma ==
    ASSUME TypeInv, NEW r \in Requests, NEW n, Holder(r, n)
    PROVE  copy[r] \in Rma
  <1>1. CASE call[r].op = "receive"
    BY <1>1 DEF TypeInv, Remembers, Holder, Holds, Receipts
  <1>2. CASE call[r].op = "authorize"
    BY <1>2 DEF TypeInv, Remembers, Staged, Holder, Holds
  <1> QED
    BY <1>1, <1>2 DEF Holder

LEMMA CountingCopy ==
    ASSUME TypeInv, Counting, TypeInv', NEW r \in Requests, RSays(r) \/ KSays(r), Frame(r),
           NEW n \in Rmas, InitialRmas[n] # NoRma, Holder(r, n)'
    PROVE  Counts(copy[r], n, Brought(r))'
  <1>0. /\ call' = call /\ pc \in [Requests -> Stages] /\ DOMAIN copy = Requests
        /\ Holder(r, n)' => call[r].op \in {"receive", "authorize"} /\ call[r].rma = n /\ pc'[r] \in Holds
    BY DEF Frame, TypeInv, ValuationTypes, Holder
  <1>1. RSays(r)
    BY <1>0, KitOps
  <1>2. /\ rmas[n] \in Rma /\ Counts(rmas[n], n, Nothing)
        /\ Holder(r, n) => Counts(copy[r], n, Brought(r))
    BY CountingIs
  <1>3. copy'[r] \in Rma
    <2>1. TypeInv' /\ Holder(r, n)' => copy'[r] \in Rma
      <3>1. CASE call[r].op = "receive"
        BY <1>0, <3>1 DEF TypeInv, Remembers, Holder, Holds, Receipts
      <3>2. CASE call[r].op = "authorize"
        BY <1>0, <3>2 DEF TypeInv, Remembers, Staged, Holder, Holds
      <3> QED
        BY <1>0, <3>1, <3>2
    <2> QED
      BY <2>1
  <1>4. Brought(r) \in [Variants -> Nat] /\ Nothing \in [Variants -> Nat]
        /\ Brought(r)' \in [Variants -> Nat]
    <2>1. Receipts' = Receipts /\ R!Lines(r)' = R!Lines(r)
      BY <1>0 DEF Receipts, R!Lines, R!Cmd
    <2>2. Brought(r)' \in [Variants -> Nat]
      BY <2>1, ReceiptFacts DEF Brought, Nothing
    <2> QED
      BY <2>2, BroughtNat
  <1>5. PICK y, c : y = copy'[r] /\ c = Brought(r)'
    OBVIOUS
  <1>6. y \in Rma /\ c \in [Variants -> Nat]
    BY <1>3, <1>4, <1>5
  <1>7. \A v \in Variants : Came(n, v) \in Int /\ Came(n, v)' \in Int /\ Came(n, v)' >= Came(n, v)
    BY Brings
  <1>8. ASSUME NEW x \in Rma, NEW b \in [Variants -> Nat], Counts(x, n, b),
               y.status = "COMPLETED" => y.received = Expected[n],
               \A v \in Variants :
                   (y.received[v] - x.received[v]) + b[v] <= (Came(n, v)' - Came(n, v)) + c[v]
        PROVE  Counts(copy[r], n, Brought(r))'
    <2>1. /\ \A v \in Variants : y.received[v] <= Came(n, v)' + c[v]
          /\ y.status = "COMPLETED" => y.received = Expected[n]
      BY <1>6, <1>7, <1>8, CountsStill
    <2> QED
      BY <1>5, <2>1 DEF Counts
  <1>9. \A x \in Rma : x.received \in [Variants -> Nat]
    BY DEF Rma
  <1>10. CASE R!Authorize(r) \/ R!FindRma(r)
    <2>1. /\ y.received = rmas[n].received
          /\ y.status = "COMPLETED" => y = rmas[n]
      <3>1. CASE R!Authorize(r)
        <4>1. pc'[r] # "rejected"
          BY <1>0 DEF Holds
        <4>2. copy'[r] = [rmas[n] EXCEPT !.status = "AUTHORIZED"]
          BY <1>0, <3>1, <4>1 DEF R!Authorize, R!Cmd, R!Goto
        <4> QED
          BY <1>2, <1>5, <4>2 DEF Rma
      <3>2. CASE R!FindRma(r)
        BY <1>0, <1>5, <3>2 DEF R!FindRma, R!Cmd
      <3> QED
        BY <1>10, <3>1, <3>2
    <2>2. ASSUME NEW v \in Variants
          PROVE  (y.received[v] - rmas[n].received[v]) + Nothing[v] <= (Came(n, v)' - Came(n, v)) + c[v]
      <3>1. y.received[v] \in Nat /\ rmas[n].received[v] \in Nat /\ c[v] \in Nat /\ Nothing[v] = 0
        BY <1>2, <1>6, <1>9 DEF Nothing
      <3>2. y.received[v] = rmas[n].received[v]
        BY <2>1
      <3> QED
        BY <1>7, <3>1, <3>2
    <2>3. y.status = "COMPLETED" => y.received = Expected[n]
      BY <1>2, <2>1 DEF Counts
    <2> QED
      BY <1>2, <1>4, <1>8, <2>2, <2>3
  <1>11. CASE R!LoadReceipt(r)
    <2>1. /\ r \in Receipts /\ pc[r] = "load" /\ call[r].rma = n /\ Holder(r, n)
          /\ pc'[r] \in {"saveRows", "layers"} /\ copy'[r] = R!Received(copy[r], n, R!Lines(r))
      BY <1>0, <1>11 DEF R!LoadReceipt, R!Cmd, R!Goto, Holder, Holds, Receipts
    <2>2. copy[r] \in Rma /\ Counts(copy[r], n, Nothing)
      <3>1. Brought(r) = Nothing
        BY <2>1 DEF Brought
      <3> QED
        BY <1>2, <2>1, <3>1, HolderRma
    <2>3. /\ \A v \in Variants : y.received[v] = copy[r].received[v] + R!Amount(R!Lines(r), R!Dispositions, v)
          /\ y.status = "COMPLETED" => y.received = Expected[n]
      BY <1>5, <2>1, <2>2, ReceivedRma
    <2>4. \A v \in Variants : c[v] = R!Amount(R!Lines(r), R!Dispositions, v)
      BY <1>0, <1>5, <2>1 DEF Brought, Receipts, R!Lines, R!Cmd
    <2>5. ASSUME NEW v \in Variants
          PROVE  (y.received[v] - copy[r].received[v]) + Nothing[v] <= (Came(n, v)' - Came(n, v)) + c[v]
      <3>1. /\ y.received[v] \in Nat /\ copy[r].received[v] \in Nat /\ c[v] \in Nat /\ Nothing[v] = 0
            /\ y.received[v] = copy[r].received[v] + c[v]
        BY <1>6, <1>9, <2>2, <2>3, <2>4 DEF Nothing
      <3> QED
        BY <1>7, <3>1
    <2> QED
      BY <1>4, <1>8, <2>2, <2>3, <2>5
  <1>12. ASSUME ~(R!Authorize(r) \/ R!FindRma(r) \/ R!LoadReceipt(r))
         PROVE  Counts(copy[r], n, Brought(r))'
    <2>1. copy' = copy /\ Holder(r, n)
      <3>1. /\ call[r].op \in {"receive", "authorize"} /\ call[r].rma = n
            /\ pc'[r] \in {"load", "layers", "consume", "saveRows", "saveLayers", "saveRecords",
                           "journal", "saveRma"}
        BY <1>0 DEF Holds
      <3>2. copy' = copy
        BY <1>1, <1>12, <3>1 DEF RSays, R!Execute, R!Create, R!Insert,
             R!ReadLayers, R!Consume, R!SaveRows, R!SaveLayers, R!SaveRecords, R!Journal,
             R!SaveRma, R!FindRecord, R!Intercept, R!LoadQuarantine, R!LoadShelf, R!WriteOff,
             R!SaveRecord, R!memory, R!Cmd
      <3>3. pc[r] \in {"load", "layers", "consume", "saveRows", "saveLayers", "saveRecords",
                       "journal", "saveRma"}
        BY <1>0, <1>1, <1>12, <3>1 DEF RSays, R!Execute, R!Create, R!Insert,
             R!ReadLayers, R!Consume, R!SaveRows, R!SaveLayers, R!SaveRecords, R!Journal,
             R!SaveRma, R!FindRecord, R!Intercept, R!LoadQuarantine, R!LoadShelf, R!WriteOff,
             R!SaveRecord, R!Goto, R!Cmd, TypeInv, Staged
      <3> QED
        BY <3>1, <3>2, <3>3 DEF Holder, Holds
    <2>2. copy[r] \in Rma /\ Counts(copy[r], n, Brought(r)) /\ y = copy[r]
      BY <1>2, <1>5, <2>1, HolderRma
    <2>3. ASSUME NEW v \in Variants
          PROVE  (y.received[v] - copy[r].received[v]) + Brought(r)[v] <= (Came(n, v)' - Came(n, v)) + c[v]
      <3>1. Brought(r)[v] <= (Came(n, v)' - Came(n, v)) + c[v]
        BY <1>5, <1>12, <2>1, Brings
      <3>2. y.received[v] \in Nat /\ y.received[v] = copy[r].received[v]
        BY <1>6, <1>9, <2>2
      <3>3. Brought(r)[v] \in Nat /\ c[v] \in Nat
        BY <1>4, <1>6
      <3> QED
        BY <1>7, <3>1, <3>2, <3>3
    <2>4. y.status = "COMPLETED" => y.received = Expected[n]
      BY <2>2 DEF Counts
    <2> QED
      BY <1>4, <1>8, <2>2, <2>3, <2>4
  <1> QED
    BY <1>10, <1>11, <1>12

LEMMA CountingStep ==
    ASSUME TypeInv, Counting, TypeInv', NEW r \in Requests, RSays(r) \/ KSays(r), Frame(r)
    PROVE  Counting'
  <1> SUFFICES ASSUME NEW n \in Rmas, InitialRmas[n] # NoRma
               PROVE  /\ rmas'[n] \in Rma /\ Counts(rmas[n], n, Nothing)'
                      /\ \A q \in Requests : Holder(q, n)' => Counts(copy[q], n, Brought(q))'
    BY DEF Counting, Holder, Holds
  <1>0. /\ rmas[n] \in Rma /\ Counts(rmas[n], n, Nothing)
        /\ \A q \in Requests : Holder(q, n) => Counts(copy[q], n, Brought(q))
    BY CountingIs
  <1>1. \A v \in Variants : Came(n, v) \in Int /\ Came(n, v)' \in Int /\ Came(n, v)' >= Came(n, v)
    BY Brings
  <1>2. ASSUME NEW x \in Rma, NEW b \in [Variants -> Nat], Counts(x, n, b)
        PROVE  /\ \A v \in Variants : x.received[v] <= Came(n, v)' + b[v]
               /\ x.status = "COMPLETED" => x.received = Expected[n]
    <2>1. ASSUME NEW v \in Variants
          PROVE  (x.received[v] - x.received[v]) + b[v] <= (Came(n, v)' - Came(n, v)) + b[v]
      <3>1. x.received \in [Variants -> Nat] /\ b[v] \in Nat
        BY DEF Rma
      <3>2. x.received[v] \in Nat
        BY <3>1
      <3> QED
        BY <1>1, <3>1, <3>2
    <2>2. x.status = "COMPLETED" => x.received = Expected[n]
      BY <1>2 DEF Counts
    <2> QED
      BY <1>1, <1>2, <2>1, <2>2, CountsStill
  <1>3. ASSUME NEW q \in Requests, Holder(q, n)' PROVE Counts(copy[q], n, Brought(q))'
    <2>1. CASE q = r
      BY <1>3, <2>1, CountingCopy
    <2>2. CASE q # r
      <3>1. Same(q) /\ call' = call
        BY <2>2 DEF Frame
      <3>2. Holder(q, n) /\ copy'[q] = copy[q] /\ Brought(q)' = Brought(q)
        BY <1>3, <3>1, WantsKept DEF Same, Holder, Brought, Nothing
      <3>3. PICK x, b : x = copy[q] /\ b = Brought(q)
        OBVIOUS
      <3>4. x \in Rma /\ b \in [Variants -> Nat] /\ Counts(x, n, b)
        BY <1>0, <3>2, <3>3, HolderRma, BroughtNat
      <3> QED
        BY <1>2, <3>2, <3>3, <3>4 DEF Counts
    <2> QED
      BY <2>1, <2>2
  <1>4. rmas'[n] \in Rma /\ Counts(rmas[n], n, Nothing)'
    <2>1. Nothing \in [Variants -> Nat] /\ Nothing' = Nothing
      BY DEF Nothing
    <2>2. CASE rmas'[n] = rmas[n]
      <3>1. PICK x : x = rmas[n]
        OBVIOUS
      <3>2. x \in Rma /\ Counts(x, n, Nothing)
        BY <1>0, <3>1
      <3> QED
        BY <1>2, <2>1, <2>2, <3>1, <3>2 DEF Counts
    <2>3. CASE R!SaveRma(r) /\ call[r].rma = n
      <3>1. Holder(r, n) /\ Brought(r) = Nothing /\ rmas'[n] = copy[r]
        BY <2>3 DEF R!SaveRma, R!Cmd, Holder, Holds, Brought, TypeInv, ValuationTypes, Staged
      <3>2. PICK x : x = copy[r]
        OBVIOUS
      <3>3. x \in Rma /\ Counts(x, n, Nothing) /\ x = rmas'[n]
        BY <1>0, <3>1, <3>2, HolderRma
      <3> QED
        BY <1>2, <2>1, <3>3 DEF Counts
    <2>4. rmas'[n] = rmas[n] \/ (R!SaveRma(r) /\ call[r].rma = n)
      <3>1. CASE KSays(r)
        BY <3>1 DEF KSays, returnsOnly
      <3>2. CASE R!Insert(r)
        <4>1. rmas[n] # NoRma
          BY <1>0, ValuationAssumption DEF ValuationAssumption
        <4>2. DOMAIN rmas = Rmas
          BY DEF TypeInv, ValuationTypes
        <4> QED
          BY <3>2, <4>1, <4>2 DEF R!Insert, R!Cmd
      <3>3. CASE R!SaveRma(r)
        BY <3>3 DEF R!SaveRma, R!Cmd, TypeInv, ValuationTypes
      <3>4. CASE RSays(r) /\ ~R!Insert(r) /\ ~R!SaveRma(r)
        BY <3>4 DEF RSays, R!Execute, R!Create, R!Authorize, R!FindRma, R!LoadReceipt,
             R!ReadLayers, R!Consume, R!SaveRows, R!SaveLayers, R!SaveRecords, R!Journal,
             R!FindRecord, R!Intercept, R!LoadQuarantine, R!LoadShelf, R!WriteOff,
             R!SaveRecord, R!tables
      <3> QED
        BY <3>1, <3>2, <3>3, <3>4
    <2> QED
      BY <2>2, <2>3, <2>4
  <1> QED
    BY <1>3, <1>4

LEMMA CountingInit ==
    ASSUME Init
    PROVE  Counting
  <1>1. TypeInv /\ \A r \in Requests : pc[r] = "find"
    BY BaseInit, CallsTyped DEF Base
  <1>2. \A r \in Requests, n \in Rmas : ~Holder(r, n)
    BY <1>1 DEF Holder, Holds
  <1>3. ASSUME NEW n \in Rmas, InitialRmas[n] # NoRma
        PROVE  rmas[n] \in Rma /\ Counts(rmas[n], n, Nothing)
    <2>1. rmas[n] = InitialRmas[n] /\ InitialRmas[n] \in Rma
      BY <1>3, InitialAssumption DEF InitialAssumption, Init
    <2>2. rmas[n].status = "COMPLETED" => rmas[n].received = Expected[n]
      BY <1>3, <2>1, InitialAssumption DEF InitialAssumption
    <2>3. ASSUME NEW v \in Variants PROVE rmas[n].received[v] <= Came(n, v) + Nothing[v]
      <3> DEFINE f == [r \in Requests |-> CameBy(r, n, v)]
      <3>1. \A r \in Requests : f[r] = 0
        BY <1>1 DEF CameBy, CameIn
      <3>2. /\ Came(n, v) = InitialRmas[n].received[v] + SumFunctionOnSet(f, Requests)
            /\ InitialRmas[n].received[v] \in Nat
        BY <1>1, <1>3, CameBySum
      <3> HIDE DEF f
      <3>3. SumFunctionOnSet(f, Requests) = 0
        BY <3>1, SumZero, ValuationAssumption DEF ValuationAssumption
      <3> QED
        BY <2>1, <3>2, <3>3 DEF Nothing
    <2> QED
      BY <2>1, <2>2, <2>3 DEF Counts
  <1> QED
    BY <1>2, <1>3, CountingIs

LEMMA CountingStops ==
    ASSUME TypeInv, Counting, Stops
    PROVE  Counting'
  <1>1. \A n, v : Came(n, v)' = Came(n, v)
    BY DEF Stops, Came, CameIn, Receipts, R!Lines, R!Cmd
  <1>2. \A r : Brought(r)' = Brought(r)
    BY DEF Stops, Brought, Nothing, Receipts, R!Lines, R!Cmd
  <1>3. Nothing' = Nothing
    BY DEF Nothing
  <1> QED
    BY <1>1, <1>2, <1>3 DEF Stops, Counting, Counts

LEMMA CountingSuffices ==
    ASSUME TypeInv, Counting
    PROVE  CountedCameIn
  <1> SUFFICES ASSUME NEW n \in Rmas, InitialRmas[n] # NoRma, NEW v \in Variants
               PROVE  /\ rmas[n].received[v] <= Came(n, v)
                      /\ rmas[n].status = "COMPLETED" => Came(n, v) >= Expected[n][v]
    BY DEF CountedCameIn, Came
  <1>1. rmas[n] \in Rma /\ Counts(rmas[n], n, Nothing)
    BY CountingIs
  <1>2. Came(n, v) \in Int
    BY CameBySum
  <1>3. rmas[n].received[v] <= Came(n, v) + 0
    BY <1>1 DEF Counts, Nothing
  <1>4. rmas[n].status = "COMPLETED" => rmas[n].received = Expected[n]
    BY <1>1 DEF Counts
  <1>5. rmas[n].received \in [Variants -> Nat]
    BY <1>1 DEF Rma
  <1>6. rmas[n].received[v] \in Nat
    BY <1>5
  <1> QED
    BY <1>2, <1>3, <1>4, <1>6

\* A return counts as received only what came in, and is complete only when all
\* of it did, however the calls that hold copies of it overlap.
THEOREM ReturnsCountWhatCameIn == Spec => []CountedCameIn
  <1>1. Init => Base /\ Counting
    BY BaseInit, CountingInit
  <1>2. Base /\ Counting /\ [Next]_vars => (Base /\ Counting)'
    <2> SUFFICES ASSUME Base, Counting, [Next]_vars PROVE Base' /\ Counting'
      OBVIOUS
    <2>1. Base'
      BY BaseStep
    <2>2. CASE Stops
      BY <2>1, <2>2, CountingStops DEF Base
    <2>3. ASSUME NEW r \in Requests, RSays(r) \/ KSays(r) PROVE Counting'
      BY <2>1, <2>3, TypesStep, CountingStep DEF Base
    <2> QED
      BY <2>1, <2>2, <2>3, NextCases
  <1>3. Base /\ Counting => CountedCameIn
    BY CountingSuffices DEF Base
  <1> QED
    BY <1>1, <1>2, <1>3, PTL DEF Spec
-----------------------------------------------------------------------------
\* What a call has done to the accounts, as numbers.
AccountsTyped ==
    \A q \in Requests, v \in Variants :
        /\ InShelf(q, v) \in Nat /\ InQuarantine(q, v) \in Int /\ InLedger(q, v) \in Int
        /\ InRecords(q, v) \in Nat /\ AddedBy(q, v) \in Nat /\ TakenBy(q, v) \in Nat

LEMMA AccountsAlways == TypeInv => AccountsTyped
  <1> SUFFICES ASSUME TypeInv, NEW q \in Requests, NEW v \in Variants
               PROVE  /\ InShelf(q, v) \in Nat /\ InQuarantine(q, v) \in Int /\ InLedger(q, v) \in Int
                      /\ InRecords(q, v) \in Nat /\ AddedBy(q, v) \in Nat /\ TakenBy(q, v) \in Nat
    BY DEF AccountsTyped
  <1>1. CASE q \in Receipts
    <2>1. /\ q \notin Resolutions /\ q \notin KitCalls
          /\ \A ds : R!Amount(R!Lines(q), ds, v) \in Nat
      BY <1>1, CallKinds, ReceiptFacts
    <2>2. Wants(q)[v] \in Nat
      BY <1>1, WantsAre
    <2> QED
      BY <1>1, <2>1, <2>2 DEF InShelf, InQuarantine, InLedger, InRecords, AddedBy, TakenBy
  <1>2. CASE q \in Resolutions
    <2>1. q \notin Receipts /\ q \notin KitCalls
      BY <1>2, CallKinds
    <2>2. pc[q] \notin {"find", "rejected"} => Wants(q)[v] \in Nat /\ R!Takes(q)[v] \in Nat
      BY <1>2, WantsAre
    <2>3. /\ InShelf(q, v) \in Nat /\ InQuarantine(q, v) \in Int
      BY <1>2, <2>1, <2>2 DEF InShelf, InQuarantine, Stocked
    <2>4. /\ InLedger(q, v) \in Int /\ InRecords(q, v) \in Nat /\ AddedBy(q, v) \in Nat
      BY <1>2, <2>1 DEF InLedger, InRecords, AddedBy
    <2>5. TakenBy(q, v) \in Nat
      BY <1>2, <2>1, <2>2 DEF TakenBy, Drew
    <2> QED
      BY <2>3, <2>4, <2>5
  <1>3. CASE q \in KitCalls
    <2>1. q \notin Receipts /\ q \notin Resolutions
      BY <1>3, CallKinds
    <2>2. pc[q] \notin {"find", "rejected"} =>
              Wants(q)[v] \in Nat /\ K!Takes(q)[v] \in Nat /\ K!Makes(q)[v] \in Nat
      BY <1>3, WantsAre, KitFacts DEF TypeInv, Remembers
    <2>3. InShelf(q, v) \in Nat /\ InQuarantine(q, v) \in Int /\ InRecords(q, v) \in Nat
      BY <2>1 DEF InShelf, InQuarantine, InRecords
    <2>4. InLedger(q, v) \in Int /\ AddedBy(q, v) \in Nat /\ TakenBy(q, v) \in Nat
      BY <1>3, <2>1, <2>2 DEF InLedger, AddedBy, TakenBy, Drew
    <2> QED
      BY <2>3, <2>4
  <1>4. CASE q \notin Receipts /\ q \notin Resolutions /\ q \notin KitCalls
    BY <1>4 DEF InShelf, InQuarantine, InLedger, InRecords, AddedBy, TakenBy, Drew
  <1> QED
    BY <1>1, <1>2, <1>3, <1>4

\* They depend on its command, its stage and its memory.
LEMMA AccountsKept ==
    ASSUME NEW q, call' = call, copy'[q] = copy[q], recipe'[q] = recipe[q], pc'[q] = pc[q], NEW v
    PROVE  /\ InShelf(q, v)' = InShelf(q, v) /\ InQuarantine(q, v)' = InQuarantine(q, v)
           /\ InLedger(q, v)' = InLedger(q, v) /\ InRecords(q, v)' = InRecords(q, v)
           /\ AddedBy(q, v)' = AddedBy(q, v) /\ TakenBy(q, v)' = TakenBy(q, v)
           /\ Drew(q)' <=> Drew(q)
  <1>1. /\ Wants(q)' = Wants(q) /\ R!Takes(q)' = R!Takes(q)
        /\ K!Takes(q)' = K!Takes(q) /\ K!Makes(q)' = K!Makes(q)
        /\ R!Lines(q)' = R!Lines(q)
        /\ Receipts' = Receipts /\ Resolutions' = Resolutions /\ KitCalls' = KitCalls
    BY WantsKept
  <1>2. Drew(q)' <=> Drew(q)
    BY <1>1 DEF Drew
  <1>3. InShelf(q, v)' = InShelf(q, v) /\ InQuarantine(q, v)' = InQuarantine(q, v)
    BY <1>1 DEF InShelf, InQuarantine, Stocked
  <1>4. InLedger(q, v)' = InLedger(q, v) /\ InRecords(q, v)' = InRecords(q, v)
    BY <1>1 DEF InLedger, InRecords
  <1>5. AddedBy(q, v)' = AddedBy(q, v) /\ TakenBy(q, v)' = TakenBy(q, v)
    BY <1>1, <1>2 DEF AddedBy, TakenBy
  <1> QED
    BY <1>2, <1>3, <1>4, <1>5

LEMMA AccountsMove ==
    ASSUME TypeInv, TypeInv', NEW r \in Requests, Frame(r), NEW v \in Variants
    PROVE  /\ SumFunctionOnSet([q \in Requests |-> InShelf(q, v)'], Requests)
                = SumFunctionOnSet([q \in Requests |-> InShelf(q, v)], Requests)
                    + (InShelf(r, v)' - InShelf(r, v))
           /\ SumFunctionOnSet([q \in Requests |-> InQuarantine(q, v)'], Requests)
                = SumFunctionOnSet([q \in Requests |-> InQuarantine(q, v)], Requests)
                    + (InQuarantine(r, v)' - InQuarantine(r, v))
           /\ SumFunctionOnSet([q \in Requests |-> InLedger(q, v)'], Requests)
                = SumFunctionOnSet([q \in Requests |-> InLedger(q, v)], Requests)
                    + (InLedger(r, v)' - InLedger(r, v))
           /\ SumFunctionOnSet([q \in Requests |-> InRecords(q, v)'], Requests)
                = SumFunctionOnSet([q \in Requests |-> InRecords(q, v)], Requests)
                    + (InRecords(r, v)' - InRecords(r, v))
           /\ SumFunctionOnSet([q \in Requests |-> AddedBy(q, v)'], Requests)
                = SumFunctionOnSet([q \in Requests |-> AddedBy(q, v)], Requests)
                    + (AddedBy(r, v)' - AddedBy(r, v))
           /\ SumFunctionOnSet([q \in Requests |-> TakenBy(q, v)'], Requests)
                = SumFunctionOnSet([q \in Requests |-> TakenBy(q, v)], Requests)
                    + (TakenBy(r, v)' - TakenBy(r, v))
  <1>1. AccountsTyped /\ AccountsTyped'
    <2>1. TypeInv' => AccountsTyped'
      BY AccountsAlways, PTL
    <2> QED
      BY <2>1, AccountsAlways
  <1>2. ASSUME NEW q \in Requests, q # r
        PROVE  /\ InShelf(q, v)' = InShelf(q, v) /\ InQuarantine(q, v)' = InQuarantine(q, v)
               /\ InLedger(q, v)' = InLedger(q, v) /\ InRecords(q, v)' = InRecords(q, v)
               /\ AddedBy(q, v)' = AddedBy(q, v) /\ TakenBy(q, v)' = TakenBy(q, v)
    BY <1>2, AccountsKept DEF Frame, Same
  <1>3. SumFunctionOnSet([q \in Requests |-> InShelf(q, v)'], Requests)
                = SumFunctionOnSet([q \in Requests |-> InShelf(q, v)], Requests)
                    + (InShelf(r, v)' - InShelf(r, v))
    <2> DEFINE f == [q \in Requests |-> InShelf(q, v)]
               k == [q \in Requests |-> InShelf(q, v)']
    <2>1. /\ \A q \in Requests : f[q] \in Int /\ k[q] \in Int /\ (q # r => f[q] = k[q])
          /\ f[r] = InShelf(r, v) /\ k[r] = InShelf(r, v)'
      BY <1>1, <1>2 DEF AccountsTyped
    <2> HIDE DEF f, k
    <2>2. SumFunctionOnSet(k, Requests) = SumFunctionOnSet(f, Requests) + (k[r] - f[r])
      BY <2>1, SumMoves
    <2> QED
      BY <2>1, <2>2 DEF f, k
  <1>4. SumFunctionOnSet([q \in Requests |-> InQuarantine(q, v)'], Requests)
                = SumFunctionOnSet([q \in Requests |-> InQuarantine(q, v)], Requests)
                    + (InQuarantine(r, v)' - InQuarantine(r, v))
    <2> DEFINE f == [q \in Requests |-> InQuarantine(q, v)]
               k == [q \in Requests |-> InQuarantine(q, v)']
    <2>1. /\ \A q \in Requests : f[q] \in Int /\ k[q] \in Int /\ (q # r => f[q] = k[q])
          /\ f[r] = InQuarantine(r, v) /\ k[r] = InQuarantine(r, v)'
      BY <1>1, <1>2 DEF AccountsTyped
    <2> HIDE DEF f, k
    <2>2. SumFunctionOnSet(k, Requests) = SumFunctionOnSet(f, Requests) + (k[r] - f[r])
      BY <2>1, SumMoves
    <2> QED
      BY <2>1, <2>2 DEF f, k
  <1>5. SumFunctionOnSet([q \in Requests |-> InLedger(q, v)'], Requests)
                = SumFunctionOnSet([q \in Requests |-> InLedger(q, v)], Requests)
                    + (InLedger(r, v)' - InLedger(r, v))
    <2> DEFINE f == [q \in Requests |-> InLedger(q, v)]
               k == [q \in Requests |-> InLedger(q, v)']
    <2>1. /\ \A q \in Requests : f[q] \in Int /\ k[q] \in Int /\ (q # r => f[q] = k[q])
          /\ f[r] = InLedger(r, v) /\ k[r] = InLedger(r, v)'
      BY <1>1, <1>2 DEF AccountsTyped
    <2> HIDE DEF f, k
    <2>2. SumFunctionOnSet(k, Requests) = SumFunctionOnSet(f, Requests) + (k[r] - f[r])
      BY <2>1, SumMoves
    <2> QED
      BY <2>1, <2>2 DEF f, k
  <1>6. SumFunctionOnSet([q \in Requests |-> InRecords(q, v)'], Requests)
                = SumFunctionOnSet([q \in Requests |-> InRecords(q, v)], Requests)
                    + (InRecords(r, v)' - InRecords(r, v))
    <2> DEFINE f == [q \in Requests |-> InRecords(q, v)]
               k == [q \in Requests |-> InRecords(q, v)']
    <2>1. /\ \A q \in Requests : f[q] \in Int /\ k[q] \in Int /\ (q # r => f[q] = k[q])
          /\ f[r] = InRecords(r, v) /\ k[r] = InRecords(r, v)'
      BY <1>1, <1>2 DEF AccountsTyped
    <2> HIDE DEF f, k
    <2>2. SumFunctionOnSet(k, Requests) = SumFunctionOnSet(f, Requests) + (k[r] - f[r])
      BY <2>1, SumMoves
    <2> QED
      BY <2>1, <2>2 DEF f, k
  <1>7. SumFunctionOnSet([q \in Requests |-> AddedBy(q, v)'], Requests)
                = SumFunctionOnSet([q \in Requests |-> AddedBy(q, v)], Requests)
                    + (AddedBy(r, v)' - AddedBy(r, v))
    <2> DEFINE f == [q \in Requests |-> AddedBy(q, v)]
               k == [q \in Requests |-> AddedBy(q, v)']
    <2>1. /\ \A q \in Requests : f[q] \in Int /\ k[q] \in Int /\ (q # r => f[q] = k[q])
          /\ f[r] = AddedBy(r, v) /\ k[r] = AddedBy(r, v)'
      BY <1>1, <1>2 DEF AccountsTyped
    <2> HIDE DEF f, k
    <2>2. SumFunctionOnSet(k, Requests) = SumFunctionOnSet(f, Requests) + (k[r] - f[r])
      BY <2>1, SumMoves
    <2> QED
      BY <2>1, <2>2 DEF f, k
  <1>8. SumFunctionOnSet([q \in Requests |-> TakenBy(q, v)'], Requests)
                = SumFunctionOnSet([q \in Requests |-> TakenBy(q, v)], Requests)
                    + (TakenBy(r, v)' - TakenBy(r, v))
    <2> DEFINE f == [q \in Requests |-> TakenBy(q, v)]
               k == [q \in Requests |-> TakenBy(q, v)']
    <2>1. /\ \A q \in Requests : f[q] \in Int /\ k[q] \in Int /\ (q # r => f[q] = k[q])
          /\ f[r] = TakenBy(r, v) /\ k[r] = TakenBy(r, v)'
      BY <1>1, <1>2 DEF AccountsTyped
    <2> HIDE DEF f, k
    <2>2. SumFunctionOnSet(k, Requests) = SumFunctionOnSet(f, Requests) + (k[r] - f[r])
      BY <2>1, SumMoves
    <2> QED
      BY <2>1, <2>2 DEF f, k
  <1> QED
    BY <1>3, <1>4, <1>5, <1>6, <1>7, <1>8
-----------------------------------------------------------------------------
\* The save of its rows is where a return accounts for its goods.
LEMMA RowsAccounted ==
    ASSUME TypeInv, NEW r \in Requests, R!SaveRows(r), R!UpToDate(r), RSays(r), NEW v \in Variants
    PROVE  /\ InShelf(r, v)' = InShelf(r, v) + Delta(r, <<v, "shelf">>)
           /\ InQuarantine(r, v)' = InQuarantine(r, v) + Delta(r, <<v, "quarantine">>)
  <1>1. /\ call' = call /\ copy' = copy /\ recipe' = recipe /\ pc[r] = "saveRows"
        /\ pc'[r] = IF call[r].op = "receive" THEN "saveLayers" ELSE "saveRecord"
    BY DEF RSays, kitsOnly, R!SaveRows, R!memory, R!Goto, R!Cmd, TypeInv, ValuationTypes
  <1>2. /\ R!Takes(r)' = R!Takes(r) /\ R!Lines(r)' = R!Lines(r)
        /\ Receipts' = Receipts /\ Resolutions' = Resolutions
    BY <1>1, WantsKept
  <1>3. r \in Receipts \/ r \in Resolutions
    BY <1>1, CallKinds DEF TypeInv, Staged
  <1>4. InShelf(r, v) = 0 /\ InQuarantine(r, v) = 0
    BY <1>1 DEF InShelf, InQuarantine, Stocked
  <1>5. CASE r \in Receipts
    <2>1. Stocked(r)' /\ r \notin Resolutions
      BY <1>1, <1>5, CallKinds DEF Stocked
    <2>2. /\ InShelf(r, v)' = R!Amount(R!Lines(r), {"RESTOCK"}, v)
          /\ InQuarantine(r, v)' = R!Amount(R!Lines(r), {"QUARANTINE"}, v)
      BY <1>2, <1>5, <2>1 DEF InShelf, InQuarantine
    <2>3. /\ Delta(r, <<v, "shelf">>) = R!Amount(R!Lines(r), {"RESTOCK"}, v)
          /\ Delta(r, <<v, "quarantine">>) = R!Amount(R!Lines(r), {"QUARANTINE"}, v)
      BY <1>5 DEF Delta, R!Kept
    <2>4. \A ds : R!Amount(R!Lines(r), ds, v) \in Nat
      BY <1>5, ReceiptFacts
    <2> QED
      BY <1>4, <2>2, <2>3, <2>4
  <1>6. CASE r \in Resolutions
    <2>1. r \notin Receipts /\ Stocked(r)' /\ copy[r] \in Record
      BY <1>1, <1>6, CallKinds DEF Stocked, TypeInv, Remembers
    <2>2. PICK w, n : w = copy[r].variant /\ n = copy[r].amount
      OBVIOUS
    <2>3. /\ R!Takes(r)[v] = (IF v = w THEN n ELSE 0) /\ n \in Nat
      BY <1>6, <2>1, <2>2, ResolutionFacts
    <2>4. /\ InShelf(r, v)' = IF call[r].resolution = "RESTOCK" THEN R!Takes(r)[v] ELSE 0
          /\ InQuarantine(r, v)' = 0 - R!Takes(r)[v]
      BY <1>1, <1>2, <1>6, <2>1 DEF InShelf, InQuarantine
    <2>5. /\ Delta(r, <<v, "shelf">>)
               = IF v # w THEN 0 ELSE IF call[r].resolution = "RESTOCK" THEN n ELSE 0
          /\ Delta(r, <<v, "quarantine">>) = IF v # w THEN 0 ELSE 0 - n
      BY <2>1, <2>2 DEF Delta
    <2> QED
      BY <1>4, <2>3, <2>4, <2>5
  <1> QED
    BY <1>3, <1>5, <1>6

LEMMA RowsAlone ==
    ASSUME TypeInv, NEW r \in Requests, RSays(r) \/ KSays(r),
           ~(R!SaveRows(r) /\ R!UpToDate(r) /\ RSays(r)), NEW v \in Variants
    PROVE  /\ InShelf(r, v)' = InShelf(r, v) /\ InQuarantine(r, v)' = InQuarantine(r, v)
           /\ items' = items
  <1>0. items' = items
    BY ItemsStep DEF Saves
  <1>1. CASE KSays(r)
    <2>1. r \notin Receipts /\ r \notin Resolutions /\ Receipts' = Receipts /\ Resolutions' = Resolutions
      BY <1>1, KitOps DEF KSays, Receipts, Resolutions
    <2> QED
      BY <1>0, <2>1 DEF InShelf, InQuarantine
  <1>2. CASE RSays(r)
    <2>1. call' = call /\ recipe' = recipe /\ pc \in [Requests -> Stages] /\ Staged(r)
      BY <1>2 DEF RSays, kitsOnly, TypeInv, ValuationTypes
    <2>2. Receipts' = Receipts /\ Resolutions' = Resolutions /\ R!Lines(r)' = R!Lines(r)
      BY <2>1 DEF Receipts, Resolutions, R!Lines, R!Cmd
    <2>3. CASE r \notin Receipts /\ r \notin Resolutions
      BY <1>0, <2>2, <2>3 DEF InShelf, InQuarantine
    <2>4. CASE r \in Receipts \/ r \in Resolutions
      <3>1. call[r].op \in {"receive", "resolve"}
        BY <2>4 DEF Receipts, Resolutions
      <3>2. /\ Stocked(r)' <=> Stocked(r)
            /\ Stocked(r) => copy' = copy
        BY <1>2, <2>1, <3>1, ItemsStep DEF RSays, R!Execute, R!Create, R!Insert, R!Authorize, R!FindRma, R!LoadReceipt,
             R!ReadLayers, R!Consume, R!SaveRows, R!SaveLayers, R!SaveRecords, R!Journal,
             R!SaveRma, R!FindRecord, R!Intercept, R!LoadQuarantine, R!LoadShelf, R!WriteOff,
             R!SaveRecord, R!Goto, R!Cmd, R!memory, Stocked, Staged
      <3>3. CASE Stocked(r)
        <4>1. R!Takes(r)' = R!Takes(r)
          BY <2>1, <3>2, <3>3, WantsKept
        <4> QED
          BY <1>0, <2>1, <2>2, <3>2, <3>3, <4>1 DEF InShelf, InQuarantine
      <3>4. CASE ~Stocked(r)
        BY <1>0, <3>2, <3>4 DEF InShelf, InQuarantine
      <3> QED
        BY <3>3, <3>4
    <2> QED
      BY <2>3, <2>4
  <1> QED
    BY <1>1, <1>2

\* The account of the records.
LEMMA RecordsMove ==
    ASSUME TypeInv, NEW r \in Requests, RSays(r) \/ KSays(r), NEW v \in Variants
    PROVE  Recorded(quarantine', v) - Recorded(quarantine, v) = InRecords(r, v)' - InRecords(r, v)
  <1>0. /\ Receipts' = Receipts /\ R!Lines(r)' = R!Lines(r) /\ pc \in [Requests -> Stages]
        /\ Recorded(quarantine, v) \in Nat
        /\ \A ds : r \in Receipts => R!Amount(R!Lines(r), ds, v) \in Nat
        /\ call' = call
    <2>1. IsRecords(quarantine)
      BY TablesTyped DEF Tables
    <2> QED
      BY <2>1, RecordFacts, ReceiptFacts
         DEF RSays, KSays, Receipts, R!Lines, R!Cmd, TypeInv, ValuationTypes
  <1>1. CASE R!SaveRecords(r)
    <2>1. /\ r \in Receipts
          /\ Recorded(quarantine', v) = Recorded(quarantine, v) + R!Amount(R!Lines(r), {"QUARANTINE"}, v)
      BY <1>1, ReceiptRecords
    <2>2. pc[r] = "saveRecords" /\ pc'[r] = "journal"
      BY <1>0, <1>1 DEF R!SaveRecords, R!Goto
    <2>3. InRecords(r, v) = 0 /\ InRecords(r, v)' = R!Amount(R!Lines(r), {"QUARANTINE"}, v)
      BY <1>0, <2>1, <2>2 DEF InRecords
    <2> QED
      BY <1>0, <2>1, <2>3
  <1>2. CASE ~R!SaveRecords(r)
    <2>1. Recorded(quarantine', v) = Recorded(quarantine, v)
      <3>1. CASE R!SaveRecord(r)
        BY <3>1, ResolvedRecord
      <3>2. CASE ~R!SaveRecord(r)
        <4>1. CASE KSays(r)
          BY <4>1 DEF KSays, returnsOnly
        <4>2. CASE RSays(r)
          <5>1. quarantine' = quarantine
            BY <1>2, <3>2, <4>2 DEF RSays, R!Execute, R!Create, R!Insert, R!Authorize, R!FindRma, R!LoadReceipt,
             R!ReadLayers, R!Consume, R!SaveRows, R!SaveLayers, R!Journal,
             R!SaveRma, R!FindRecord, R!Intercept, R!LoadQuarantine, R!LoadShelf, R!WriteOff, R!tables
          <5> QED
            BY <5>1
        <4> QED
          BY <4>1, <4>2
      <3> QED
        BY <3>1, <3>2
    <2>2. InRecords(r, v)' = InRecords(r, v)
      <3>1. CASE r \notin Receipts
        BY <1>0, <3>1 DEF InRecords
      <3>2. CASE r \in Receipts
        <4>1. RSays(r) /\ call[r].op = "receive"
          BY <3>2, KitOps DEF Receipts
        <4>2. pc'[r] \in {"journal", "saveRma", "done"} <=> pc[r] \in {"journal", "saveRma", "done"}
          BY <1>0, <1>2, <4>1 DEF RSays, R!Execute, R!Create, R!Insert, R!Authorize, R!FindRma, R!LoadReceipt,
             R!ReadLayers, R!Consume, R!SaveRows, R!SaveLayers, R!Journal,
             R!SaveRma, R!FindRecord, R!Intercept, R!LoadQuarantine, R!LoadShelf, R!WriteOff,
             R!SaveRecord, R!Goto, R!Cmd, TypeInv, Staged
        <4> QED
          BY <1>0, <3>2, <4>2 DEF InRecords
      <3> QED
        BY <3>1, <3>2
    <2>3. InRecords(r, v) \in Int
      BY AccountsAlways DEF AccountsTyped
    <2> QED
      BY <1>0, <2>1, <2>2, <2>3
  <1> QED
    BY <1>1, <1>2
-----------------------------------------------------------------------------
\* A receipt changes a quarantine row once, unless two of its lines go there.
LEMMA QuarantinedOnce ==
    ASSUME TypeInv, NEW r \in Requests, NEW v \in Variants, ~QuarantinedTwice(v),
           <<v, "quarantine">> \in R!Places(r)
    PROVE  Alone(r, <<v, "quarantine">>)
  <1> SUFFICES ASSUME r \in Receipts PROVE R!Changes(R!Lines(r), <<v, "quarantine">>) = 1
    BY DEF Alone
  <1>1. /\ call[r].op = "receive" /\ R!Lines(r) \in Seq(R!ReceiptLine)
    BY ReceiptFacts
  <1>2. PICK lines, k : lines = R!Lines(r) /\ k = <<v, "quarantine">>
    OBVIOUS
  <1>3. lines \in Seq(R!ReceiptLine)
    BY <1>1, <1>2
  <1>4. \E i \in DOMAIN lines : R!Place(lines[i]) = k
    BY <1>1, <1>2 DEF R!Places, R!Cmd
  <1>5. R!Changes(lines, k) \in Nat /\ R!Changes(lines, k) # 0
    BY <1>3, <1>4, ChangesAre, ChangesCount
  <1>6. ASSUME NEW i \in DOMAIN lines, R!Place(lines[i]) = k
        PROVE  lines[i].variant = v /\ lines[i].disposition = "QUARANTINE"
    <2>1. <<lines[i].variant, IF lines[i].disposition = "QUARANTINE" THEN "quarantine" ELSE "shelf">>
              = <<v, "quarantine">>
      BY <1>2, <1>6 DEF R!Place
    <2> QED
      BY <2>1
  <1>7. ASSUME R!Changes(lines, k) >= 2 PROVE FALSE
    <2>1. ~ \E i \in DOMAIN lines : R!Place(lines[i]) = k /\ lines[i].disposition = "SCRAP"
      BY <1>6
    <2>2. \E i, j \in DOMAIN lines : i # j /\ R!Place(lines[i]) = k /\ R!Place(lines[j]) = k
      BY <1>3, <1>7, <2>1, ChangesCount
    <2>3. PICK i \in DOMAIN lines, j \in DOMAIN lines :
              i # j /\ R!Place(lines[i]) = k /\ R!Place(lines[j]) = k
      BY <2>2
    <2>4. i \in R!Marked(r, "QUARANTINE") /\ j \in R!Marked(r, "QUARANTINE")
      BY <1>2, <1>6, <2>3 DEF R!Marked
    <2>5. R!Lines(r)[i].variant = v /\ R!Lines(r)[j].variant = v
      BY <1>2, <1>6, <2>3
    <2> QED
      BY <2>3, <2>4, <2>5 DEF QuarantinedTwice
  <1>8. R!Changes(lines, k) = 1
    BY <1>5, <1>7
  <1> QED
    BY <1>2, <1>8

LEMMA StaleGrows ==
    ASSUME TypeInv, Covered, NEW r \in Requests, RSays(r) \/ KSays(r)
    PROVE  stale \subseteq stale'
  <1>1. CASE KSays(r)
    BY <1>1 DEF KSays, K!Execute, K!CreateKit, K!AddKitComponent, K!RemoveKitComponent, K!SaveKit,
           K!FindKit, K!CheckLedger, K!ReadKitLayers, K!ConsumeKitLayers, K!ReadAverages,
           K!SaveNewLayers, K!AppendEntries, K!KitJournal, K!tables
  <1>2. CASE RSays(r)
    BY <1>2 DEF RSays, R!Execute, R!Create, R!Insert, R!Authorize, R!FindRma, R!LoadReceipt,
             R!ReadLayers, R!Consume, R!SaveRows, R!SaveLayers, R!SaveRecords, R!Journal,
             R!SaveRma, R!FindRecord, R!Intercept, R!LoadQuarantine, R!LoadShelf, R!WriteOff,
             R!SaveRecord, R!tables
  <1> QED
    BY <1>1, <1>2

LEMMA TwiceKept ==
    ASSUME call' = call, NEW v
    PROVE  QuarantinedTwice(v)' <=> QuarantinedTwice(v)
BY DEF QuarantinedTwice, Receipts, R!Marked, R!Lines, R!Cmd

LEMMA QuarantinesStep ==
    ASSUME Base, Quarantines, TypeInv', NEW r \in Requests, RSays(r) \/ KSays(r), Frame(r)
    PROVE  Quarantines'
  <1> SUFFICES ASSUME NEW v \in Variants, ~(QuarantinedTwice(v)' /\ v \in stale')
               PROVE  Quantity(items', <<v, "quarantine">>)
                        = Quantity(InitialItems, <<v, "quarantine">>)
                            + SumFunctionOnSet([q \in Requests |-> InQuarantine(q, v)'], Requests)
    BY DEF Quarantines, Quantity
  <1>0. /\ TypeInv /\ Snapshots /\ Covered /\ call' = call
        /\ ~(QuarantinedTwice(v) /\ v \in stale) /\ ~(QuarantinedTwice(v) /\ v \in stale')
    BY StaleGrows, TwiceKept DEF Base, Frame
  <1>1. PICK k : k = <<v, "quarantine">>
    OBVIOUS
  <1>2. k \in R!Keys /\ k[1] = v
    BY <1>1 DEF R!Keys
  <1>3. PICK a, b : /\ a = SumFunctionOnSet([q \in Requests |-> InQuarantine(q, v)], Requests)
                    /\ b = SumFunctionOnSet([q \in Requests |-> InQuarantine(q, v)'], Requests)
    OBVIOUS
  <1>4. /\ b = a + (InQuarantine(r, v)' - InQuarantine(r, v))
        /\ a \in Int /\ InQuarantine(r, v) \in Int
    <2>1. \A q \in Requests : InQuarantine(q, v) \in Int
      BY <1>0, AccountsAlways DEF AccountsTyped
    <2>2. PICK f : f = [q \in Requests |-> InQuarantine(q, v)]
      OBVIOUS
    <2>3. \A q \in Requests : f[q] \in Int
      BY <2>1, <2>2
    <2>4. SumFunctionOnSet(f, Requests) \in Int
      BY <2>3, SumMoves
    <2> QED
      BY <1>0, <1>3, <2>1, <2>2, <2>4, AccountsMove
  <1>5. Quantity(items, k) = Quantity(InitialItems, k) + a
    BY <1>0, <1>1, <1>3 DEF Quarantines
  <1>6. Quantity(InitialItems, k) \in Int
    BY <1>2, InitialAssumption DEF InitialAssumption, Quantity, Item
  <1>7. CASE R!SaveRows(r) /\ R!UpToDate(r) /\ RSays(r)
    <2>1. Saves(r)
      BY <1>7 DEF R!SaveRows, Saves
    <2>2. /\ InQuarantine(r, v)' = InQuarantine(r, v) + Delta(r, k)
      BY <1>0, <1>1, <1>7, RowsAccounted
    <2>3. Quantity(items', k) = Quantity(items, k) + Delta(r, k) /\ Delta(r, k) \in Int
      <3>1. Delta(r, k) \in Int /\ Quantity(items', k) \in Int
        BY <1>0, <1>2, <2>1, SavedFacts
      <3>2. CASE k \notin R!Places(r)
        BY <1>0, <1>2, <2>1, <3>1, <3>2, SavedFacts
      <3>3. CASE k \in R!Places(r)
        <4>1. loaded[r][k] = items[k]
          <5>1. CASE v \notin stale'
            BY <1>0, <1>2, <2>1, <3>3, <5>1, SavedFacts
          <5>2. CASE ~QuarantinedTwice(v)
            BY <1>0, <1>1, <1>2, <2>1, <3>3, <5>2, QuarantinedOnce, SavedFacts
          <5> QED
            BY <1>0, <5>1, <5>2
        <4>2. Quantity(items', k) = Quantity(loaded[r], k) + Delta(r, k)
          BY <1>0, <1>2, <2>1, <3>3, SavedFacts
        <4> QED
          BY <3>1, <4>1, <4>2 DEF Quantity
      <3> QED
        BY <3>2, <3>3
    <2> QED
      BY <1>1, <1>3, <1>4, <1>5, <1>6, <2>2, <2>3
  <1>8. CASE ~(R!SaveRows(r) /\ R!UpToDate(r) /\ RSays(r))
    <2>1. InQuarantine(r, v)' = InQuarantine(r, v) /\ items' = items
      BY <1>0, <1>8, RowsAlone
    <2> QED
      BY <1>1, <1>3, <1>4, <1>5, <1>6, <2>1
  <1> QED
    BY <1>7, <1>8

LEMMA RecordsStep ==
    ASSUME TypeInv, Records, TypeInv', NEW r \in Requests, RSays(r) \/ KSays(r), Frame(r)
    PROVE  Records'
  <1> SUFFICES ASSUME NEW v \in Variants
               PROVE  Recorded(quarantine', v)
                        = Recorded(InitialQuarantine, v)
                            + SumFunctionOnSet([q \in Requests |-> InRecords(q, v)'], Requests)
    BY DEF Records, Recorded
  <1>1. PICK a, b : /\ a = SumFunctionOnSet([q \in Requests |-> InRecords(q, v)], Requests)
                    /\ b = SumFunctionOnSet([q \in Requests |-> InRecords(q, v)'], Requests)
    OBVIOUS
  <1>2. b = a + (InRecords(r, v)' - InRecords(r, v)) /\ Recorded(quarantine, v) = Recorded(InitialQuarantine, v) + a
    BY <1>1, AccountsMove DEF Records
  <1>3. \A q \in Requests : InRecords(q, v) \in Int /\ InRecords(q, v)' \in Int
    <2>1. TypeInv' => AccountsTyped'
      BY AccountsAlways, PTL
    <2> QED
      BY <2>1, AccountsAlways DEF AccountsTyped
  <1>4. a \in Int
    <2>1. PICK f : f = [q \in Requests |-> InRecords(q, v)]
      OBVIOUS
    <2>2. \A q \in Requests : f[q] \in Int
      BY <1>3, <2>1
    <2>3. SumFunctionOnSet(f, Requests) \in Int
      BY <2>2, SumMoves
    <2> QED
      BY <1>1, <2>1, <2>3
  <1>5. Recorded(quarantine', v) - Recorded(quarantine, v) = InRecords(r, v)' - InRecords(r, v)
    BY RecordsMove
  <1>6. Recorded(quarantine, v) \in Int /\ Recorded(InitialQuarantine, v) \in Int
        /\ Recorded(quarantine', v) \in Int
    <2>1. IsRecords(quarantine) /\ IsRecords(InitialQuarantine) /\ IsRecords(quarantine')
      BY InitialAssumption DEF InitialAssumption, IsRecords, TypeInv, ValuationTypes
    <2> QED
      BY <2>1, RecordFacts
  <1> QED
    BY <1>1, <1>2, <1>3, <1>4, <1>5, <1>6
-----------------------------------------------------------------------------
\* Before their first steps the calls have done nothing.
LEMMA AccountsNone ==
    ASSUME Init, NEW v
    PROVE  /\ SumFunctionOnSet([q \in Requests |-> InShelf(q, v)], Requests) = 0
           /\ SumFunctionOnSet([q \in Requests |-> InQuarantine(q, v)], Requests) = 0
           /\ SumFunctionOnSet([q \in Requests |-> InLedger(q, v)], Requests) = 0
           /\ SumFunctionOnSet([q \in Requests |-> InRecords(q, v)], Requests) = 0
           /\ SumFunctionOnSet([q \in Requests |-> AddedBy(q, v)], Requests) = 0
           /\ SumFunctionOnSet([q \in Requests |-> TakenBy(q, v)], Requests) = 0
  <1>1. ASSUME NEW q \in Requests
        PROVE  /\ InShelf(q, v) = 0 /\ InQuarantine(q, v) = 0 /\ InLedger(q, v) = 0
               /\ InRecords(q, v) = 0 /\ AddedBy(q, v) = 0 /\ TakenBy(q, v) = 0
    <2>1. pc[q] = "find"
      BY CallsTyped
    <2>2. ~Stocked(q) /\ ~Drew(q)
      BY <2>1 DEF Stocked, Drew
    <2> QED
      BY <2>1, <2>2 DEF InShelf, InQuarantine, InLedger, InRecords, AddedBy, TakenBy
  <1>2. IsFiniteSet(Requests)
    BY ValuationAssumption DEF ValuationAssumption
  <1>3. \A f : (\A q \in Requests : f[q] = 0) => SumFunctionOnSet(f, Requests) = 0
    BY <1>2, SumZero
  <1>4. /\ \A q \in Requests : [p \in Requests |-> InShelf(p, v)][q] = 0
        /\ \A q \in Requests : [p \in Requests |-> InQuarantine(p, v)][q] = 0
        /\ \A q \in Requests : [p \in Requests |-> InLedger(p, v)][q] = 0
        /\ \A q \in Requests : [p \in Requests |-> InRecords(p, v)][q] = 0
        /\ \A q \in Requests : [p \in Requests |-> AddedBy(p, v)][q] = 0
        /\ \A q \in Requests : [p \in Requests |-> TakenBy(p, v)][q] = 0
    BY <1>1
  <1> QED
    BY <1>3, <1>4

\* A process that stops changes no account.
LEMMA AccountsStopped ==
    ASSUME Stops, NEW v
    PROVE  /\ [q \in Requests |-> InShelf(q, v)'] = [q \in Requests |-> InShelf(q, v)]
           /\ [q \in Requests |-> InQuarantine(q, v)'] = [q \in Requests |-> InQuarantine(q, v)]
           /\ [q \in Requests |-> InLedger(q, v)'] = [q \in Requests |-> InLedger(q, v)]
           /\ [q \in Requests |-> InRecords(q, v)'] = [q \in Requests |-> InRecords(q, v)]
           /\ [q \in Requests |-> AddedBy(q, v)'] = [q \in Requests |-> AddedBy(q, v)]
           /\ [q \in Requests |-> TakenBy(q, v)'] = [q \in Requests |-> TakenBy(q, v)]
  <1>1. \A q \in Requests :
            /\ InShelf(q, v)' = InShelf(q, v) /\ InQuarantine(q, v)' = InQuarantine(q, v)
            /\ InLedger(q, v)' = InLedger(q, v) /\ InRecords(q, v)' = InRecords(q, v)
            /\ AddedBy(q, v)' = AddedBy(q, v) /\ TakenBy(q, v)' = TakenBy(q, v)
    BY AccountsKept DEF Stops
  <1> QED
    BY <1>1

LEMMA RowsInit ==
    ASSUME Init
    PROVE  Quarantines /\ Records
  <1>1. ASSUME NEW v \in Variants
        PROVE  /\ Quantity(items, <<v, "quarantine">>)
                    = Quantity(InitialItems, <<v, "quarantine">>)
                        + SumFunctionOnSet([q \in Requests |-> InQuarantine(q, v)], Requests)
               /\ Recorded(quarantine, v) = Recorded(InitialQuarantine, v)
                        + SumFunctionOnSet([q \in Requests |-> InRecords(q, v)], Requests)
    <2>1. <<v, "quarantine">> \in R!Keys
      BY DEF R!Keys
    <2>2. Quantity(InitialItems, <<v, "quarantine">>) \in Int
      BY <2>1, InitialAssumption DEF InitialAssumption, Quantity, Item
    <2>3. IsRecords(InitialQuarantine)
      BY InitialAssumption DEF InitialAssumption, IsRecords
    <2>4. Recorded(InitialQuarantine, v) \in Int
      BY <2>3, RecordFacts
    <2>5. items = InitialItems /\ quarantine = InitialQuarantine
      BY DEF Init
    <2>6. /\ SumFunctionOnSet([q \in Requests |-> InQuarantine(q, v)], Requests) = 0
          /\ SumFunctionOnSet([q \in Requests |-> InRecords(q, v)], Requests) = 0
      BY AccountsNone
    <2> QED
      BY <2>2, <2>4, <2>5, <2>6
  <1> QED
    BY <1>1 DEF Quarantines, Records

LEMMA RowsStopped ==
    ASSUME Quarantines, Records, Stops
    PROVE  Quarantines' /\ Records'
  <1>1. call' = call /\ items' = items /\ quarantine' = quarantine /\ stale' = stale
    BY DEF Stops
  <1>2. ASSUME NEW v \in Variants, ~(QuarantinedTwice(v)' /\ v \in stale')
        PROVE  Quantity(items', <<v, "quarantine">>)
                 = Quantity(InitialItems, <<v, "quarantine">>)
                     + SumFunctionOnSet([q \in Requests |-> InQuarantine(q, v)'], Requests)
    <2>1. ~(QuarantinedTwice(v) /\ v \in stale)
      BY <1>1, <1>2, TwiceKept
    <2>2. Quantity(items, <<v, "quarantine">>)
                 = Quantity(InitialItems, <<v, "quarantine">>)
                     + SumFunctionOnSet([q \in Requests |-> InQuarantine(q, v)], Requests)
      BY <2>1 DEF Quarantines
    <2> QED
      BY <1>1, <2>2, AccountsStopped
  <1>3. ASSUME NEW v \in Variants
        PROVE  Recorded(quarantine', v)
                 = Recorded(InitialQuarantine, v)
                     + SumFunctionOnSet([q \in Requests |-> InRecords(q, v)'], Requests)
    <2>1. Recorded(quarantine, v)
                 = Recorded(InitialQuarantine, v)
                     + SumFunctionOnSet([q \in Requests |-> InRecords(q, v)], Requests)
      BY DEF Records
    <2> QED
      BY <1>1, <2>1, AccountsStopped
  <1> QED
    BY <1>2, <1>3 DEF Quarantines, Records, Quantity, Recorded

LEMMA QuantityNat ==
    ASSUME NEW t, IsRows(t), NEW k \in R!Keys
    PROVE  Quantity(t, k) \in Nat
  <1>1. t[k] \in Item \cup {NoRow}
    BY DEF IsRows
  <1>2. \A i \in Item : i.quantity \in Nat
    BY DEF Item
  <1> QED
    BY <1>1, <1>2 DEF Quantity

\* The rows of a set of one.
LEMMA OneRow ==
    ASSUME NEW t, NEW k, Quantity(t, k) \in Int
    PROVE  OnHand(t, {k}) = Quantity(t, k)
  <1> DEFINE f == [p \in {k} |-> IF t[p] = NoRow THEN 0 ELSE t[p].quantity]
  <1>1. f[k] = Quantity(t, k) /\ OnHand(t, {k}) = SumFunctionOnSet(f, {k})
    BY DEF Quantity, OnHand
  <1> HIDE DEF f
  <1> QED
    BY <1>1, SumOne

LEMMA RowsSuffice ==
    ASSUME TypeInv, Quarantines, Records
    PROVE  QuarantineAccounted
  <1> SUFFICES ASSUME NEW v \in Variants, ~(QuarantinedTwice(v) /\ v \in stale)
               PROVE  OnHand(items, {<<v, "quarantine">>}) - OnHand(InitialItems, {<<v, "quarantine">>})
                        = Recorded(quarantine, v) - Recorded(InitialQuarantine, v)
                            + SumFunctionOnSet([r \in Requests |-> Unrecorded(r, v)], Requests)
    BY DEF QuarantineAccounted
  <1>2. <<v, "quarantine">> \in R!Keys
    BY DEF R!Keys
  <1>3. Quantity(items, <<v, "quarantine">>) \in Int /\ Quantity(InitialItems, <<v, "quarantine">>) \in Int
    <2>1. PICK k : k = <<v, "quarantine">>
      OBVIOUS
    <2>2. k \in R!Keys
      BY <1>2, <2>1
    <2>3. IsRows(InitialItems) /\ IsRows(items)
      BY InitialAssumption DEF InitialAssumption, IsRows, TypeInv, ValuationTypes
    <2>4. Quantity(InitialItems, k) \in Nat /\ Quantity(items, k) \in Nat
      BY <2>2, <2>3, QuantityNat
    <2> QED
      BY <2>1, <2>4
  <1> DEFINE f == [q \in Requests |-> Unrecorded(q, v)]
             g == [q \in Requests |-> InRecords(q, v)]
             h == [q \in Requests |-> InQuarantine(q, v)]
  <1>1. ASSUME NEW q \in Requests
        PROVE  h[q] = f[q] + g[q] /\ f[q] \in Int /\ g[q] \in Int
    <2>1. InQuarantine(q, v) \in Int /\ InRecords(q, v) \in Int
      BY AccountsAlways DEF AccountsTyped
    <2>2. InQuarantine(q, v) = Unrecorded(q, v) + InRecords(q, v) /\ Unrecorded(q, v) \in Int
      <3>1. CASE q \in Receipts
        <4>1. q \notin Resolutions /\ pc[q] # "saveRecord"
          BY <3>1, CallKinds DEF TypeInv, Staged
        <4>2. PICK m : m = R!Amount(R!Lines(q), {"QUARANTINE"}, v)
          OBVIOUS
        <4>3. m \in Nat
          BY <3>1, <4>2, ReceiptFacts
        <4>4. /\ InQuarantine(q, v)
                   = (IF pc[q] \in {"saveLayers", "saveRecords", "journal", "saveRma", "done"} THEN m ELSE 0)
              /\ Unrecorded(q, v) = (IF pc[q] \in {"saveLayers", "saveRecords"} THEN m ELSE 0)
              /\ InRecords(q, v) = (IF pc[q] \in {"journal", "saveRma", "done"} THEN m ELSE 0)
          BY <3>1, <4>1, <4>2 DEF InQuarantine, Unrecorded, InRecords, Stocked
        <4> QED
          BY <4>3, <4>4
      <3>2. CASE q \in Resolutions
        <4>1. q \notin Receipts /\ InRecords(q, v) = 0
              /\ pc[q] \notin {"saveLayers", "saveRecords", "journal", "saveRma"}
          BY <3>2, CallKinds DEF InRecords, TypeInv, Staged
        <4>2. Unrecorded(q, v) = InQuarantine(q, v)
          BY <3>2, <4>1 DEF InQuarantine, Unrecorded, Stocked
        <4> QED
          BY <2>1, <4>1, <4>2
      <3>3. CASE q \notin Receipts /\ q \notin Resolutions
        BY <3>3 DEF InQuarantine, Unrecorded, InRecords
      <3> QED
        BY <3>1, <3>2, <3>3
    <2> QED
      BY <2>1, <2>2
  <1>4. /\ Quantity(items, <<v, "quarantine">>)
             = Quantity(InitialItems, <<v, "quarantine">>) + SumFunctionOnSet(h, Requests)
        /\ Recorded(quarantine, v) = Recorded(InitialQuarantine, v) + SumFunctionOnSet(g, Requests)
    BY DEF Quarantines, Records
  <1>5. Recorded(InitialQuarantine, v) \in Int
    <2>1. IsRecords(InitialQuarantine)
      BY InitialAssumption DEF InitialAssumption, IsRecords
    <2> QED
      BY <2>1, RecordFacts
  <1> HIDE DEF f, g, h
  <1>6. Summable(f, Requests) /\ Summable(g, Requests)
    BY <1>1, ValuationAssumption DEF ValuationAssumption, Summable
  <1>7. SumFunctionOnSet(h, Requests) = SumFunctionOnSet(f, Requests) + SumFunctionOnSet(g, Requests)
    BY <1>1, <1>6, SumPlus
  <1>8. SumFunctionOnSet(f, Requests) \in Int /\ SumFunctionOnSet(g, Requests) \in Int
    BY <1>6, SumType
  <1>9. /\ OnHand(items, {<<v, "quarantine">>}) = Quantity(items, <<v, "quarantine">>)
        /\ OnHand(InitialItems, {<<v, "quarantine">>}) = Quantity(InitialItems, <<v, "quarantine">>)
    BY <1>3, OneRow
  <1>10. OnHand(items, {<<v, "quarantine">>}) - OnHand(InitialItems, {<<v, "quarantine">>})
           = Recorded(quarantine, v) - Recorded(InitialQuarantine, v) + SumFunctionOnSet(f, Requests)
    BY <1>3, <1>4, <1>5, <1>7, <1>8, <1>9
  <1> QED
    BY <1>10 DEF f

\* What is in quarantine is what was put there less what was taken out, with a
\* record of everything but what a call has just put there or taken out.
THEOREM QuarantineIsAccounted == Spec => []QuarantineAccounted
  <1>1. Init => Base /\ Quarantines /\ Records
    BY BaseInit, RowsInit
  <1>2. Base /\ Quarantines /\ Records /\ [Next]_vars => (Base /\ Quarantines /\ Records)'
    <2> SUFFICES ASSUME Base, Quarantines, Records, [Next]_vars
                 PROVE  Base' /\ Quarantines' /\ Records'
      OBVIOUS
    <2>1. Base'
      BY BaseStep
    <2>2. CASE Stops
      BY <2>1, <2>2, RowsStopped
    <2>3. ASSUME NEW r \in Requests, RSays(r) \/ KSays(r) PROVE Quarantines' /\ Records'
      BY <2>1, <2>3, TypesStep, QuarantinesStep, RecordsStep DEF Base
    <2> QED
      BY <2>1, <2>2, <2>3, NextCases
  <1>3. Base /\ Quarantines /\ Records => QuarantineAccounted
    BY RowsSuffice DEF Base
  <1> QED
    BY <1>1, <1>2, <1>3, PTL DEF Spec
-----------------------------------------------------------------------------
\* What a step does to the layers, and to the accounts of its call.
Draws(r) ==
    /\ Consumes(r) /\ read' = read /\ ~Drew(r) /\ Drew(r)'
    /\ \A v \in Variants : AddedBy(r, v)' = AddedBy(r, v) /\ TakenBy(r, v)' = Wants(r)[v]
Lays(r) ==
    \E new : /\ layers' = layers \o new /\ Fresh(new) /\ stale' = stale /\ read' = read
             /\ \A v \in Variants : /\ AddedBy(r, v)' = AddedBy(r, v) + Initials(new, v)
                                    /\ TakenBy(r, v)' = TakenBy(r, v)
Leaves(r) ==
    /\ layers' = layers
    /\ read' = read \/ read' = [read EXCEPT ![r] = layers]
    /\ \A v \in Variants : AddedBy(r, v)' = AddedBy(r, v) /\ TakenBy(r, v)' = TakenBy(r, v)

LEMMA ScrapsNone ==
    ASSUME TypeInv, NEW r \in Receipts, R!Marked(r, "SCRAP") = {}, NEW v \in Variants
    PROVE  Wants(r)[v] = 0
  <1>1. R!Lines(r) \in Seq(R!ReceiptLine) /\ R!Takes(r)[v] = R!Amount(R!Lines(r), {"SCRAP"}, v)
    BY ReceiptFacts
  <1>2. \A i \in DOMAIN R!Lines(r) : ~(R!Lines(r)[i].variant = v /\ R!Lines(r)[i].disposition \in {"SCRAP"})
    BY DEF R!Marked
  <1>3. R!Amount(R!Lines(r), {"SCRAP"}, v) = 0
    BY <1>1, <1>2, AmountOfNone
  <1>4. r \in Requests
    BY ReceiptFacts
  <1> QED
    BY <1>1, <1>3, <1>4, WantsAre

LEMMA KitLayersMove ==
    ASSUME TypeInv, Covered, TypeInv', NEW r \in Requests, KSays(r)
    PROVE  Draws(r) \/ Lays(r) \/ Leaves(r)
  <1>0. /\ call' = call /\ copy' = copy /\ pc \in [Requests -> Stages] /\ Staged(r)
        /\ r \notin Receipts /\ r \notin Resolutions
        /\ Receipts' = Receipts /\ Resolutions' = Resolutions /\ KitCalls' = KitCalls
    BY KitOps DEF KSays, returnsOnly, TypeInv, ValuationTypes, Receipts, Resolutions, KitCalls
  <1>1. CASE K!ConsumeKitLayers(r)
    <2>1. /\ Consumes(r) /\ recipe' = recipe /\ read' = read /\ pc[r] = "kitConsume"
          /\ pc'[r] \in {"newLayers", "average"} /\ r \in KitCalls
      BY <1>0, <1>1, KitConsumes, CallKinds DEF K!ConsumeKitLayers, K!memory, K!Goto, Staged
    <2>2. Wants(r)' = Wants(r) /\ K!Makes(r)' = K!Makes(r)
      BY <1>0, <2>1, WantsKept
    <2>3. ~Drew(r) /\ Drew(r)'
      BY <1>0, <2>1 DEF Drew
    <2>4. ASSUME NEW v \in Variants
          PROVE  AddedBy(r, v)' = AddedBy(r, v) /\ TakenBy(r, v)' = Wants(r)[v]
      BY <1>0, <2>1, <2>2, <2>3 DEF AddedBy, TakenBy
    <2> QED
      BY <2>1, <2>3, <2>4 DEF Draws
  <1>2. CASE K!SaveNewLayers(r)
    <2>1. PICK new : /\ layers' = layers \o new /\ Fresh(new) /\ r \in KitCalls
                     /\ \A v \in Variants : /\ Initials(new, v) = K!Makes(r)[v]
                                            /\ Value(new, v) = K!Makes(r)[v] * K!NewCost(r, v)
      BY <1>2, KitLayers
    <2>2. /\ recipe' = recipe /\ read' = read /\ stale' = stale
          /\ pc[r] = "newLayers" /\ pc'[r] = "append"
      BY <1>0, <1>2 DEF K!SaveNewLayers, K!memory, K!Goto
    <2>3. /\ Wants(r)' = Wants(r) /\ K!Makes(r)' = K!Makes(r) /\ K!Makes(r) \in [Variants -> Nat]
      BY <1>0, <2>1, <2>2, WantsKept, KitFacts DEF TypeInv, Remembers
    <2>4. ASSUME NEW v \in Variants
          PROVE  /\ AddedBy(r, v)' = AddedBy(r, v) + Initials(new, v)
                 /\ TakenBy(r, v)' = TakenBy(r, v)
      <3>1. AddedBy(r, v) = 0 /\ AddedBy(r, v)' = K!Makes(r)[v] /\ K!Makes(r)[v] \in Nat
        BY <1>0, <2>1, <2>2, <2>3 DEF AddedBy
      <3>2. TakenBy(r, v)' = TakenBy(r, v)
        BY <1>0, <2>1, <2>2, <2>3 DEF TakenBy, Drew
      <3> QED
        BY <2>1, <3>1, <3>2
    <2> QED
      BY <2>1, <2>2, <2>4 DEF Lays
  <1>3. CASE ~K!ConsumeKitLayers(r) /\ ~K!SaveNewLayers(r)
    <2>1. layers' = layers /\ (read' = read \/ read' = [read EXCEPT ![r] = layers])
      BY <1>3 DEF KSays, K!Execute, K!CreateKit, K!AddKitComponent, K!RemoveKitComponent, K!SaveKit,
           K!FindKit, K!CheckLedger, K!ReadKitLayers, K!ReadAverages,
           K!AppendEntries, K!KitJournal, K!tables, K!memory
    <2>2. CASE r \notin KitCalls
      BY <1>0, <2>1, <2>2 DEF Leaves, AddedBy, TakenBy, Drew
    <2>3. CASE r \in KitCalls
      <3>1. call[r].op \in {"assemble", "disassemble"}
        BY <2>3 DEF KitCalls
      <3>2. \/ pc[r] = "find" /\ pc'[r] \in {"check", "rejected"}
            \/ recipe' = recipe /\ pc[r] = "check" /\ pc'[r] \in {"kitLayers", "rejected"}
            \/ recipe' = recipe /\ pc[r] = "kitLayers" /\ pc'[r] \in {"kitConsume", "rejected"}
            \/ recipe' = recipe /\ pc[r] = "average" /\ pc'[r] = "newLayers"
            \/ recipe' = recipe /\ pc[r] = "append" /\ pc'[r] = "kitJournal"
            \/ recipe' = recipe /\ pc[r] = "kitJournal" /\ pc'[r] \in {"done", "refused"}
        BY <1>0, <1>3, <3>1 DEF KSays, K!Execute, K!CreateKit, K!AddKitComponent, K!RemoveKitComponent, K!SaveKit,
           K!FindKit, K!CheckLedger, K!ReadKitLayers, K!ReadAverages,
           K!AppendEntries, K!KitJournal, K!memory, K!Goto, K!Cmd, Staged
      <3>3. CASE pc[r] = "find"
        BY <1>0, <2>1, <2>3, <3>2, <3>3 DEF Leaves, AddedBy, TakenBy, Drew
      <3>4. CASE recipe' = recipe
        <4>1. Wants(r)' = Wants(r) /\ K!Makes(r)' = K!Makes(r)
          BY <1>0, <3>4, WantsKept
        <4> QED
          BY <1>0, <2>1, <2>3, <3>2, <4>1 DEF Leaves, AddedBy, TakenBy, Drew
      <3> QED
        BY <3>2, <3>3, <3>4
    <2> QED
      BY <2>2, <2>3
  <1> QED
    BY <1>1, <1>2, <1>3

LEMMA ReturnLayersMove ==
    ASSUME TypeInv, Covered, TypeInv', NEW r \in Requests, RSays(r)
    PROVE  Draws(r) \/ Lays(r) \/ Leaves(r)
  <1>0. /\ call' = call /\ recipe' = recipe /\ pc \in [Requests -> Stages] /\ Staged(r)
        /\ r \notin KitCalls /\ DOMAIN copy = Requests
        /\ Receipts' = Receipts /\ Resolutions' = Resolutions /\ KitCalls' = KitCalls
        /\ R!Lines(r)' = R!Lines(r)
    BY ReturnOps DEF RSays, kitsOnly, TypeInv, ValuationTypes, Receipts, Resolutions, KitCalls,
                     R!Lines, R!Cmd
  <1>1. CASE R!Consume(r)
    <2>1. /\ Consumes(r) /\ copy' = copy /\ read' = read /\ pc[r] = "consume"
          /\ pc'[r] = IF call[r].op = "receive" THEN "saveRows" ELSE "writeOff"
      BY <1>0, <1>1, ReturnConsumes DEF R!Consume, R!memory, R!Goto, R!Cmd
    <2>2. Wants(r)' = Wants(r)
      BY <1>0, <2>1, WantsKept
    <2>3. (r \in Receipts /\ pc'[r] = "saveRows") \/ (r \in Resolutions /\ call[r].resolution # "RESTOCK" /\ pc'[r] = "writeOff")
      BY <1>0, <2>1, CallKinds DEF Staged
    <2>4. ~Drew(r) /\ Drew(r)'
      BY <1>0, <2>1, <2>3 DEF Drew
    <2>5. ASSUME NEW v \in Variants
          PROVE  AddedBy(r, v)' = AddedBy(r, v) /\ TakenBy(r, v)' = Wants(r)[v]
      BY <1>0, <2>1, <2>2, <2>3, <2>4 DEF AddedBy, TakenBy
    <2> QED
      BY <2>1, <2>4, <2>5 DEF Draws
  <1>2. CASE R!SaveLayers(r)
    <2>1. PICK new : /\ layers' = layers \o new /\ Fresh(new) /\ r \in Receipts
                     /\ \A v \in Variants : Initials(new, v) = R!Amount(R!Lines(r), R!Dispositions, v)
      BY <1>2, ReceiptLayers
    <2>2. /\ copy' = copy /\ read' = read /\ stale' = stale
          /\ pc[r] = "saveLayers" /\ pc'[r] = "saveRecords"
      BY <1>0, <1>2 DEF R!SaveLayers, R!memory, R!Goto
    <2>3. Wants(r)' = Wants(r)
      BY <1>0, <2>2, WantsKept
    <2>4. ASSUME NEW v \in Variants
          PROVE  /\ AddedBy(r, v)' = AddedBy(r, v) + Initials(new, v)
                 /\ TakenBy(r, v)' = TakenBy(r, v)
      <3>1. /\ AddedBy(r, v) = 0 /\ AddedBy(r, v)' = R!Amount(R!Lines(r), R!Dispositions, v)
            /\ R!Amount(R!Lines(r), R!Dispositions, v) \in Nat
        BY <1>0, <2>1, <2>2, ReceiptFacts DEF AddedBy
      <3>2. TakenBy(r, v)' = TakenBy(r, v)
        BY <1>0, <2>1, <2>2, <2>3 DEF TakenBy, Drew
      <3> QED
        BY <2>1, <3>1, <3>2
    <2> QED
      BY <2>1, <2>2, <2>4 DEF Lays
  <1>3. CASE ~R!Consume(r) /\ ~R!SaveLayers(r)
    <2>1. layers' = layers /\ (read' = read \/ read' = [read EXCEPT ![r] = layers])
      BY <1>3 DEF RSays, R!Execute, R!Create, R!Insert, R!Authorize, R!FindRma, R!LoadReceipt,
             R!ReadLayers, R!SaveRows, R!SaveRecords, R!Journal,
             R!SaveRma, R!FindRecord, R!Intercept, R!LoadQuarantine, R!LoadShelf, R!WriteOff,
             R!SaveRecord, R!tables, R!memory
    <2>2. CASE r \notin Receipts /\ r \notin Resolutions
      BY <1>0, <2>1, <2>2 DEF Leaves, AddedBy, TakenBy, Drew
    <2>3. CASE r \in Receipts
      <3>1. call[r].op = "receive" /\ r \notin Resolutions
        BY <2>3, CallKinds
      <3>2. \A v \in Variants : Wants(r)'[v] = Wants(r)[v] /\ Wants(r)[v] = R!Takes(r)[v]
        <4>1. R!Takes(r)' = R!Takes(r)
          BY <1>0, <3>1 DEF R!Takes, R!Cmd
        <4> QED
          BY <1>0, <4>1 DEF Wants
      <3>3. /\ pc'[r] \in {"saveRecords", "journal", "saveRma", "done"} <=>
               pc[r] \in {"saveRecords", "journal", "saveRma", "done"}
            /\ \/ pc'[r] \in {"find", "load", "layers", "consume", "rejected"} <=>
                  pc[r] \in {"find", "load", "layers", "consume", "rejected"}
               \/ R!Marked(r, "SCRAP") = {}
        BY <1>0, <1>3, <3>1 DEF RSays, R!Execute, R!Create, R!Insert, R!Authorize, R!FindRma, R!LoadReceipt,
             R!ReadLayers, R!SaveRows, R!SaveRecords, R!Journal,
             R!SaveRma, R!FindRecord, R!Intercept, R!LoadQuarantine, R!LoadShelf, R!WriteOff,
             R!SaveRecord, R!Goto, R!Cmd, Staged
      <3>4. ASSUME NEW v \in Variants
            PROVE  AddedBy(r, v)' = AddedBy(r, v) /\ TakenBy(r, v)' = TakenBy(r, v)
        <4>1. AddedBy(r, v)' = AddedBy(r, v)
          BY <1>0, <2>3, <3>3 DEF AddedBy
        <4>2. CASE R!Marked(r, "SCRAP") = {}
          <5>1. Wants(r)[v] = 0 /\ Wants(r)'[v] = 0
            BY <2>3, <3>2, <4>2, ScrapsNone
          <5> QED
            BY <4>1, <5>1 DEF TakenBy
        <4>3. CASE R!Marked(r, "SCRAP") # {}
          <5>1. Drew(r)' <=> Drew(r)
            BY <1>0, <2>3, <3>1, <3>3, <4>3 DEF Drew
          <5> QED
            BY <3>2, <4>1, <5>1 DEF TakenBy
        <4> QED
          BY <4>2, <4>3
      <3> QED
        BY <2>1, <3>4 DEF Leaves
    <2>4. CASE r \in Resolutions
      <3>1. call[r].op = "resolve" /\ r \notin Receipts
        BY <2>4, CallKinds
      <3>2. \/ pc[r] \in {"find", "rejected"} /\ ~Drew(r) /\ ~Drew(r)'
            \/ copy' = copy /\ (Drew(r)' <=> Drew(r))
        BY <1>0, <1>3, <3>1 DEF RSays, R!Execute, R!Create, R!Insert, R!Authorize, R!FindRma, R!LoadReceipt,
             R!ReadLayers, R!SaveRows, R!SaveRecords, R!Journal,
             R!SaveRma, R!FindRecord, R!Intercept, R!LoadQuarantine, R!LoadShelf, R!WriteOff,
             R!SaveRecord, R!Goto, R!Cmd, R!memory, Staged, Drew
      <3>3. ASSUME NEW v \in Variants
            PROVE  AddedBy(r, v)' = AddedBy(r, v) /\ TakenBy(r, v)' = TakenBy(r, v)
        <4>1. AddedBy(r, v) = 0 /\ AddedBy(r, v)' = 0
          BY <1>0, <2>4, <3>1 DEF AddedBy
        <4>2. CASE copy' = copy /\ (Drew(r)' <=> Drew(r))
          <5>1. Wants(r)' = Wants(r)
            BY <1>0, <4>2, WantsKept
          <5> QED
            BY <4>1, <4>2, <5>1 DEF TakenBy
        <4>3. CASE ~Drew(r) /\ ~Drew(r)'
          BY <4>1, <4>3 DEF TakenBy
        <4> QED
          BY <3>2, <4>2, <4>3
      <3> QED
        BY <2>1, <3>3 DEF Leaves
    <2> QED
      BY <2>2, <2>3, <2>4
  <1> QED
    BY <1>1, <1>2, <1>3
-----------------------------------------------------------------------------
\* The sums of the accounts are numbers.
LEMMA AccountSums ==
    ASSUME TypeInv, NEW v \in Variants
    PROVE  /\ SumFunctionOnSet([q \in Requests |-> InShelf(q, v)], Requests) \in Nat
           /\ SumFunctionOnSet([q \in Requests |-> InQuarantine(q, v)], Requests) \in Int
           /\ SumFunctionOnSet([q \in Requests |-> InLedger(q, v)], Requests) \in Int
           /\ SumFunctionOnSet([q \in Requests |-> AddedBy(q, v)], Requests) \in Nat
           /\ SumFunctionOnSet([q \in Requests |-> TakenBy(q, v)], Requests) \in Nat
  <1>1. IsFiniteSet(Requests)
    BY ValuationAssumption DEF ValuationAssumption
  <1>2. \A f : (\A q \in Requests : f[q] \in Nat) => SumFunctionOnSet(f, Requests) \in Nat
    BY <1>1, SumNat
  <1>3. \A f : (\A q \in Requests : f[q] \in Int) => SumFunctionOnSet(f, Requests) \in Int
    BY <1>1, SumType DEF Summable
  <1>4. /\ \A q \in Requests : [p \in Requests |-> InShelf(p, v)][q] \in Nat
        /\ \A q \in Requests : [p \in Requests |-> InQuarantine(p, v)][q] \in Int
        /\ \A q \in Requests : [p \in Requests |-> InLedger(p, v)][q] \in Int
        /\ \A q \in Requests : [p \in Requests |-> AddedBy(p, v)][q] \in Nat
        /\ \A q \in Requests : [p \in Requests |-> TakenBy(p, v)][q] \in Nat
    BY AccountsAlways DEF AccountsTyped
  <1> QED
    BY <1>2, <1>3, <1>4

\* The account of the ledger.
LEMMA LedgerMoves ==
    ASSUME TypeInv, NEW r \in Requests, RSays(r) \/ KSays(r), NEW v \in Variants
    PROVE  ledger'[v] = ledger[v] + (InLedger(r, v)' - InLedger(r, v))
  <1>0. /\ KitCalls' = KitCalls /\ call' = call /\ ledger[v] \in Int /\ InLedger(r, v) \in Int
        /\ pc \in [Requests -> Stages] /\ Staged(r)
    BY AccountsAlways DEF RSays, KSays, KitCalls, TypeInv, ValuationTypes, AccountsTyped
  <1>1. CASE RSays(r)
    <2>1. ledger' = ledger /\ r \notin KitCalls
      BY <1>1, ReturnOps DEF RSays, kitsOnly
    <2> QED
      BY <1>0, <2>1 DEF InLedger
  <1>2. CASE KSays(r)
    <2>1. CASE K!AppendEntries(r)
      <3>1. /\ pc[r] = "append" /\ pc'[r] = "kitJournal" /\ copy' = copy /\ recipe' = recipe
            /\ ledger'[v] = ledger[v] + K!Makes(r)[v] - K!Takes(r)[v] /\ r \in KitCalls
        BY <1>0, <1>2, <2>1, CallKinds
           DEF KSays, returnsOnly, K!AppendEntries, K!memory, K!Goto, Staged
      <3>2. K!Makes(r)' = K!Makes(r) /\ K!Takes(r)' = K!Takes(r)
        BY <1>0, <3>1, WantsKept
      <3>3. K!Makes(r)[v] \in Int /\ K!Takes(r)[v] \in Int
        BY <3>1, KitFacts DEF TypeInv, Remembers
      <3>4. InLedger(r, v) = 0 /\ InLedger(r, v)' = K!Makes(r)[v] - K!Takes(r)[v]
        BY <1>0, <3>1, <3>2 DEF InLedger
      <3> QED
        BY <1>0, <3>1, <3>3, <3>4
    <2>2. CASE ~K!AppendEntries(r)
      <3>1. ledger' = ledger
        BY <1>2, <2>2 DEF KSays, K!Execute, K!CreateKit, K!AddKitComponent, K!RemoveKitComponent, K!SaveKit,
           K!FindKit, K!CheckLedger, K!ReadKitLayers, K!ConsumeKitLayers, K!ReadAverages,
           K!SaveNewLayers, K!KitJournal, K!tables
      <3>2. CASE r \notin KitCalls
        BY <1>0, <3>1, <3>2 DEF InLedger
      <3>3. CASE r \in KitCalls
        <4>1. call[r].op \in {"assemble", "disassemble"}
          BY <3>3 DEF KitCalls
        <4>2. \/ /\ pc[r] \notin {"kitJournal", "done", "refused"}
                 /\ pc'[r] \notin {"kitJournal", "done", "refused"}
              \/ recipe' = recipe /\ pc[r] = "kitJournal" /\ pc'[r] \in {"done", "refused"}
          BY <1>0, <1>2, <2>2, <4>1 DEF KSays, K!Execute, K!CreateKit, K!AddKitComponent, K!RemoveKitComponent, K!SaveKit,
             K!FindKit, K!CheckLedger, K!ReadKitLayers, K!ConsumeKitLayers, K!ReadAverages,
             K!SaveNewLayers, K!KitJournal, K!memory, K!Goto, K!Cmd, Staged
        <4>3. copy' = copy
          BY <1>2 DEF KSays, returnsOnly
        <4>4. recipe' = recipe => K!Makes(r)' = K!Makes(r) /\ K!Takes(r)' = K!Takes(r)
          BY <1>0, <4>3, WantsKept
        <4>5. InLedger(r, v)' = InLedger(r, v)
          BY <1>0, <3>3, <4>2, <4>4 DEF InLedger
        <4> QED
          BY <1>0, <3>1, <4>5
      <3> QED
        BY <3>2, <3>3
    <2> QED
      BY <2>1, <2>2
  <1> QED
    BY <1>1, <1>2

LEMMA LedgersStep ==
    ASSUME TypeInv, Ledgers, TypeInv', NEW r \in Requests, RSays(r) \/ KSays(r), Frame(r)
    PROVE  Ledgers'
  <1> SUFFICES ASSUME NEW v \in Variants
               PROVE  ledger'[v] = InitialLedger[v]
                            + SumFunctionOnSet([q \in Requests |-> InLedger(q, v)'], Requests)
    BY DEF Ledgers
  <1>1. PICK a, b : /\ a = SumFunctionOnSet([q \in Requests |-> InLedger(q, v)], Requests)
                    /\ b = SumFunctionOnSet([q \in Requests |-> InLedger(q, v)'], Requests)
    OBVIOUS
  <1>2. b = a + (InLedger(r, v)' - InLedger(r, v)) /\ ledger[v] = InitialLedger[v] + a
    BY <1>1, AccountsMove DEF Ledgers
  <1>3. a \in Int /\ InLedger(r, v) \in Int /\ InLedger(r, v)' \in Int
    <2>1. TypeInv' => AccountsTyped'
      BY AccountsAlways, PTL
    <2> QED
      BY <1>1, <2>1, AccountsAlways, AccountSums DEF AccountsTyped
  <1>4. ledger'[v] = ledger[v] + (InLedger(r, v)' - InLedger(r, v))
    BY LedgerMoves
  <1>5. InitialLedger[v] \in Int
    BY InitialAssumption DEF InitialAssumption
  <1> QED
    BY <1>1, <1>2, <1>3, <1>4, <1>5
-----------------------------------------------------------------------------
LEMMA LayersMove ==
    ASSUME TypeInv, Covered, TypeInv', NEW r \in Requests, RSays(r) \/ KSays(r)
    PROVE  Draws(r) \/ Lays(r) \/ Leaves(r)
BY KitLayersMove, ReturnLayersMove

\* A consumption leaves the layers as many; how far it gets depends on whether
\* its reading is still true.
LEMMA DrawsFacts ==
    ASSUME TypeInv, Covered, NEW r \in Requests, Draws(r), NEW v \in Variants
    PROVE  /\ Initials(layers', v) = Initials(layers, v)
           /\ v \notin stale' =>
                 /\ Consumption(layers', v) = Consumption(layers, v) + Wants(r)[v]
                 /\ Value(layers', v) = Value(layers, v) - Charged("FIFO", read[r], v, Wants(r)[v])
           /\ Wants(r)[v] \in Nat /\ TakenBy(r, v) = 0
  <1>1. /\ pc[r] \in {"consume", "kitConsume"}
        /\ layers' = Consumed(layers, read[r], Wants(r))
        /\ stale' = stale \cup Overwrites(r)
    BY DEF Draws, Consumes
  <1>2. /\ Enough(read[r], Wants(r)) /\ Table(read[r]) /\ Grown(read[r], layers) /\ Table(layers)
    BY <1>1, EnoughRead
  <1>3. Wants(r)[v] \in Nat
    BY <1>2 DEF Enough
  <1>4. Table(layers') /\ SameLayers(layers, layers')
    BY ConsumeTables DEF Draws
  <1>5. Of(layers', v) = Of(layers, v)
    BY <1>4 DEF Of, SameLayers
  <1>6. Initials(layers', v) = Initials(layers, v)
    <2>1. /\ Initials(layers', v) = SumFunctionOnSet(Came0(layers'), Of(layers, v))
          /\ Initials(layers, v) = SumFunctionOnSet(Came0(layers), Of(layers, v))
          /\ Of(layers, v) \subseteq DOMAIN layers
          /\ \A i \in DOMAIN layers : Came0(layers)[i] = layers[i].initial
          /\ \A i \in DOMAIN layers' : Came0(layers')[i] = layers'[i].initial
      BY <1>2, <1>4, <1>5, OfFacts, ActiveFacts
    <2>2. Summable(Came0(layers), Of(layers, v))
      BY <1>2, <2>1, OfFacts
    <2>3. \A i \in Of(layers, v) : Came0(layers)[i] = Came0(layers')[i]
      BY <1>4, <2>1 DEF SameLayers
    <2> QED
      BY <2>1, <2>2, <2>3, SumSame
  <1>7. ASSUME v \notin stale'
        PROVE  Wants(r)[v] > 0 => \A i \in Active(read[r], v) : layers[i].consumed = read[r][i].consumed
    BY <1>1, <1>7 DEF Overwrites
  <1>8. TakenBy(r, v) = 0
    BY DEF Draws, TakenBy
  <1> QED
    BY <1>1, <1>2, <1>3, <1>6, <1>7, <1>8, FreshTaken

LEMMA FreshTable ==
    ASSUME NEW new, Fresh(new)
    PROVE  Table(new)
  <1>1. new \in Seq(Layer) /\ \A i \in DOMAIN new : new[i].consumed = 0
    BY DEF Fresh
  <1>2. ASSUME NEW i \in DOMAIN new PROVE new[i].consumed <= new[i].initial
    <2>1. new[i] \in Layer
      BY <1>1
    <2> QED
      BY <1>1, <2>1 DEF Layer
  <1> QED
    BY <1>1, <1>2 DEF Table

LEMMA LayersAddedStep ==
    ASSUME Base, LayersAdded, TypeInv', NEW r \in Requests, RSays(r) \/ KSays(r), Frame(r)
    PROVE  LayersAdded'
  <1> SUFFICES ASSUME NEW v \in Variants
               PROVE  Initials(layers', v) = Initials(InitialLayers, v)
                            + SumFunctionOnSet([q \in Requests |-> AddedBy(q, v)'], Requests)
    BY DEF LayersAdded, Initials, Of
  <1>0. TypeInv /\ Covered /\ Table(layers) /\ Table(InitialLayers)
    BY InitialAssumption DEF Base, TypeInv, ValuationTypes, InitialAssumption, Table
  <1>1. PICK a, b : /\ a = SumFunctionOnSet([q \in Requests |-> AddedBy(q, v)], Requests)
                    /\ b = SumFunctionOnSet([q \in Requests |-> AddedBy(q, v)'], Requests)
    OBVIOUS
  <1>2. b = a + (AddedBy(r, v)' - AddedBy(r, v)) /\ Initials(layers, v) = Initials(InitialLayers, v) + a
    BY <1>0, <1>1, AccountsMove DEF LayersAdded
  <1>3. a \in Int /\ AddedBy(r, v) \in Int /\ AddedBy(r, v)' \in Int
    <2>1. TypeInv' => AccountsTyped'
      BY AccountsAlways, PTL
    <2>2. AccountsTyped /\ AccountsTyped'
      BY <1>0, <2>1, AccountsAlways
    <2>3. a \in Nat
      <3>1. TypeInv
        BY <1>0
      <3> QED
        BY <1>1, <3>1, AccountSums
    <2> QED
      BY <2>2, <2>3 DEF AccountsTyped
  <1>4. Initials(layers, v) \in Int /\ Initials(InitialLayers, v) \in Int
    BY <1>0, OfFacts
  <1>5. Initials(layers', v) = Initials(layers, v) + (AddedBy(r, v)' - AddedBy(r, v))
    <2>1. CASE Draws(r)
      <3>1. AddedBy(r, v)' = AddedBy(r, v)
        BY <2>1 DEF Draws
      <3> QED
        BY <1>0, <1>3, <1>4, <2>1, <3>1, DrawsFacts
    <2>2. CASE Lays(r)
      <3>1. PICK new : /\ layers' = layers \o new /\ Fresh(new)
                       /\ AddedBy(r, v)' = AddedBy(r, v) + Initials(new, v)
        BY <2>2 DEF Lays
      <3>2. Initials(layers', v) = Initials(layers, v) + Initials(new, v)
        BY <1>0, <3>1, AppendFacts
      <3>3. Table(new)
        BY <3>1, FreshTable
      <3>4. Initials(new, v) \in Int
        BY <3>3, OfFacts
      <3> QED
        BY <1>3, <1>4, <3>1, <3>2, <3>4
    <2>3. CASE Leaves(r)
      <3>1. layers' = layers /\ AddedBy(r, v)' = AddedBy(r, v)
        BY <2>3 DEF Leaves
      <3> QED
        BY <1>3, <1>4, <3>1
    <2> QED
      BY <1>0, <2>1, <2>2, <2>3, LayersMove
  <1> QED
    BY <1>1, <1>2, <1>3, <1>4, <1>5

LEMMA LayersTakenStep ==
    ASSUME Base, LayersTaken, TypeInv', NEW r \in Requests, RSays(r) \/ KSays(r), Frame(r)
    PROVE  LayersTaken'
  <1> SUFFICES ASSUME NEW v \in Variants, v \notin stale'
               PROVE  Consumption(layers', v) = Consumption(InitialLayers, v)
                            + SumFunctionOnSet([q \in Requests |-> TakenBy(q, v)'], Requests)
    BY DEF LayersTaken, Consumption, Of
  <1>0. TypeInv /\ Covered /\ Table(layers) /\ Table(InitialLayers) /\ v \notin stale
    BY StaleGrows, InitialAssumption DEF Base, TypeInv, ValuationTypes, InitialAssumption, Table
  <1>1. PICK a, b : /\ a = SumFunctionOnSet([q \in Requests |-> TakenBy(q, v)], Requests)
                    /\ b = SumFunctionOnSet([q \in Requests |-> TakenBy(q, v)'], Requests)
    OBVIOUS
  <1>2. b = a + (TakenBy(r, v)' - TakenBy(r, v)) /\ Consumption(layers, v) = Consumption(InitialLayers, v) + a
    BY <1>0, <1>1, AccountsMove DEF LayersTaken
  <1>3. a \in Int /\ TakenBy(r, v) \in Int /\ TakenBy(r, v)' \in Int
    <2>1. TypeInv' => AccountsTyped'
      BY AccountsAlways, PTL
    <2>2. AccountsTyped /\ AccountsTyped'
      BY <1>0, <2>1, AccountsAlways
    <2>3. a \in Nat
      <3>1. TypeInv
        BY <1>0
      <3> QED
        BY <1>1, <3>1, AccountSums
    <2> QED
      BY <2>2, <2>3 DEF AccountsTyped
  <1>4. Consumption(layers, v) \in Int /\ Consumption(InitialLayers, v) \in Int
    BY <1>0, OfFacts
  <1>5. Consumption(layers', v) = Consumption(layers, v) + (TakenBy(r, v)' - TakenBy(r, v))
    <2>1. CASE Draws(r)
      <3>1. TakenBy(r, v)' = Wants(r)[v]
        BY <2>1 DEF Draws
      <3> QED
        BY <1>0, <1>3, <1>4, <2>1, <3>1, DrawsFacts
    <2>2. CASE Lays(r)
      <3>1. PICK new : layers' = layers \o new /\ Fresh(new) /\ TakenBy(r, v)' = TakenBy(r, v)
        BY <2>2 DEF Lays
      <3>2. Consumption(layers', v) = Consumption(layers, v)
        BY <1>0, <3>1, AppendFacts
      <3> QED
        BY <1>3, <1>4, <3>1, <3>2
    <2>3. CASE Leaves(r)
      <3>1. layers' = layers /\ TakenBy(r, v)' = TakenBy(r, v)
        BY <2>3 DEF Leaves
      <3> QED
        BY <1>3, <1>4, <3>1
    <2> QED
      BY <1>0, <2>1, <2>2, <2>3, LayersMove
  <1> QED
    BY <1>1, <1>2, <1>3, <1>4, <1>5
-----------------------------------------------------------------------------
\* The peaks of the layers, when their call takes some, and when it lays some.
Higher(r, peak) ==
    [i \in DOMAIN layers |->
        peak[i] + Gives(layers, read[r], layers[i].variant, Wants(r)[layers[i].variant])[i]]
Longer(peak, t) == [i \in DOMAIN t |-> IF i \in DOMAIN peak THEN peak[i] ELSE 0]

LEMMA PeakOf ==
    ASSUME NEW t, Table(t), NEW peak \in [DOMAIN t -> Nat], NEW v
    PROVE  /\ Of(t, v) \subseteq DOMAIN t /\ IsFiniteSet(Of(t, v))
           /\ Summable(peak, Of(t, v)) /\ SumFunctionOnSet(peak, Of(t, v)) \in Nat
  <1>1. Of(t, v) \subseteq DOMAIN t /\ IsFiniteSet(Of(t, v))
    BY ActiveFacts
  <1>2. \A i \in Of(t, v) : peak[i] \in Nat
    BY <1>1
  <1> QED
    BY <1>1, <1>2, SumNat DEF Summable

LEMMA HigherFacts ==
    ASSUME TypeInv, Covered, NEW r \in Requests, Draws(r), NEW peak, peak \in [DOMAIN layers -> Nat]
    PROVE  /\ Higher(r, peak) \in [DOMAIN layers -> Nat]
           /\ \A i \in DOMAIN layers : peak[i] <= Higher(r, peak)[i]
           /\ \A v \in Variants :
                 /\ \A i \in Of(layers, v) :
                        Higher(r, peak)[i] = peak[i] + Gives(layers, read[r], v, Wants(r)[v])[i]
                 /\ SumFunctionOnSet(Higher(r, peak), Of(layers, v))
                        = SumFunctionOnSet(peak, Of(layers, v)) + Wants(r)[v]
  <1>0. pc[r] \in {"consume", "kitConsume"}
    BY DEF Draws, Consumes
  <1>1. /\ Enough(read[r], Wants(r)) /\ Table(read[r]) /\ Grown(read[r], layers) /\ Table(layers)
    BY <1>0, EnoughRead
  <1>2. ASSUME NEW v \in Variants
        PROVE  /\ \A i \in Of(layers, v) : Gives(layers, read[r], v, Wants(r)[v])[i] \in Nat
               /\ SumFunctionOnSet(Gives(layers, read[r], v, Wants(r)[v]), Of(layers, v)) = Wants(r)[v]
    <2>1. Wants(r)[v] \in Nat /\ Wants(r)[v] <= Units(read[r], v)
      BY <1>1 DEF Enough
    <2> QED
      BY <1>1, <2>1, GivesFacts
  <1>3. ASSUME NEW v \in Variants, NEW i \in Of(layers, v)
        PROVE  /\ i \in DOMAIN layers /\ peak[i] \in Nat
               /\ Higher(r, peak)[i] = peak[i] + Gives(layers, read[r], v, Wants(r)[v])[i]
               /\ Gives(layers, read[r], v, Wants(r)[v])[i] \in Nat
    <2>1. i \in DOMAIN layers /\ layers[i].variant = v
      BY <1>3 DEF Of
    <2>2. Gives(layers, read[r], v, Wants(r)[v])[i] \in Nat
      BY <1>2, <1>3
    <2> QED
      BY <2>1, <2>2 DEF Higher
  <1>4. ASSUME NEW i \in DOMAIN layers
        PROVE  layers[i].variant \in Variants /\ i \in Of(layers, layers[i].variant)
    BY <1>1, LayerFacts DEF Of
  <1>5. ASSUME NEW i \in DOMAIN layers
        PROVE  Higher(r, peak)[i] \in Nat /\ peak[i] <= Higher(r, peak)[i]
    <2>1. PICK v : v = layers[i].variant
      OBVIOUS
    <2>2. PICK g : g = Gives(layers, read[r], v, Wants(r)[v])[i]
      OBVIOUS
    <2>3. Higher(r, peak)[i] = peak[i] + g /\ g \in Nat /\ peak[i] \in Nat
      BY <1>3, <1>4, <2>1, <2>2
    <2> QED
      BY <2>3
  <1>6. Higher(r, peak) \in [DOMAIN layers -> Nat]
    BY <1>5 DEF Higher
  <1>7. ASSUME NEW v \in Variants
        PROVE  SumFunctionOnSet(Higher(r, peak), Of(layers, v))
                 = SumFunctionOnSet(peak, Of(layers, v)) + Wants(r)[v]
    <2>1. PICK g, h, S : /\ g = Gives(layers, read[r], v, Wants(r)[v])
                         /\ h = Higher(r, peak) /\ S = Of(layers, v)
      OBVIOUS
    <2>2. \A i \in S : h[i] = peak[i] + g[i] /\ g[i] \in Int
      BY <1>3, <2>1
    <2>3. IsFiniteSet(S) /\ Summable(peak, S)
      BY <1>1, <2>1, PeakOf
    <2>4. Summable(g, S)
      BY <2>2, <2>3 DEF Summable
    <2>5. SumFunctionOnSet(h, S) = SumFunctionOnSet(peak, S) + SumFunctionOnSet(g, S)
      BY <2>2, <2>3, <2>4, SumPlus
    <2>6. SumFunctionOnSet(g, S) = Wants(r)[v]
      BY <1>2, <2>1
    <2> QED
      BY <2>1, <2>5, <2>6
  <1> QED
    BY <1>3, <1>5, <1>6, <1>7

LEMMA LongerFacts ==
    ASSUME NEW t, Table(t), NEW new, Fresh(new), NEW peak, peak \in [DOMAIN t -> Nat]
    PROVE  /\ Longer(peak, t \o new) \in [DOMAIN (t \o new) -> Nat]
           /\ \A i \in DOMAIN t : Longer(peak, t \o new)[i] = peak[i]
           /\ \A i \in DOMAIN (t \o new) \ DOMAIN t : Longer(peak, t \o new)[i] = 0
           /\ \A v : SumFunctionOnSet(Longer(peak, t \o new), Of(t \o new, v))
                         = SumFunctionOnSet(peak, Of(t, v))
  <1>1. PICK w, long : w = t \o new /\ long = Longer(peak, w)
    OBVIOUS
  <1>2. Table(w) /\ DOMAIN t \subseteq DOMAIN w
    BY <1>1, AppendFacts
  <1>3. long \in [DOMAIN w -> Nat]
    BY <1>1 DEF Longer
  <1>4. \A i \in DOMAIN w : long[i] = IF i \in DOMAIN t THEN peak[i] ELSE 0
    BY <1>1 DEF Longer
  <1>5. ASSUME NEW v
        PROVE  SumFunctionOnSet(long, Of(w, v)) = SumFunctionOnSet(peak, Of(t, v))
    <2>1. Of(t, v) \subseteq Of(w, v) /\ Of(w, v) \cap DOMAIN t = Of(t, v)
      BY <1>1, AppendFacts
    <2>2. Of(w, v) \subseteq DOMAIN w /\ Summable(long, Of(w, v)) /\ Of(t, v) \subseteq DOMAIN t
      BY <1>2, <1>3, PeakOf
    <2>3. \A i \in Of(w, v) \ Of(t, v) : long[i] = 0
      BY <1>4, <2>1, <2>2
    <2>4. Summable(long, Of(t, v)) /\ SumFunctionOnSet(long, Of(w, v)) = SumFunctionOnSet(long, Of(t, v))
      BY <2>1, <2>2, <2>3, SumWhere
    <2>5. \A i \in Of(t, v) : long[i] = peak[i]
      BY <1>2, <1>4, <2>2
    <2>6. SumFunctionOnSet(long, Of(t, v)) = SumFunctionOnSet(peak, Of(t, v))
      BY <2>4, <2>5, SumSame
    <2> QED
      BY <2>4, <2>6
  <1> QED
    BY <1>1, <1>2, <1>3, <1>4, <1>5
-----------------------------------------------------------------------------
\* What was ever taken of a variant.
TakenOf(v) ==
    Consumption(InitialLayers, v)
      + SumFunctionOnSet([q \in Requests |-> TakenBy(q, v)], Requests)

LEMMA TakenMoves ==
    ASSUME TypeInv, TypeInv', NEW r \in Requests, Frame(r), NEW v \in Variants
    PROVE  /\ TakenOf(v)' = TakenOf(v) + (TakenBy(r, v)' - TakenBy(r, v))
           /\ TakenOf(v) \in Nat /\ TakenBy(r, v) \in Nat /\ TakenBy(r, v)' \in Nat
  <1>1. PICK a, b : /\ a = SumFunctionOnSet([q \in Requests |-> TakenBy(q, v)], Requests)
                    /\ b = SumFunctionOnSet([q \in Requests |-> TakenBy(q, v)'], Requests)
    OBVIOUS
  <1>2. b = a + (TakenBy(r, v)' - TakenBy(r, v))
    BY <1>1, AccountsMove
  <1>3. a \in Nat
    BY <1>1, AccountSums
  <1>4. TakenBy(r, v) \in Nat /\ TakenBy(r, v)' \in Nat
    <2>1. TypeInv' => AccountsTyped'
      BY AccountsAlways, PTL
    <2> QED
      BY <2>1, AccountsAlways DEF AccountsTyped
  <1>5. Consumption(InitialLayers, v) \in Nat
    <2>1. Table(InitialLayers)
      BY InitialAssumption DEF InitialAssumption, Table
    <2> QED
      BY <2>1, OfFacts
  <1>6. TakenOf(v) = Consumption(InitialLayers, v) + a /\ TakenOf(v)' = Consumption(InitialLayers, v) + b
    BY <1>1 DEF TakenOf
  <1> QED
    BY <1>2, <1>3, <1>4, <1>5, <1>6

LEMMA ReadsInside ==
    ASSUME TypeInv, NEW q \in Requests
    PROVE  /\ DOMAIN read[q] \subseteq DOMAIN layers
           /\ \A i \in DOMAIN read[q] : read[q][i].consumed \in Nat
           /\ \A i \in DOMAIN layers : layers[i].consumed \in Nat
  <1>1. Table(read[q]) /\ Grown(read[q], layers) /\ Table(layers)
    BY DEF TypeInv, ValuationTypes, Remembers
  <1>2. DOMAIN read[q] \subseteq DOMAIN layers
    BY <1>1 DEF Grown
  <1> QED
    BY <1>1, <1>2, LayerFacts

LEMMA PeakDraws ==
    ASSUME TypeInv, Covered, LayersPeak, TypeInv', NEW r \in Requests, Frame(r), Draws(r)
    PROVE  LayersPeak'
  <1>1. PICK peak : peak \in [DOMAIN layers -> Nat] /\ Peaks(peak)
    BY DEF LayersPeak
  <1>2. PICK high : high = Higher(r, peak)
    OBVIOUS
  <1>3. /\ high \in [DOMAIN layers -> Nat]
        /\ \A i \in DOMAIN layers : peak[i] <= high[i]
        /\ \A v \in Variants :
              /\ \A i \in Of(layers, v) : high[i] = peak[i] + Gives(layers, read[r], v, Wants(r)[v])[i]
              /\ SumFunctionOnSet(high, Of(layers, v)) = SumFunctionOnSet(peak, Of(layers, v)) + Wants(r)[v]
    BY <1>1, <1>2, HigherFacts
  <1>4. /\ layers' = Consumed(layers, read[r], Wants(r)) /\ read' = read
        /\ Enough(read[r], Wants(r)) /\ Table(read[r]) /\ Grown(read[r], layers) /\ Table(layers)
    BY EnoughRead DEF Draws, Consumes
  <1>5. Table(layers') /\ SameLayers(layers, layers') /\ DOMAIN layers' = DOMAIN layers
    BY ConsumeTables DEF Draws, SameLayers
  <1>6. ASSUME NEW i \in DOMAIN layers'
        PROVE  layers'[i].consumed <= high[i]
    <2>1. PICK v \in Variants : v = layers[i].variant
      BY <1>4, <1>5, LayerFacts
    <2>2. i \in Of(layers, v)
      BY <1>5, <2>1 DEF Of
    <2>3. layers'[i].consumed
            = IF i \in Active(read[r], v) /\ Wants(r)[v] > 0
              THEN read[r][i].consumed + Gives(layers, read[r], v, Wants(r)[v])[i] ELSE layers[i].consumed
      BY <1>4, <2>2, WrittenFacts
    <2>4. PICK g : g = Gives(layers, read[r], v, Wants(r)[v])[i]
      OBVIOUS
    <2>5. g \in Nat
      <3>1. Wants(r)[v] \in Nat /\ Wants(r)[v] <= Units(read[r], v)
        BY <1>4 DEF Enough
      <3> QED
        BY <1>4, <2>2, <2>4, <3>1, GivesFacts
    <2>6. high[i] = peak[i] + g /\ peak[i] \in Nat /\ peak[i] <= high[i]
      BY <1>1, <1>3, <1>5, <2>2, <2>4
    <2>7. CASE i \in Active(read[r], v) /\ Wants(r)[v] > 0
      <3>1. i \in DOMAIN read[r]
        BY <1>4, <2>7, ActiveFacts
      <3>2. read[r][i].consumed <= peak[i]
        BY <1>1, <3>1 DEF Peaks
      <3>3. read[r][i].consumed \in Nat
        BY <3>1, ReadsInside
      <3> QED
        BY <2>3, <2>4, <2>5, <2>6, <2>7, <3>2, <3>3
    <2>8. CASE ~(i \in Active(read[r], v) /\ Wants(r)[v] > 0)
      <3>1. layers[i].consumed <= peak[i] /\ layers[i].consumed \in Nat
        BY <1>1, <1>5, ReadsInside DEF Peaks
      <3>2. layers'[i].consumed = layers[i].consumed
        BY <2>3, <2>8
      <3>3. high[i] \in Nat
        BY <2>5, <2>6
      <3> QED
        BY <2>6, <3>1, <3>2, <3>3
    <2> QED
      BY <2>7, <2>8
  <1>7. ASSUME NEW q \in Requests, NEW i \in DOMAIN read'[q]
        PROVE  read'[q][i].consumed <= high[i]
    <2>1. i \in DOMAIN read[q] /\ i \in DOMAIN layers /\ read[q][i].consumed \in Nat
      BY <1>4, ReadsInside
    <2>2. read[q][i].consumed <= peak[i] /\ peak[i] <= high[i] /\ peak[i] \in Nat /\ high[i] \in Nat
      BY <1>1, <1>3, <2>1 DEF Peaks
    <2> QED
      BY <1>4, <2>1, <2>2
  <1>8. ASSUME NEW v \in Variants
        PROVE  SumFunctionOnSet(high, Of(layers', v)) = TakenOf(v)'
    <2>1. SumFunctionOnSet(peak, Of(layers, v)) = TakenOf(v)
      BY <1>1 DEF Peaks, TakenOf
    <2>2. TakenBy(r, v) = 0 /\ TakenBy(r, v)' = Wants(r)[v] /\ Wants(r)[v] \in Nat
      BY DrawsFacts DEF Draws
    <2>3. TakenOf(v)' = TakenOf(v) + Wants(r)[v]
      BY <2>2, TakenMoves
    <2>4. Of(layers', v) = Of(layers, v)
      BY <1>5 DEF Of, SameLayers
    <2> QED
      BY <1>3, <2>1, <2>3, <2>4
  <1>9. high \in [DOMAIN layers' -> Nat]
    BY <1>3, <1>5
  <1> QED
    BY <1>6, <1>7, <1>8, <1>9 DEF LayersPeak, Peaks, TakenOf, Of

LEMMA PeakLays ==
    ASSUME TypeInv, Covered, LayersPeak, TypeInv', NEW r \in Requests, Frame(r), Lays(r)
    PROVE  LayersPeak'
  <1>1. PICK peak : peak \in [DOMAIN layers -> Nat] /\ Peaks(peak)
    BY DEF LayersPeak
  <1>2. PICK new : /\ layers' = layers \o new /\ Fresh(new) /\ read' = read
                   /\ \A v \in Variants : TakenBy(r, v)' = TakenBy(r, v)
    BY DEF Lays
  <1>3. PICK w : w = layers'
    OBVIOUS
  <1>4. PICK long : long = Longer(peak, w)
    OBVIOUS
  <1>5. Table(layers)
    BY DEF TypeInv, ValuationTypes
  <1>6. /\ long \in [DOMAIN w -> Nat] /\ DOMAIN layers \subseteq DOMAIN w
        /\ \A i \in DOMAIN layers : long[i] = peak[i] /\ w[i] = layers[i]
        /\ \A i \in DOMAIN w \ DOMAIN layers : long[i] = 0 /\ w[i].consumed = 0
        /\ \A v : SumFunctionOnSet(long, Of(w, v)) = SumFunctionOnSet(peak, Of(layers, v))
    <2>1. w = layers \o new /\ long = Longer(peak, layers \o new)
      BY <1>2, <1>3, <1>4
    <2>2. /\ Longer(peak, layers \o new) \in [DOMAIN (layers \o new) -> Nat]
          /\ \A i \in DOMAIN layers : Longer(peak, layers \o new)[i] = peak[i]
          /\ \A i \in DOMAIN (layers \o new) \ DOMAIN layers : Longer(peak, layers \o new)[i] = 0
          /\ \A v : SumFunctionOnSet(Longer(peak, layers \o new), Of(layers \o new, v))
                        = SumFunctionOnSet(peak, Of(layers, v))
      BY <1>1, <1>2, <1>5, LongerFacts
    <2>3. /\ DOMAIN layers \subseteq DOMAIN (layers \o new)
          /\ \A i \in DOMAIN layers : (layers \o new)[i] = layers[i]
          /\ \A i \in DOMAIN (layers \o new) \ DOMAIN layers : (layers \o new)[i].consumed = 0
      BY <1>2, <1>5, AppendFacts
    <2> QED
      BY <2>1, <2>2, <2>3
  <1>7. ASSUME NEW i \in DOMAIN w PROVE w[i].consumed <= long[i]
    BY <1>1, <1>6 DEF Peaks
  <1>8. ASSUME NEW q \in Requests, NEW i \in DOMAIN read'[q]
        PROVE  read'[q][i].consumed <= long[i]
    <2>1. i \in DOMAIN read[q] /\ i \in DOMAIN layers
      BY <1>2, ReadsInside
    <2> QED
      BY <1>1, <1>2, <1>6, <2>1 DEF Peaks
  <1>9. ASSUME NEW v \in Variants
        PROVE  SumFunctionOnSet(long, Of(w, v)) = TakenOf(v)'
    <2>1. SumFunctionOnSet(peak, Of(layers, v)) = TakenOf(v)
      BY <1>1 DEF Peaks, TakenOf
    <2>2. TakenOf(v)' = TakenOf(v)
      BY <1>2, TakenMoves
    <2> QED
      BY <1>6, <2>1, <2>2
  <1> QED
    BY <1>3, <1>6, <1>7, <1>8, <1>9 DEF LayersPeak, Peaks, TakenOf, Of

LEMMA PeakLeaves ==
    ASSUME TypeInv, LayersPeak, TypeInv', NEW r \in Requests, Frame(r), Leaves(r)
    PROVE  LayersPeak'
  <1>1. PICK peak : peak \in [DOMAIN layers -> Nat] /\ Peaks(peak)
    BY DEF LayersPeak
  <1>2. /\ layers' = layers /\ (read' = read \/ read' = [read EXCEPT ![r] = layers])
        /\ \A v \in Variants : TakenBy(r, v)' = TakenBy(r, v)
    BY DEF Leaves
  <1>3. ASSUME NEW q \in Requests, NEW i \in DOMAIN read'[q]
        PROVE  read'[q][i].consumed <= peak[i]
    <2>1. read'[q] = read[q] \/ read'[q] = layers
      BY <1>2 DEF TypeInv, ValuationTypes
    <2> QED
      BY <1>1, <1>3, <2>1 DEF Peaks
  <1>4. ASSUME NEW v \in Variants
        PROVE  SumFunctionOnSet(peak, Of(layers, v)) = TakenOf(v)'
    <2>1. SumFunctionOnSet(peak, Of(layers, v)) = TakenOf(v)
      BY <1>1 DEF Peaks, TakenOf
    <2>2. TakenOf(v)' = TakenOf(v)
      BY <1>2, TakenMoves
    <2> QED
      BY <2>1, <2>2
  <1>5. \A i \in DOMAIN layers : layers[i].consumed <= peak[i]
    BY <1>1 DEF Peaks
  <1> QED
    BY <1>1, <1>2, <1>3, <1>4, <1>5 DEF LayersPeak, Peaks, TakenOf, Of

LEMMA LayersPeakStep ==
    ASSUME Base, LayersPeak, TypeInv', NEW r \in Requests, RSays(r) \/ KSays(r), Frame(r)
    PROVE  LayersPeak'
BY LayersMove, PeakDraws, PeakLays, PeakLeaves DEF Base
-----------------------------------------------------------------------------
\* A call reads a row as it is now.
LEMMA LoadedStep ==
    ASSUME TypeInv, NEW r \in Requests, RSays(r) \/ KSays(r), Frame(r), NEW q \in Requests, NEW k, k \in R!Keys
    PROVE  Quantity(loaded'[q], k) = Quantity(loaded[q], k) \/ Quantity(loaded'[q], k) = Quantity(items, k)
  <1>1. CASE q # r
    BY <1>1 DEF Frame, Same
  <1>2. CASE KSays(r)
    BY <1>2 DEF KSays, returnsOnly
  <1>3. CASE q = r /\ RSays(r)
    <2>1. \/ loaded' = loaded
          \/ loaded' = [loaded EXCEPT ![r] = items]
          \/ \E row : loaded' = [loaded EXCEPT ![r][row] = items[row]]
      BY <1>3 DEF RSays, R!Execute, R!Create, R!Insert, R!Authorize, R!FindRma, R!LoadReceipt,
             R!ReadLayers, R!Consume, R!SaveRows, R!SaveLayers, R!SaveRecords, R!Journal,
             R!SaveRma, R!FindRecord, R!Intercept, R!LoadQuarantine, R!LoadShelf, R!WriteOff,
             R!SaveRecord, R!memory
    <2>2. loaded \in [Requests -> [R!Keys -> Item \cup {NoRow}]]
      BY DEF TypeInv, ValuationTypes
    <2>3. CASE loaded' = loaded
      BY <2>3
    <2>4. CASE loaded' = [loaded EXCEPT ![r] = items]
      BY <1>3, <2>2, <2>4
    <2>5. CASE \E row : loaded' = [loaded EXCEPT ![r][row] = items[row]]
      <3>1. PICK row : loaded' = [loaded EXCEPT ![r][row] = items[row]]
        BY <2>5
      <3>2. loaded'[r][k] = loaded[r][k] \/ loaded'[r][k] = items[k]
        BY <2>2, <3>1
      <3> QED
        BY <1>3, <3>2 DEF Quantity
    <2> QED
      BY <2>1, <2>3, <2>4, <2>5
  <1> QED
    BY <1>1, <1>2, <1>3

LEMMA MostMoves ==
    ASSUME TypeInv, TypeInv', NEW r \in Requests, Frame(r), NEW v \in Variants
    PROVE  /\ Most(v)' = Most(v) + (InShelf(r, v)' - InShelf(r, v))
           /\ Most(v) \in Nat /\ InShelf(r, v) \in Nat /\ InShelf(r, v)' \in Nat
  <1>1. PICK a, b : /\ a = SumFunctionOnSet([q \in Requests |-> InShelf(q, v)], Requests)
                    /\ b = SumFunctionOnSet([q \in Requests |-> InShelf(q, v)'], Requests)
    OBVIOUS
  <1>2. b = a + (InShelf(r, v)' - InShelf(r, v))
    BY <1>1, AccountsMove
  <1>3. a \in Nat
    BY <1>1, AccountSums
  <1>4. InShelf(r, v) \in Nat /\ InShelf(r, v)' \in Nat
    <2>1. TypeInv' => AccountsTyped'
      BY AccountsAlways, PTL
    <2> QED
      BY <2>1, AccountsAlways DEF AccountsTyped
  <1>5. Quantity(InitialItems, <<v, "shelf">>) \in Nat
    <2>1. PICK k : k = <<v, "shelf">>
      OBVIOUS
    <2>2. k \in R!Keys /\ IsRows(InitialItems)
      BY <2>1, InitialAssumption DEF R!Keys, InitialAssumption, IsRows
    <2>3. Quantity(InitialItems, k) \in Nat
      BY <2>2, QuantityNat
    <2> QED
      BY <2>1, <2>3
  <1>6. /\ Most(v) = Quantity(InitialItems, <<v, "shelf">>) + a
        /\ Most(v)' = Quantity(InitialItems, <<v, "shelf">>) + b
    BY <1>1 DEF Most, Quantity
  <1> QED
    BY <1>2, <1>3, <1>4, <1>5, <1>6

LEMMA ShelvesStep ==
    ASSUME Base, Shelves, TypeInv', NEW r \in Requests, RSays(r) \/ KSays(r), Frame(r)
    PROVE  Shelves'
  <1> SUFFICES ASSUME NEW v \in Variants
               PROVE  /\ Quantity(items', <<v, "shelf">>) <= Most(v)'
                      /\ \A q \in Requests : Quantity(loaded'[q], <<v, "shelf">>) <= Most(v)'
                      /\ v \notin stale' => Quantity(items', <<v, "shelf">>) = Most(v)'
    BY DEF Shelves, Quantity
  <1>0. TypeInv /\ Snapshots /\ Covered
    BY DEF Base
  <1>1. PICK k : k = <<v, "shelf">>
    OBVIOUS
  <1>2. k \in R!Keys /\ k[1] = v /\ k[2] = "shelf"
    BY <1>1 DEF R!Keys
  <1>3. PICK most, more : most = Most(v) /\ more = Most(v)'
    OBVIOUS
  <1>4. /\ more = most + (InShelf(r, v)' - InShelf(r, v))
        /\ most \in Nat /\ InShelf(r, v) \in Nat /\ InShelf(r, v)' \in Nat
    BY <1>0, <1>3, MostMoves
  <1>5. /\ Quantity(items, k) <= most
        /\ \A q \in Requests : Quantity(loaded[q], k) <= most
        /\ v \notin stale' => Quantity(items, k) = most
    <2>1. stale \subseteq stale'
      BY <1>0, StaleGrows
    <2> QED
      BY <1>1, <1>3, <2>1 DEF Shelves
  <1>6. /\ Quantity(items, k) \in Nat
        /\ \A q \in Requests : Quantity(loaded[q], k) \in Nat
    BY <1>0, <1>2, RowFacts
  <1>7. CASE R!SaveRows(r) /\ R!UpToDate(r) /\ RSays(r)
    <2>1. Saves(r) /\ loaded' = loaded
      BY <1>7 DEF R!SaveRows, R!memory, Saves
    <2>2. PICK d : d = Delta(r, k)
      OBVIOUS
    <2>3. InShelf(r, v)' = InShelf(r, v) + d
      BY <1>0, <1>1, <1>7, <2>2, RowsAccounted
    <2>4. /\ Quantity(items', k) \in Int /\ d \in Nat
          /\ k \in R!Places(r) => Quantity(items', k) = Quantity(loaded[r], k) + d
          /\ k \notin R!Places(r) => Quantity(items', k) = Quantity(items, k) /\ d = 0
          /\ k \in R!Places(r) /\ v \notin stale' => loaded[r][k] = items[k]
      BY <1>0, <1>2, <2>1, <2>2, SavedFacts
    <2>5. more = most + d
      BY <1>4, <2>3, <2>4
    <2>6. Quantity(items', k) <= more
      BY <1>4, <1>5, <1>6, <2>4, <2>5
    <2>7. \A q \in Requests : Quantity(loaded'[q], k) <= more
      BY <1>4, <1>5, <1>6, <2>1, <2>4, <2>5
    <2>8. ASSUME v \notin stale' PROVE Quantity(items', k) = more
      <3>1. CASE k \in R!Places(r)
        <4>1. Quantity(loaded[r], k) = Quantity(items, k)
          BY <2>4, <2>8, <3>1 DEF Quantity
        <4> QED
          BY <1>5, <2>4, <2>5, <2>8, <3>1, <4>1
      <3>2. CASE k \notin R!Places(r)
        BY <1>4, <1>5, <2>4, <2>5, <2>8, <3>2
      <3> QED
        BY <3>1, <3>2
    <2> QED
      BY <1>1, <1>3, <2>6, <2>7, <2>8
  <1>8. CASE ~(R!SaveRows(r) /\ R!UpToDate(r) /\ RSays(r))
    <2>1. InShelf(r, v)' = InShelf(r, v) /\ items' = items
      BY <1>0, <1>8, RowsAlone
    <2>2. more = most
      BY <1>4, <2>1
    <2>3. \A q \in Requests : Quantity(loaded'[q], k) <= more
      BY <1>0, <1>2, <1>5, <2>2, LoadedStep
    <2> QED
      BY <1>1, <1>3, <1>5, <2>1, <2>2, <2>3
  <1> QED
    BY <1>7, <1>8

-----------------------------------------------------------------------------
\* Everything the stock and the units of the layers are accounted by.
Tracked == Shelves /\ Quarantines /\ Ledgers /\ LayersAdded /\ LayersTaken /\ LayersPeak

LEMMA TrackedStep ==
    ASSUME Base, Tracked, TypeInv', NEW r \in Requests, RSays(r) \/ KSays(r), Frame(r)
    PROVE  Tracked'
  <1>1. Shelves /\ Quarantines /\ Ledgers /\ LayersAdded /\ LayersTaken /\ LayersPeak /\ TypeInv
    BY DEF Tracked, Base
  <1>2. Shelves' /\ Quarantines'
    BY <1>1, ShelvesStep, QuarantinesStep
  <1>3. Ledgers' /\ LayersAdded'
    BY <1>1, LedgersStep, LayersAddedStep
  <1>4. LayersTaken' /\ LayersPeak'
    BY <1>1, LayersTakenStep, LayersPeakStep
  <1> QED
    BY <1>2, <1>3, <1>4 DEF Tracked

LEMMA TrackedStopped ==
    ASSUME Tracked, Stops
    PROVE  Tracked'
  <1>1. /\ call' = call /\ items' = items /\ loaded' = loaded /\ stale' = stale /\ ledger' = ledger
        /\ layers' = layers /\ read' = read
    BY DEF Stops
  <1>2. Shelves'
    <2>1. ASSUME NEW v \in Variants
          PROVE  /\ Quantity(items, <<v, "shelf">>) <= Most(v)'
                 /\ \A r \in Requests : Quantity(loaded[r], <<v, "shelf">>) <= Most(v)'
                 /\ v \notin stale => Quantity(items, <<v, "shelf">>) = Most(v)'
      <3>1. Most(v)' = Most(v)
        BY AccountsStopped DEF Most, Quantity
      <3> QED
        BY <3>1 DEF Tracked, Shelves
    <2> QED
      BY <1>1, <2>1 DEF Shelves, Quantity
  <1>3. Quarantines'
    <2>1. ASSUME NEW v \in Variants, ~(QuarantinedTwice(v)' /\ v \in stale')
          PROVE  Quantity(items', <<v, "quarantine">>)
                   = Quantity(InitialItems, <<v, "quarantine">>)
                       + SumFunctionOnSet([q \in Requests |-> InQuarantine(q, v)'], Requests)
      <3>1. ~(QuarantinedTwice(v) /\ v \in stale)
        BY <1>1, <2>1, TwiceKept
      <3>2. Quantity(items, <<v, "quarantine">>)
                   = Quantity(InitialItems, <<v, "quarantine">>)
                       + SumFunctionOnSet([q \in Requests |-> InQuarantine(q, v)], Requests)
        BY <3>1 DEF Tracked, Quarantines
      <3> QED
        BY <1>1, <3>2, AccountsStopped
    <2> QED
      BY <2>1 DEF Quarantines, Quantity
  <1>4. Ledgers'
    <2>1. ASSUME NEW v \in Variants
          PROVE  ledger[v] = InitialLedger[v] + SumFunctionOnSet([q \in Requests |-> InLedger(q, v)'], Requests)
      BY AccountsStopped DEF Tracked, Ledgers
    <2> QED
      BY <1>1, <2>1 DEF Ledgers
  <1>5. LayersAdded'
    <2>1. ASSUME NEW v \in Variants
          PROVE  Initials(layers, v) = Initials(InitialLayers, v)
                      + SumFunctionOnSet([q \in Requests |-> AddedBy(q, v)'], Requests)
      BY AccountsStopped DEF Tracked, LayersAdded
    <2> QED
      BY <1>1, <2>1 DEF LayersAdded, Initials, Of
  <1>6. LayersTaken'
    <2>1. ASSUME NEW v \in Variants \ stale
          PROVE  Consumption(layers, v) = Consumption(InitialLayers, v)
                      + SumFunctionOnSet([q \in Requests |-> TakenBy(q, v)'], Requests)
      BY AccountsStopped DEF Tracked, LayersTaken
    <2> QED
      BY <1>1, <2>1 DEF LayersTaken, Consumption, Of
  <1>7. LayersPeak'
    <2>1. PICK peak \in [DOMAIN layers -> Nat] : Peaks(peak)
      BY DEF Tracked, LayersPeak
    <2>2. \A v \in Variants :
             SumFunctionOnSet(peak, Of(layers, v)) = Consumption(InitialLayers, v)
                 + SumFunctionOnSet([q \in Requests |-> TakenBy(q, v)'], Requests)
      BY <2>1, AccountsStopped DEF Peaks
    <2>3. /\ \A i \in DOMAIN layers : layers[i].consumed <= peak[i]
          /\ \A r \in Requests : \A i \in DOMAIN read[r] : read[r][i].consumed <= peak[i]
      BY <2>1 DEF Peaks
    <2> QED
      BY <1>1, <2>1, <2>2, <2>3 DEF LayersPeak, Peaks, Of
  <1> QED
    BY <1>2, <1>3, <1>4, <1>5, <1>6, <1>7 DEF Tracked
-----------------------------------------------------------------------------
LEMMA TrackedInit ==
    ASSUME Init
    PROVE  Tracked
  <1>0. /\ layers = InitialLayers /\ stale = {} /\ items = InitialItems /\ ledger = InitialLedger
        /\ \A r \in Requests : read[r] = <<>> /\ loaded[r] = [k \in R!Keys |-> NoRow]
        /\ Table(InitialLayers) /\ IsRows(InitialItems)
    BY InitialAssumption DEF Init, InitialAssumption, Table, IsRows
  <1>1. ASSUME NEW v \in Variants
        PROVE  /\ Quantity(InitialItems, <<v, "shelf">>) \in Nat
               /\ \A r \in Requests : Quantity(loaded[r], <<v, "shelf">>) = 0
               /\ InitialLedger[v] \in Int
               /\ Initials(InitialLayers, v) \in Int /\ Consumption(InitialLayers, v) \in Int
    <2>1. PICK k : k = <<v, "shelf">>
      OBVIOUS
    <2>2. k \in R!Keys
      BY <2>1 DEF R!Keys
    <2>3. Quantity(InitialItems, k) \in Nat
      BY <1>0, <2>2, QuantityNat
    <2>4. \A r \in Requests : loaded[r][k] = NoRow
      BY <1>0, <2>2
    <2>5. \A r \in Requests : Quantity(loaded[r], k) = 0
      BY <2>4 DEF Quantity
    <2>6. InitialLedger[v] \in Int
      BY InitialAssumption DEF InitialAssumption
    <2>7. Initials(InitialLayers, v) \in Int /\ Consumption(InitialLayers, v) \in Int
      BY <1>0, OfFacts
    <2> QED
      BY <2>1, <2>3, <2>5, <2>6, <2>7
  <1>2. ASSUME NEW v \in Variants
        PROVE  /\ Most(v) = Quantity(InitialItems, <<v, "shelf">>)
               /\ InitialLedger[v] = InitialLedger[v]
                     + SumFunctionOnSet([r \in Requests |-> InLedger(r, v)], Requests)
               /\ Initials(InitialLayers, v) = Initials(InitialLayers, v)
                     + SumFunctionOnSet([r \in Requests |-> AddedBy(r, v)], Requests)
               /\ Consumption(InitialLayers, v) = Consumption(InitialLayers, v)
                     + SumFunctionOnSet([r \in Requests |-> TakenBy(r, v)], Requests)
    <2>1. /\ SumFunctionOnSet([r \in Requests |-> InShelf(r, v)], Requests) = 0
          /\ SumFunctionOnSet([r \in Requests |-> InLedger(r, v)], Requests) = 0
          /\ SumFunctionOnSet([r \in Requests |-> AddedBy(r, v)], Requests) = 0
          /\ SumFunctionOnSet([r \in Requests |-> TakenBy(r, v)], Requests) = 0
      BY AccountsNone
    <2>2. \A x \in Int : x = x + 0
      OBVIOUS
    <2>3. /\ Quantity(InitialItems, <<v, "shelf">>) \in Int /\ InitialLedger[v] \in Int
          /\ Initials(InitialLayers, v) \in Int /\ Consumption(InitialLayers, v) \in Int
      BY <1>1
    <2> QED
      BY <2>1, <2>2, <2>3 DEF Most
  <1>8. Shelves
    <2>1. ASSUME NEW v \in Variants
          PROVE  /\ Quantity(items, <<v, "shelf">>) <= Most(v)
                 /\ \A r \in Requests : Quantity(loaded[r], <<v, "shelf">>) <= Most(v)
                 /\ Quantity(items, <<v, "shelf">>) = Most(v)
      <3>1. PICK n \in Nat : n = Quantity(InitialItems, <<v, "shelf">>)
        BY <1>1
      <3>2. Most(v) = n /\ Quantity(items, <<v, "shelf">>) = n
        BY <1>0, <1>2, <3>1
      <3>3. \A r \in Requests : Quantity(loaded[r], <<v, "shelf">>) = 0
        BY <1>1
      <3> QED
        BY <3>2, <3>3
    <2> QED
      BY <2>1 DEF Shelves
  <1>3. Quarantines
    BY RowsInit
  <1>4. Ledgers
    BY <1>0, <1>2 DEF Ledgers
  <1>5. LayersAdded
    BY <1>0, <1>2 DEF LayersAdded
  <1>6. LayersTaken
    BY <1>0, <1>2 DEF LayersTaken
  <1>7. LayersPeak
    <2>1. PICK peak : peak = [i \in DOMAIN layers |-> layers[i].consumed]
      OBVIOUS
    <2>2. \A i \in DOMAIN layers : layers[i].consumed \in Nat
      BY <1>0, LayerFacts
    <2>3. peak \in [DOMAIN layers -> Nat]
      BY <2>1, <2>2
    <2>4. \A i \in DOMAIN layers : layers[i].consumed <= peak[i]
      BY <2>1, <2>2
    <2>5. \A r \in Requests : \A i \in DOMAIN read[r] : read[r][i].consumed <= peak[i]
      BY <1>0
    <2>6. ASSUME NEW v \in Variants
          PROVE  SumFunctionOnSet(peak, Of(layers, v)) = Consumption(InitialLayers, v)
                     + SumFunctionOnSet([r \in Requests |-> TakenBy(r, v)], Requests)
      <3>1. SumFunctionOnSet(peak, Of(layers, v)) = Consumption(InitialLayers, v)
        BY <1>0, <2>1 DEF Consumption
      <3> QED
        BY <1>2, <3>1
    <2>7. Peaks(peak)
      BY <2>4, <2>5, <2>6 DEF Peaks
    <2> QED
      BY <2>3, <2>7 DEF LayersPeak
  <1> QED
    BY <1>3, <1>4, <1>5, <1>6, <1>7, <1>8 DEF Tracked

\* The two rows of a variant.
LEMMA TwoRows ==
    ASSUME NEW t, IsRows(t), NEW v \in Variants
    PROVE  OnHand(t, RowsOf(v)) = Quantity(t, <<v, "shelf">>) + Quantity(t, <<v, "quarantine">>)
  <1>1. PICK a, b : a = <<v, "shelf">> /\ b = <<v, "quarantine">>
    OBVIOUS
  <1>2. a # b /\ RowsOf(v) = {a} \cup {b} /\ a \in R!Keys /\ b \in R!Keys
    BY <1>1 DEF RowsOf, R!Keys
  <1>3. Quantity(t, a) \in Nat /\ Quantity(t, b) \in Nat
    BY <1>2, QuantityNat
  <1>4. PICK f : f = [k \in RowsOf(v) |-> IF t[k] = NoRow THEN 0 ELSE t[k].quantity]
    OBVIOUS
  <1>5. f[a] = Quantity(t, a) /\ f[b] = Quantity(t, b)
    BY <1>2, <1>4 DEF Quantity
  <1>6. OnHand(t, RowsOf(v)) = SumFunctionOnSet(f, {a} \cup {b})
    BY <1>2, <1>4 DEF OnHand
  <1>7. Summable(f, {a} \cup {b})
    <2>1. IsFiniteSet({a} \cup {b})
      BY FS_Singleton, FS_Union
    <2> QED
      BY <1>3, <1>5, <2>1 DEF Summable
  <1>8. SumFunctionOnSet(f, {a} \cup {b}) = SumFunctionOnSet(f, {a}) + f[b]
    BY <1>2, <1>7, SumAddElement
  <1>9. SumFunctionOnSet(f, {a}) = f[a]
    BY <1>3, <1>5, SumOne
  <1> QED
    BY <1>1, <1>5, <1>6, <1>8, <1>9

\* What a call has done to the layers and to the stock, by accounts.
LEMMA AccountedBy ==
    ASSUME TypeInv, NEW q \in Requests, NEW v \in Variants
    PROVE  /\ InLayers(q, v) = AddedBy(q, v) - TakenBy(q, v)
           /\ InStock(q, v) = InShelf(q, v) + InQuarantine(q, v) + InLedger(q, v)
  <1>0. Staged(q) /\ pc[q] \in Stages
    BY DEF TypeInv, ValuationTypes
  <1>1. CASE q \in Receipts
    <2>1. q \notin Resolutions /\ q \notin KitCalls /\ call[q].op = "receive"
      BY <1>1, CallKinds
    <2>2. PICK lines : lines = R!Lines(q)
      OBVIOUS
    <2>3. lines \in Seq(R!ReceiptLine)
      BY <1>1, <2>2, ReceiptFacts
    <2>4. PICK m, s, k, u : /\ m = R!Amount(lines, R!Dispositions, v)
                            /\ s = R!Amount(lines, {"RESTOCK"}, v)
                            /\ k = R!Amount(lines, {"QUARANTINE"}, v)
                            /\ u = R!Amount(lines, {"SCRAP"}, v)
      OBVIOUS
    <2>5. m \in Nat /\ s \in Nat /\ k \in Nat /\ u \in Nat
      BY <2>3, <2>4, AmountIs
    <2>6. R!Amount(lines, {"RESTOCK", "QUARANTINE"}, v) = s + k
      <3>1. {"RESTOCK", "QUARANTINE"} = {"RESTOCK"} \cup {"QUARANTINE"}
            /\ {"RESTOCK"} \cap {"QUARANTINE"} = {}
        OBVIOUS
      <3>2. R!Amount(lines, {"RESTOCK"} \cup {"QUARANTINE"}, v) = s + k
        BY <2>3, <2>4, <3>1, AmountSplits
      <3> QED
        BY <3>1, <3>2
    <2>7. Wants(q)[v] = u
      BY <1>1, <2>2, <2>4, WantsAre, ReceiptFacts
    <2>8. InLayers(q, v) = AddedBy(q, v) - TakenBy(q, v)
      BY <1>1, <2>1, <2>2, <2>4, <2>5, <2>7 DEF InLayers, AddedBy, TakenBy, Drew
    <2>9. pc[q] # "saveRecord"
      BY <1>0, <2>1 DEF Staged
    <2>10. InStock(q, v) = InShelf(q, v) + InQuarantine(q, v) + InLedger(q, v)
      BY <1>1, <2>1, <2>2, <2>4, <2>5, <2>6, <2>9 DEF InStock, InShelf, InQuarantine, InLedger, Stocked
    <2> QED
      BY <2>8, <2>10
  <1>2. CASE q \in Resolutions
    <2>1. q \notin Receipts /\ q \notin KitCalls /\ call[q].op = "resolve"
      BY <1>2, CallKinds
    <2>2. pc[q] \notin {"find", "rejected"} => Wants(q)[v] = R!Takes(q)[v] /\ R!Takes(q)[v] \in Nat
      BY <1>2, WantsAre
    <2>3. pc[q] \notin {"saveLayers", "saveRecords", "journal", "saveRma"}
      BY <1>0, <2>1 DEF Staged
    <2>4. InLayers(q, v) = AddedBy(q, v) - TakenBy(q, v)
      BY <1>2, <2>1, <2>2 DEF InLayers, AddedBy, TakenBy, Drew
    <2>5. InStock(q, v) = InShelf(q, v) + InQuarantine(q, v) + InLedger(q, v)
      BY <1>2, <2>1, <2>2, <2>3 DEF InStock, InShelf, InQuarantine, InLedger, Stocked
    <2> QED
      BY <2>4, <2>5
  <1>3. CASE q \in KitCalls
    <2>1. q \notin Receipts /\ q \notin Resolutions
      BY <1>3, CallKinds
    <2>2. pc[q] \notin {"find", "rejected"} =>
              Wants(q)[v] = K!Takes(q)[v] /\ K!Takes(q)[v] \in Nat /\ K!Makes(q)[v] \in Nat
      BY <1>3, WantsAre, KitFacts DEF TypeInv, Remembers
    <2>3. InLayers(q, v) = AddedBy(q, v) - TakenBy(q, v)
      BY <1>3, <2>1, <2>2 DEF InLayers, AddedBy, TakenBy, Drew
    <2>4. InStock(q, v) = InShelf(q, v) + InQuarantine(q, v) + InLedger(q, v)
      BY <1>3, <2>1, <2>2 DEF InStock, InShelf, InQuarantine, InLedger
    <2> QED
      BY <2>3, <2>4
  <1>4. CASE q \notin Receipts /\ q \notin Resolutions /\ q \notin KitCalls
    BY <1>4 DEF InLayers, InStock, AddedBy, TakenBy, Drew, InShelf, InQuarantine, InLedger
  <1> QED
    BY <1>1, <1>2, <1>3, <1>4

LEMMA AheadIs ==
    ASSUME TypeInv, NEW v \in Variants
    PROVE  SumFunctionOnSet([q \in Requests |-> InLayers(q, v) - InStock(q, v)], Requests)
             = SumFunctionOnSet([q \in Requests |-> AddedBy(q, v)], Requests)
                 - SumFunctionOnSet([q \in Requests |-> TakenBy(q, v)], Requests)
                 - SumFunctionOnSet([q \in Requests |-> InShelf(q, v)], Requests)
                 - SumFunctionOnSet([q \in Requests |-> InQuarantine(q, v)], Requests)
                 - SumFunctionOnSet([q \in Requests |-> InLedger(q, v)], Requests)
  <1> DEFINE h == [q \in Requests |-> InLayers(q, v) - InStock(q, v)]
             f == [q \in Requests |-> AddedBy(q, v)]
             t == [q \in Requests |-> TakenBy(q, v)]
             s == [q \in Requests |-> InShelf(q, v)]
             k == [q \in Requests |-> InQuarantine(q, v)]
             l == [q \in Requests |-> InLedger(q, v)]
             a == [q \in Requests |-> h[q] + t[q]]
             b == [q \in Requests |-> a[q] + s[q]]
             c == [q \in Requests |-> b[q] + k[q]]
  <1>1. \A q \in Requests :
           /\ f[q] \in Int /\ t[q] \in Int /\ s[q] \in Int /\ k[q] \in Int /\ l[q] \in Int
           /\ h[q] = (f[q] - t[q]) - (s[q] + k[q] + l[q])
    BY AccountsAlways, AccountedBy DEF AccountsTyped
  <1> HIDE DEF h, f, t, s, k, l
  <1>2. \A q \in Requests :
           /\ h[q] \in Int /\ a[q] = h[q] + t[q] /\ b[q] = a[q] + s[q] /\ c[q] = b[q] + k[q]
           /\ a[q] \in Int /\ b[q] \in Int /\ c[q] \in Int /\ f[q] = c[q] + l[q]
    BY <1>1
  <1> HIDE DEF a, b, c
  <1>3. /\ Summable(h, Requests) /\ Summable(f, Requests) /\ Summable(t, Requests)
        /\ Summable(s, Requests) /\ Summable(k, Requests) /\ Summable(l, Requests)
        /\ Summable(a, Requests) /\ Summable(b, Requests) /\ Summable(c, Requests)
    BY <1>1, <1>2, ValuationAssumption DEF ValuationAssumption, Summable
  <1>4. SumFunctionOnSet(a, Requests) = SumFunctionOnSet(h, Requests) + SumFunctionOnSet(t, Requests)
    BY <1>2, <1>3, SumPlus
  <1>5. SumFunctionOnSet(b, Requests) = SumFunctionOnSet(a, Requests) + SumFunctionOnSet(s, Requests)
    BY <1>2, <1>3, SumPlus
  <1>6. SumFunctionOnSet(c, Requests) = SumFunctionOnSet(b, Requests) + SumFunctionOnSet(k, Requests)
    BY <1>2, <1>3, SumPlus
  <1>7. SumFunctionOnSet(f, Requests) = SumFunctionOnSet(c, Requests) + SumFunctionOnSet(l, Requests)
    BY <1>2, <1>3, SumPlus
  <1>8. /\ SumFunctionOnSet(h, Requests) \in Int /\ SumFunctionOnSet(f, Requests) \in Int
        /\ SumFunctionOnSet(t, Requests) \in Int /\ SumFunctionOnSet(s, Requests) \in Int
        /\ SumFunctionOnSet(k, Requests) \in Int /\ SumFunctionOnSet(l, Requests) \in Int
    BY <1>3, SumType
  <1>9. SumFunctionOnSet(h, Requests)
          = SumFunctionOnSet(f, Requests) - SumFunctionOnSet(t, Requests) - SumFunctionOnSet(s, Requests)
              - SumFunctionOnSet(k, Requests) - SumFunctionOnSet(l, Requests)
    BY <1>4, <1>5, <1>6, <1>7, <1>8
  <1> QED
    BY <1>9 DEF h, f, t, s, k, l

\* No more is consumed of a variant than was ever taken.
LEMMA ConsumedAtMost ==
    ASSUME TypeInv, LayersPeak, NEW v \in Variants
    PROVE  Consumption(layers, v) <= TakenOf(v)
  <1>1. PICK peak : peak \in [DOMAIN layers -> Nat] /\ Peaks(peak)
    BY DEF LayersPeak
  <1>2. Table(layers)
    BY DEF TypeInv, ValuationTypes
  <1>3. Of(layers, v) \subseteq DOMAIN layers /\ Summable(peak, Of(layers, v))
    BY <1>1, <1>2, PeakOf
  <1>4. /\ Consumption(layers, v) = SumFunctionOnSet(Gave0(layers), Of(layers, v))
        /\ Summable(Gave0(layers), Of(layers, v))
        /\ \A i \in DOMAIN layers : Gave0(layers)[i] = layers[i].consumed
    BY <1>2, <1>3, OfFacts
  <1>5. \A i \in Of(layers, v) : Gave0(layers)[i] <= peak[i]
    BY <1>1, <1>3, <1>4 DEF Peaks
  <1>6. SumFunctionOnSet(Gave0(layers), Of(layers, v)) <= SumFunctionOnSet(peak, Of(layers, v))
    BY <1>3, <1>4, <1>5, SumGrows
  <1>7. SumFunctionOnSet(peak, Of(layers, v)) = TakenOf(v)
    BY <1>1 DEF Peaks, TakenOf
  <1> QED
    BY <1>4, <1>6, <1>7

LEMMA TrackedSuffices ==
    ASSUME Base, Tracked
    PROVE  LayersTrackStock
  <1> DEFINE Gained(v) == Units(layers, v) - Units(InitialLayers, v)
             Gain(v) == OnHand(items, RowsOf(v)) - OnHand(InitialItems, RowsOf(v))
                           + ledger[v] - InitialLedger[v]
             Leads(v) == SumFunctionOnSet([q \in Requests |-> InLayers(q, v) - InStock(q, v)], Requests)
  <1>0. /\ TypeInv /\ Shelves /\ Quarantines /\ Ledgers /\ LayersAdded /\ LayersTaken /\ LayersPeak
        /\ Table(layers) /\ Table(InitialLayers) /\ IsRows(items) /\ IsRows(InitialItems)
    BY InitialAssumption
       DEF Base, Tracked, TypeInv, ValuationTypes, InitialAssumption, Table, IsRows
  <1>1. ASSUME NEW v \in Variants
        PROVE  /\ v \notin stale => Gained(v) - Gain(v) - Leads(v) = 0
               /\ Gained(v) - Gain(v) - Leads(v) >= 0 \/ QuarantinedTwice(v)
    <2>1. PICK a, t, s, k, l :
             /\ a = SumFunctionOnSet([q \in Requests |-> AddedBy(q, v)], Requests)
             /\ t = SumFunctionOnSet([q \in Requests |-> TakenBy(q, v)], Requests)
             /\ s = SumFunctionOnSet([q \in Requests |-> InShelf(q, v)], Requests)
             /\ k = SumFunctionOnSet([q \in Requests |-> InQuarantine(q, v)], Requests)
             /\ l = SumFunctionOnSet([q \in Requests |-> InLedger(q, v)], Requests)
      OBVIOUS
    <2>2. a \in Nat /\ t \in Nat /\ s \in Nat /\ k \in Int /\ l \in Int
      BY <1>0, <2>1, AccountSums
    <2>3. Leads(v) = a - t - s - k - l
      BY <1>0, <2>1, AheadIs
    <2>4. PICK i0, i1, c0, c1 :
             /\ i0 = Initials(InitialLayers, v) /\ i1 = Initials(layers, v)
             /\ c0 = Consumption(InitialLayers, v) /\ c1 = Consumption(layers, v)
      OBVIOUS
    <2>5. /\ i0 \in Nat /\ i1 \in Nat /\ c0 \in Nat /\ c1 \in Nat
          /\ Gained(v) = (i1 - c1) - (i0 - c0)
      BY <1>0, <2>4, OfFacts, UnitsSplit
    <2>6. i1 = i0 + a /\ c1 <= c0 + t /\ (v \notin stale => c1 = c0 + t)
      <3>1. i1 = i0 + a
        BY <1>0, <2>1, <2>4 DEF LayersAdded
      <3>2. v \notin stale => c1 = c0 + t
        BY <1>0, <2>1, <2>4 DEF LayersTaken
      <3>3. c1 <= c0 + t
        BY <1>0, <2>1, <2>4, ConsumedAtMost DEF TakenOf
      <3> QED
        BY <3>1, <3>2, <3>3
    <2>7. PICK s0, s1, k0, k1 :
             /\ s0 = Quantity(InitialItems, <<v, "shelf">>) /\ s1 = Quantity(items, <<v, "shelf">>)
             /\ k0 = Quantity(InitialItems, <<v, "quarantine">>)
             /\ k1 = Quantity(items, <<v, "quarantine">>)
      OBVIOUS
    <2>8. s0 \in Nat /\ s1 \in Nat /\ k0 \in Nat /\ k1 \in Nat
      <3>1. PICK x, y : x = <<v, "shelf">> /\ y = <<v, "quarantine">>
        OBVIOUS
      <3>2. x \in R!Keys /\ y \in R!Keys
        BY <3>1 DEF R!Keys
      <3> QED
        BY <1>0, <2>7, <3>1, <3>2, QuantityNat
    <2>9. /\ s1 <= s0 + s /\ (v \notin stale => s1 = s0 + s)
          /\ ~(QuarantinedTwice(v) /\ v \in stale) => k1 = k0 + k
      BY <1>0, <2>1, <2>7 DEF Shelves, Most, Quarantines
    <2>10. ledger[v] = InitialLedger[v] + l /\ InitialLedger[v] \in Int
      BY <1>0, <2>1, InitialAssumption DEF Ledgers, InitialAssumption
    <2>11. Gain(v) = (s1 + k1) - (s0 + k0) + l
      <3>1. /\ OnHand(items, RowsOf(v)) = s1 + k1
            /\ OnHand(InitialItems, RowsOf(v)) = s0 + k0
        BY <1>0, <2>7, TwoRows
      <3> QED
        BY <2>2, <2>8, <2>10, <3>1
    <2>12. PICK surplus : surplus = Gained(v) - Gain(v) - Leads(v)
      OBVIOUS
    <2> HIDE DEF Gained, Gain, Leads
    <2>13. surplus = (c0 + t - c1) + (s0 + s - s1) + (k0 + k - k1)
      BY <2>2, <2>3, <2>5, <2>6, <2>8, <2>11, <2>12
    <2>14. v \notin stale => surplus = 0
      BY <2>2, <2>5, <2>6, <2>8, <2>9, <2>13
    <2>15. surplus >= 0 \/ QuarantinedTwice(v)
      <3>1. CASE ~QuarantinedTwice(v)
        BY <2>2, <2>5, <2>6, <2>8, <2>9, <2>13, <3>1
      <3> QED
        BY <3>1
    <2> QED
      BY <2>12, <2>14, <2>15
  <1> QED
    BY <1>1 DEF LayersTrackStock

\* The layers follow the rows and the ledger.
THEOREM LayersFollowStock == Spec => []LayersTrackStock
  <1>1. Init => Base /\ Tracked
    BY BaseInit, TrackedInit
  <1>2. Base /\ Tracked /\ [Next]_vars => (Base /\ Tracked)'
    <2> SUFFICES ASSUME Base, Tracked, [Next]_vars PROVE Base' /\ Tracked'
      OBVIOUS
    <2>1. Base'
      BY BaseStep
    <2>2. CASE Stops
      BY <2>1, <2>2, TrackedStopped
    <2>3. ASSUME NEW r \in Requests, RSays(r) \/ KSays(r) PROVE Tracked'
      BY <2>1, <2>3, TypesStep, TrackedStep DEF Base
    <2> QED
      BY <2>1, <2>2, <2>3, NextCases
  <1>3. Base /\ Tracked => LayersTrackStock
    BY TrackedSuffices
  <1> QED
    BY <1>1, <1>2, <1>3, PTL DEF Spec
-----------------------------------------------------------------------------
\* A call that wants nothing is charged nothing.
LEMMA ChargedNothing ==
    ASSUME NEW t, Table(t), NEW v
    PROVE  Charged("FIFO", t, v, 0) = 0
  <1>1. ASSUME NEW i \in Active(t, v) PROVE Given("FIFO", t, v, 0, i) = 0
    <2>1. LET p == SumFunctionOnSet(Holding(t, v), Ahead(t, v, i))
          IN  p \in Nat /\ Given("FIFO", t, v, 0, i)
                    = IF 0 - p <= 0 THEN 0
                      ELSE IF Remaining(t[i]) < 0 - p THEN Remaining(t[i]) ELSE 0 - p
      BY GivenFacts
    <2> QED
      BY <2>1
  <1>2. PICK f : f = [i \in Active(t, v) |-> Given("FIFO", t, v, 0, i) * t[i].cost]
    OBVIOUS
  <1>3. ASSUME NEW i \in Active(t, v) PROVE f[i] = 0
    <2>1. i \in DOMAIN t
      BY ActiveFacts
    <2>2. t[i].cost \in Int
      BY <2>1, LayerFacts
    <2>3. \A c \in Int : 0 * c = 0
      OBVIOUS
    <2>4. f[i] = Given("FIFO", t, v, 0, i) * t[i].cost
      BY <1>2
    <2> QED
      BY <1>1, <2>2, <2>3, <2>4
  <1>4. IsFiniteSet(Active(t, v))
    BY ActiveFacts
  <1>5. SumFunctionOnSet(f, Active(t, v)) = 0
    BY <1>3, <1>4, SumZero
  <1> QED
    BY <1>2, <1>5 DEF Charged

ScrapsFree == \A q \in Receipts : R!Marked(q, "SCRAP") = {} => Charge(q) = 0

LEMMA ChargeNone == TypeInv => ScrapsFree
  <1> SUFFICES ASSUME TypeInv, NEW q \in Receipts, R!Marked(q, "SCRAP") = {} PROVE Charge(q) = 0
    BY DEF ScrapsFree
  <1>1. Table(read[q])
    BY ReceiptFacts DEF TypeInv, Remembers
  <1>2. PICK f : f = [v \in Variants |-> Charged("FIFO", read[q], v, Wants(q)[v])]
    OBVIOUS
  <1>3. \A v \in Variants : f[v] = 0
    BY <1>1, <1>2, ScrapsNone, ChargedNothing
  <1>4. IsFiniteSet(Variants)
    BY ValuationAssumption DEF ValuationAssumption
  <1>5. SumFunctionOnSet(f, Variants) = 0
    BY <1>3, <1>4, SumZero
  <1> QED
    BY <1>2, <1>5 DEF Charge

\* What a call has done to the value of the layers and to the books, as numbers.
MadeValue(q) == [v \in Variants |-> K!Makes(q)[v] * K!NewCost(q, v)]

ValuesTyped ==
    \A q \in Requests :
        /\ ValueAdded(q) \in Nat /\ ValueTaken(q) \in Nat /\ BookedBy(q) \in Int

LEMMA MadeNat ==
    ASSUME TypeInv, NEW q \in KitCalls, pc[q] \notin {"find", "rejected"}
    PROVE  /\ SumFunctionOnSet(MadeValue(q), Variants) \in Nat
           /\ Summable(MadeValue(q), Variants)
           /\ \A v \in Variants : MadeValue(q)[v] \in Nat
  <1>1. /\ \A v \in Variants : K!NewCost(q, v) \in Nat
        /\ K!Makes(q) \in [Variants -> Nat] /\ IsFiniteSet(Variants)
    <2>1. recipe[q] \in K!Recipes
      BY KitFacts DEF TypeInv, Remembers
    <2> QED
      BY <2>1, KitCost, KitFacts, ValuationAssumption DEF ValuationAssumption
  <1>2. ASSUME NEW v \in Variants PROVE MadeValue(q)[v] \in Nat
    <2>1. \A x, y \in Nat : x * y \in Nat
      OBVIOUS
    <2>2. K!Makes(q)[v] \in Nat /\ K!NewCost(q, v) \in Nat
      BY <1>1
    <2> QED
      BY <2>1, <2>2 DEF MadeValue
  <1> QED
    BY <1>1, <1>2, SumNat DEF Summable

LEMMA ValuesAlways == TypeInv => ValuesTyped
  <1> SUFFICES ASSUME TypeInv, NEW q \in Requests
               PROVE  ValueAdded(q) \in Nat /\ ValueTaken(q) \in Nat /\ BookedBy(q) \in Int
    BY DEF ValuesTyped
  <1>1. CASE q \in Receipts
    <2>1. q \notin Resolutions /\ q \notin KitCalls
      BY <1>1, CallKinds
    <2>2. \A ds : Worth(q, ds) \in Nat
      BY <1>1, WorthNat
    <2>3. Charge(q) \in Nat
      BY <1>1, WantsAre, ChargeNat
    <2> QED
      BY <1>1, <2>1, <2>2, <2>3 DEF ValueAdded, ValueTaken, BookedBy
  <1>2. CASE q \in Resolutions
    <2>1. q \notin Receipts /\ q \notin KitCalls
      BY <1>2, CallKinds
    <2>2. pc[q] \notin {"find", "rejected"} => Charge(q) \in Nat
      BY <1>2, WantsAre, ChargeNat
    <2> QED
      BY <1>2, <2>1, <2>2 DEF ValueAdded, ValueTaken, BookedBy, Drew
  <1>3. CASE q \in KitCalls
    <2>1. q \notin Receipts /\ q \notin Resolutions
      BY <1>3, CallKinds
    <2>2. pc[q] \notin {"find", "rejected"} => Charge(q) \in Nat
      BY <1>3, WantsAre, ChargeNat
    <2>3. pc[q] \notin {"find", "rejected"} => SumFunctionOnSet(MadeValue(q), Variants) \in Nat
      BY <1>3, MadeNat
    <2> QED
      BY <1>3, <2>1, <2>2, <2>3 DEF ValueAdded, ValueTaken, BookedBy, Drew, MadeValue
  <1>4. CASE q \notin Receipts /\ q \notin Resolutions /\ q \notin KitCalls
    BY <1>4 DEF ValueAdded, ValueTaken, BookedBy, Drew
  <1> QED
    BY <1>1, <1>2, <1>3, <1>4

\* They depend on the command, the stage and the memory of a call.
LEMMA CostKept ==
    ASSUME NEW q, call' = call, copy'[q] = copy[q], recipe'[q] = recipe[q],
           read'[q] = read[q], average'[q] = average[q]
    PROVE  /\ Charge(q)' = Charge(q) /\ Wants(q)' = Wants(q)
           /\ \A ds : Worth(q, ds)' = Worth(q, ds)
           /\ MadeValue(q)' = MadeValue(q)
  <1>1. /\ Wants(q)' = Wants(q) /\ K!Takes(q)' = K!Takes(q) /\ K!Makes(q)' = K!Makes(q)
        /\ R!Lines(q)' = R!Lines(q)
    BY WantsKept
  <1>2. Charge(q)' = Charge(q)
    BY <1>1 DEF Charge
  <1>3. \A ds : Worth(q, ds)' = Worth(q, ds)
    BY <1>1 DEF Worth
  <1>4. \A v : K!NewCost(q, v)' = K!NewCost(q, v)
    <2>1. K!Cost(q)' = K!Cost(q)
      BY <1>1 DEF K!Cost
    <2>2. K!Estimate(q)' = K!Estimate(q)
      BY DEF K!Estimate, K!Need, K!Cmd
    <2>3. K!Building(q)' <=> K!Building(q)
      BY DEF K!Building, K!Cmd
    <2>4. K!Cmd(q)' = K!Cmd(q)
      BY DEF K!Cmd
    <2> QED
      BY <2>1, <2>2, <2>3, <2>4 DEF K!NewCost
  <1>5. MadeValue(q)' = MadeValue(q)
    BY <1>1, <1>4 DEF MadeValue
  <1> QED
    BY <1>1, <1>2, <1>3, <1>5

LEMMA ValuesKept ==
    ASSUME NEW q, call' = call, Same(q)
    PROVE  /\ ValueAdded(q)' = ValueAdded(q) /\ ValueTaken(q)' = ValueTaken(q)
           /\ BookedBy(q)' = BookedBy(q)
  <1>1. /\ Charge(q)' = Charge(q) /\ \A ds : Worth(q, ds)' = Worth(q, ds)
        /\ MadeValue(q)' = MadeValue(q)
    BY CostKept DEF Same
  <1>2. /\ pc'[q] = pc[q] /\ Receipts' = Receipts /\ Resolutions' = Resolutions /\ KitCalls' = KitCalls
        /\ (Drew(q)' <=> Drew(q))
    BY AccountsKept DEF Same, Receipts, Resolutions, KitCalls
  <1>3. ValueTaken(q)' = ValueTaken(q)
    BY <1>1, <1>2 DEF ValueTaken
  <1>4. BookedBy(q)' = BookedBy(q)
    BY <1>1, <1>2 DEF BookedBy
  <1>5. ValueAdded(q)' = ValueAdded(q)
    <2>1. /\ ValueAdded(q) = CASE q \in Receipts /\ pc[q] \in {"saveRecords", "journal", "saveRma", "done"} ->
                                      Worth(q, R!Dispositions)
                               [] q \in KitCalls /\ pc[q] \in {"append", "kitJournal", "done", "refused"} ->
                                      SumFunctionOnSet(MadeValue(q), Variants)
                               [] OTHER -> 0
      BY DEF ValueAdded, MadeValue
    <2>2. ValueAdded(q)' = CASE q \in Receipts' /\ pc'[q] \in {"saveRecords", "journal", "saveRma", "done"} ->
                                      Worth(q, R!Dispositions)'
                               [] q \in KitCalls' /\ pc'[q] \in {"append", "kitJournal", "done", "refused"} ->
                                      SumFunctionOnSet(MadeValue(q)', Variants)
                               [] OTHER -> 0
      BY DEF ValueAdded, MadeValue
    <2> QED
      BY <1>1, <1>2, <2>1, <2>2
  <1> QED
    BY <1>3, <1>4, <1>5
-----------------------------------------------------------------------------
\* What a step does to the value of the layers.
TotalOf(new) == SumFunctionOnSet([v \in Variants |-> Value(new, v)], Variants)

DrawsValue(r) == Draws(r) /\ ValueAdded(r)' = ValueAdded(r) /\ ValueTaken(r)' = Charge(r)
LaysValue(r) ==
    /\ \E new : /\ layers' = layers \o new /\ Fresh(new)
                /\ ValueAdded(r)' = ValueAdded(r) + TotalOf(new)
    /\ stale' = stale /\ ValueTaken(r)' = ValueTaken(r)
LeavesValue(r) ==
    layers' = layers /\ ValueAdded(r)' = ValueAdded(r) /\ ValueTaken(r)' = ValueTaken(r)

LEMMA ChargeKept ==
    ASSUME NEW r, Wants(r)' = Wants(r), read'[r] = read[r]
    PROVE  Charge(r)' = Charge(r)
BY DEF Charge

LEMMA AddedOfKit ==
    ASSUME TypeInv, NEW r \in KitCalls
    PROVE  ValueAdded(r) = IF pc[r] \in {"append", "kitJournal", "done", "refused"}
                           THEN SumFunctionOnSet(MadeValue(r), Variants) ELSE 0
  <1>1. r \notin Receipts
    BY KitFacts, CallKinds
  <1> QED
    BY <1>1 DEF ValueAdded, MadeValue

KitsAdd ==
    \A q \in KitCalls :
        ValueAdded(q) = IF pc[q] \in {"append", "kitJournal", "done", "refused"}
                        THEN SumFunctionOnSet(MadeValue(q), Variants) ELSE 0

LEMMA KitsAddAlways == TypeInv => KitsAdd
BY AddedOfKit DEF KitsAdd

LEMMA KitValueMove ==
    ASSUME TypeInv, Covered, TypeInv', NEW r \in Requests, KSays(r)
    PROVE  DrawsValue(r) \/ LaysValue(r) \/ LeavesValue(r)
  <1>0. /\ call' = call /\ copy' = copy /\ pc \in [Requests -> Stages] /\ Staged(r)
        /\ r \notin Receipts /\ r \notin Resolutions
        /\ Receipts' = Receipts /\ Resolutions' = Resolutions /\ KitCalls' = KitCalls
        /\ DOMAIN read = Requests
    BY KitOps DEF KSays, returnsOnly, TypeInv, ValuationTypes, Receipts, Resolutions, KitCalls
  <1>4. KitsAdd /\ KitsAdd'
    <2>1. TypeInv' => KitsAdd'
      BY KitsAddAlways, PTL
    <2> QED
      BY <2>1, KitsAddAlways
  <1>5. r \in KitCalls =>
          /\ ValueAdded(r) = IF pc[r] \in {"append", "kitJournal", "done", "refused"}
                             THEN SumFunctionOnSet(MadeValue(r), Variants) ELSE 0
          /\ ValueAdded(r)' = IF pc'[r] \in {"append", "kitJournal", "done", "refused"}
                              THEN SumFunctionOnSet(MadeValue(r)', Variants) ELSE 0
    BY <1>0, <1>4 DEF KitsAdd
  <1>1. CASE K!ConsumeKitLayers(r)
    <2>1. /\ pc[r] = "kitConsume" /\ pc'[r] \in {"newLayers", "average"} /\ r \in KitCalls
          /\ recipe' = recipe /\ read' = read /\ average' = average
      BY <1>0, <1>1, CallKinds DEF K!ConsumeKitLayers, K!memory, K!Goto, Staged
    <2>2. Wants(r)' = Wants(r)
      BY <1>0, <2>1, WantsKept
    <2>3. Charge(r)' = Charge(r)
      BY <2>1, <2>2, ChargeKept
    <2>5. Draws(r)
      <3>1. Consumes(r)
        BY <1>0, <1>1, <2>1, KitConsumes
      <3>2. ~Drew(r) /\ Drew(r)'
        BY <1>0, <2>1 DEF Drew
      <3>3. ASSUME NEW v \in Variants
            PROVE  AddedBy(r, v)' = AddedBy(r, v) /\ TakenBy(r, v)' = Wants(r)[v]
        BY <1>0, <2>1, <2>2, <3>2 DEF AddedBy, TakenBy
      <3> QED
        BY <2>1, <3>1, <3>2, <3>3 DEF Draws
    <2>6. ValueAdded(r)' = ValueAdded(r)
      BY <1>5, <2>1
    <2>7. ValueTaken(r)' = Charge(r)
      BY <2>3, <2>5 DEF ValueTaken, Draws
    <2> QED
      BY <2>5, <2>6, <2>7 DEF DrawsValue
  <1>2. CASE K!SaveNewLayers(r)
    <2>1. PICK new : /\ layers' = layers \o new /\ Fresh(new) /\ r \in KitCalls
                     /\ \A v \in Variants : Value(new, v) = K!Makes(r)[v] * K!NewCost(r, v)
      BY <1>2, KitLayers
    <2>2. /\ recipe' = recipe /\ read' = read /\ average' = average /\ stale' = stale
          /\ pc[r] = "newLayers" /\ pc'[r] = "append"
      BY <1>0, <1>2 DEF K!SaveNewLayers, K!memory, K!Goto
    <2>3. Charge(r)' = Charge(r) /\ MadeValue(r)' = MadeValue(r)
      BY <1>0, <2>2, CostKept
    <2>4. [v \in Variants |-> Value(new, v)] = MadeValue(r)
      BY <2>1 DEF MadeValue
    <2>5. TotalOf(new) = SumFunctionOnSet(MadeValue(r), Variants)
      BY <2>4 DEF TotalOf
    <2>6. SumFunctionOnSet(MadeValue(r), Variants) \in Int
      BY <2>1, <2>2, MadeNat
    <2>7. ValueAdded(r) = 0 /\ ValueAdded(r)' = TotalOf(new)
      BY <1>5, <2>1, <2>2, <2>3, <2>5
    <2>8. ValueAdded(r)' = ValueAdded(r) + TotalOf(new)
      BY <2>5, <2>6, <2>7
    <2>9. ValueTaken(r)' = ValueTaken(r)
      <3>1. Drew(r) /\ Drew(r)'
        BY <1>0, <2>1, <2>2 DEF Drew
      <3> QED
        BY <2>3, <3>1 DEF ValueTaken
    <2> QED
      BY <2>1, <2>2, <2>8, <2>9 DEF LaysValue
  <1>3. CASE ~K!ConsumeKitLayers(r) /\ ~K!SaveNewLayers(r)
    <2>1. layers' = layers
      BY <1>3 DEF KSays, K!Execute, K!CreateKit, K!AddKitComponent, K!RemoveKitComponent, K!SaveKit,
           K!FindKit, K!CheckLedger, K!ReadKitLayers, K!ReadAverages,
           K!AppendEntries, K!KitJournal, K!tables, K!memory
    <2>2. CASE r \notin KitCalls
      BY <1>0, <2>1, <2>2 DEF LeavesValue, ValueAdded, ValueTaken, Drew
    <2>3. CASE r \in KitCalls
      <3>1. call[r].op \in {"assemble", "disassemble"}
        BY <2>3 DEF KitCalls
      <3>2. \/ pc[r] \in {"find", "check", "kitLayers"} /\ pc'[r] \in {"check", "kitLayers", "kitConsume", "rejected"}
            \/ recipe' = recipe /\ read' = read /\ pc[r] = "average" /\ pc'[r] = "newLayers"
            \/ /\ recipe' = recipe /\ read' = read /\ average' = average
               /\ \/ pc[r] = "append" /\ pc'[r] = "kitJournal"
                  \/ pc[r] = "kitJournal" /\ pc'[r] \in {"done", "refused"}
        BY <1>0, <1>3, <3>1 DEF KSays, K!Execute, K!CreateKit, K!AddKitComponent, K!RemoveKitComponent, K!SaveKit,
           K!FindKit, K!CheckLedger, K!ReadKitLayers, K!ReadAverages,
           K!AppendEntries, K!KitJournal, K!memory, K!tables, K!Goto, K!Cmd, Staged
      <3>3. CASE pc[r] \in {"find", "check", "kitLayers"} /\ pc'[r] \in {"check", "kitLayers", "kitConsume", "rejected"}
        <4>1. ~Drew(r) /\ ~Drew(r)'
          BY <1>0, <2>3, <3>3 DEF Drew
        <4>2. ValueAdded(r)' = ValueAdded(r)
          BY <1>5, <2>3, <3>3
        <4> QED
          BY <2>1, <4>1, <4>2 DEF LeavesValue, ValueTaken
      <3>4. CASE recipe' = recipe /\ read' = read /\ pc[r] = "average" /\ pc'[r] = "newLayers"
        <4>1. Drew(r) /\ Drew(r)'
          BY <1>0, <2>3, <3>4 DEF Drew
        <4>2. Charge(r)' = Charge(r)
          BY <1>0, <3>4, WantsKept, ChargeKept
        <4>3. ValueAdded(r)' = ValueAdded(r)
          BY <1>5, <2>3, <3>4
        <4> QED
          BY <2>1, <4>1, <4>2, <4>3 DEF LeavesValue, ValueTaken
      <3>5. CASE /\ recipe' = recipe /\ read' = read /\ average' = average
                 /\ \/ pc[r] = "append" /\ pc'[r] = "kitJournal"
                    \/ pc[r] = "kitJournal" /\ pc'[r] \in {"done", "refused"}
        <4>1. Drew(r) /\ Drew(r)'
          BY <1>0, <2>3, <3>5 DEF Drew
        <4>2. Charge(r)' = Charge(r) /\ MadeValue(r)' = MadeValue(r)
          BY <1>0, <3>5, CostKept
        <4>3. ValueAdded(r)' = ValueAdded(r)
          BY <1>5, <2>3, <3>5, <4>2
        <4> QED
          BY <2>1, <4>1, <4>2, <4>3 DEF LeavesValue, ValueTaken
      <3> QED
        BY <3>2, <3>3, <3>4, <3>5
    <2> QED
      BY <2>2, <2>3
  <1> QED
    BY <1>1, <1>2, <1>3
-----------------------------------------------------------------------------
LEMMA ReturnValueMove ==
    ASSUME TypeInv, Covered, TypeInv', NEW r \in Requests, RSays(r)
    PROVE  DrawsValue(r) \/ LaysValue(r) \/ LeavesValue(r)
  <1>0. /\ call' = call /\ recipe' = recipe /\ average' = average
        /\ pc \in [Requests -> Stages] /\ Staged(r)
        /\ r \notin KitCalls /\ DOMAIN copy = Requests /\ DOMAIN read = Requests
        /\ Receipts' = Receipts /\ Resolutions' = Resolutions /\ KitCalls' = KitCalls
        /\ R!Lines(r)' = R!Lines(r)
    BY ReturnOps DEF RSays, kitsOnly, TypeInv, ValuationTypes, Receipts, Resolutions, KitCalls,
                     R!Lines, R!Cmd
  <1>4. ASSUME NEW ds PROVE Worth(r, ds)' = Worth(r, ds)
    BY <1>0 DEF Worth
  <1>1. CASE R!Consume(r)
    <2>1. /\ copy' = copy /\ read' = read /\ pc[r] = "consume"
          /\ pc'[r] = IF call[r].op = "receive" THEN "saveRows" ELSE "writeOff"
      BY <1>0, <1>1 DEF R!Consume, R!memory, R!Goto, R!Cmd
    <2>2. Wants(r)' = Wants(r) /\ Charge(r)' = Charge(r)
      BY <1>0, <2>1, WantsKept, ChargeKept
    <2>3. \/ r \in Receipts /\ pc'[r] = "saveRows"
          \/ r \in Resolutions /\ call[r].resolution # "RESTOCK" /\ pc'[r] = "writeOff"
      BY <1>0, <2>1, CallKinds DEF Staged
    <2>4. ~Drew(r) /\ Drew(r)'
      BY <1>0, <2>1, <2>3 DEF Drew
    <2>5. ASSUME NEW v \in Variants
          PROVE  AddedBy(r, v)' = AddedBy(r, v) /\ TakenBy(r, v)' = Wants(r)[v]
      BY <1>0, <2>1, <2>2, <2>3, <2>4 DEF AddedBy, TakenBy
    <2>6. Draws(r)
      <3>1. Consumes(r)
        BY <1>0, <1>1, ReturnConsumes
      <3> QED
        BY <2>1, <2>4, <2>5, <3>1 DEF Draws
    <2>7. ValueAdded(r)' = ValueAdded(r)
      BY <1>0, <2>1, <2>3 DEF ValueAdded
    <2>8. ValueTaken(r)' = Charge(r)
      BY <2>2, <2>4 DEF ValueTaken
    <2> QED
      BY <2>6, <2>7, <2>8 DEF DrawsValue
  <1>2. CASE R!SaveLayers(r)
    <2>1. PICK new : /\ layers' = layers \o new /\ Fresh(new) /\ r \in Receipts
                     /\ \A v \in Variants :
                           Value(new, v) = R!Amount(R!Lines(r), R!Dispositions, v)
                                             * UnitCost[call[r].rma][v]
      BY <1>2, ReceiptLayers
    <2>2. /\ copy' = copy /\ read' = read /\ stale' = stale
          /\ pc[r] = "saveLayers" /\ pc'[r] = "saveRecords"
      BY <1>0, <1>2 DEF R!SaveLayers, R!memory, R!Goto
    <2>3. Wants(r)' = Wants(r) /\ Charge(r)' = Charge(r)
      BY <1>0, <2>2, WantsKept, ChargeKept
    <2>4. TotalOf(new) = Worth(r, R!Dispositions)
      <3>1. [v \in Variants |-> Value(new, v)]
              = [v \in Variants |-> R!Amount(R!Lines(r), R!Dispositions, v) * UnitCost[call[r].rma][v]]
        BY <2>1
      <3>2. Worth(r, R!Dispositions)
              = SumFunctionOnSet([v \in Variants |-> R!Amount(R!Lines(r), R!Dispositions, v)
                                                       * UnitCost[call[r].rma][v]], Variants)
        BY <2>1, WorthNat
      <3> QED
        BY <3>1, <3>2 DEF TotalOf
    <2>5. Worth(r, R!Dispositions) \in Int
      <3>1. \A ds : Worth(r, ds) \in Nat
        BY <2>1, WorthNat
      <3>2. Worth(r, R!Dispositions) \in Nat
        BY <3>1
      <3> QED
        BY <3>2
    <2>6. ValueAdded(r) = 0 /\ ValueAdded(r)' = Worth(r, R!Dispositions)
      BY <1>0, <1>4, <2>1, <2>2 DEF ValueAdded
    <2>7. ValueAdded(r)' = ValueAdded(r) + TotalOf(new)
      BY <2>4, <2>5, <2>6
    <2>8. ValueTaken(r)' = ValueTaken(r)
      <3>1. Drew(r) /\ Drew(r)'
        BY <1>0, <2>1, <2>2 DEF Drew
      <3> QED
        BY <2>3, <3>1 DEF ValueTaken
    <2> QED
      BY <2>1, <2>2, <2>7, <2>8 DEF LaysValue
  <1>3. CASE ~R!Consume(r) /\ ~R!SaveLayers(r)
    <2>1. layers' = layers
      BY <1>3 DEF RSays, R!Execute, R!Create, R!Insert, R!Authorize, R!FindRma, R!LoadReceipt,
             R!ReadLayers, R!SaveRows, R!SaveRecords, R!Journal,
             R!SaveRma, R!FindRecord, R!Intercept, R!LoadQuarantine, R!LoadShelf, R!WriteOff,
             R!SaveRecord, R!tables, R!memory
    <2>2. CASE r \notin Receipts /\ r \notin Resolutions
      BY <1>0, <2>1, <2>2 DEF LeavesValue, ValueAdded, ValueTaken, Drew
    <2>3. CASE r \in Receipts
      <3>1. call[r].op = "receive" /\ r \notin Resolutions
        BY <2>3, CallKinds
      <3>2. /\ pc'[r] \in {"saveRecords", "journal", "saveRma", "done"} <=>
               pc[r] \in {"saveRecords", "journal", "saveRma", "done"}
            /\ \/ /\ pc[r] \in {"find", "load", "layers", "consume", "rejected"}
                  /\ pc'[r] \in {"find", "load", "layers", "consume", "rejected"}
               \/ /\ pc[r] \notin {"find", "load", "layers", "consume", "rejected"}
                  /\ pc'[r] \notin {"find", "load", "layers", "consume", "rejected"}
                  /\ read' = read
               \/ R!Marked(r, "SCRAP") = {}
        BY <1>0, <1>3, <3>1 DEF RSays, R!Execute, R!Create, R!Insert, R!Authorize, R!FindRma, R!LoadReceipt,
             R!ReadLayers, R!SaveRows, R!SaveRecords, R!Journal,
             R!SaveRma, R!FindRecord, R!Intercept, R!LoadQuarantine, R!LoadShelf, R!WriteOff,
             R!SaveRecord, R!Goto, R!Cmd, R!memory, Staged
      <3>3. ValueAdded(r)' = ValueAdded(r)
        BY <1>0, <1>4, <2>3, <3>2 DEF ValueAdded
      <3>4. ValueTaken(r)' = ValueTaken(r)
        <4>1. CASE R!Marked(r, "SCRAP") = {}
          <5>1. Charge(r) = 0
            BY <2>3, <4>1, ChargeNone DEF ScrapsFree
          <5>2. Charge(r)' = 0
            <6>1. ScrapsFree'
              BY ChargeNone, PTL
            <6>2. r \in Receipts' /\ R!Marked(r, "SCRAP")' = {}
              BY <1>0, <2>3, <4>1 DEF R!Marked
            <6> QED
              BY <6>1, <6>2 DEF ScrapsFree
          <5> QED
            BY <5>1, <5>2 DEF ValueTaken
        <4>2. CASE /\ pc[r] \in {"find", "load", "layers", "consume", "rejected"}
                   /\ pc'[r] \in {"find", "load", "layers", "consume", "rejected"}
          <5>1. ~Drew(r) /\ ~Drew(r)'
            BY <1>0, <3>1, <4>2 DEF Drew
          <5> QED
            BY <5>1 DEF ValueTaken
        <4>3. CASE /\ pc[r] \notin {"find", "load", "layers", "consume", "rejected"}
                   /\ pc'[r] \notin {"find", "load", "layers", "consume", "rejected"}
                   /\ read' = read
          <5>1. Drew(r) /\ Drew(r)'
            BY <1>0, <2>3, <4>3 DEF Drew
          <5>2. Wants(r)' = Wants(r)
            BY <1>0, <3>1 DEF Wants, R!Takes, R!Cmd
          <5>3. Charge(r)' = Charge(r)
            BY <4>3, <5>2, ChargeKept
          <5> QED
            BY <5>1, <5>3 DEF ValueTaken
        <4> QED
          BY <3>2, <4>1, <4>2, <4>3
      <3> QED
        BY <2>1, <3>3, <3>4 DEF LeavesValue
    <2>4. CASE r \in Resolutions
      <3>1. call[r].op = "resolve" /\ r \notin Receipts
        BY <2>4, CallKinds
      <3>2. \/ ~Drew(r) /\ ~Drew(r)'
            \/ copy' = copy /\ read' = read /\ Drew(r) /\ Drew(r)'
        BY <1>0, <1>3, <3>1 DEF RSays, R!Execute, R!Create, R!Insert, R!Authorize, R!FindRma, R!LoadReceipt,
             R!ReadLayers, R!SaveRows, R!SaveRecords, R!Journal,
             R!SaveRma, R!FindRecord, R!Intercept, R!LoadQuarantine, R!LoadShelf, R!WriteOff,
             R!SaveRecord, R!Goto, R!Cmd, R!memory, Staged, Drew
      <3>3. ValueAdded(r)' = ValueAdded(r)
        BY <1>0, <3>1 DEF ValueAdded
      <3>4. ValueTaken(r)' = ValueTaken(r)
        <4>1. CASE copy' = copy /\ read' = read /\ Drew(r) /\ Drew(r)'
          <5>1. Charge(r)' = Charge(r)
            BY <1>0, <4>1, WantsKept, ChargeKept
          <5> QED
            BY <4>1, <5>1 DEF ValueTaken
        <4> QED
          BY <3>2, <4>1 DEF ValueTaken
      <3> QED
        BY <2>1, <3>3, <3>4 DEF LeavesValue
    <2> QED
      BY <2>2, <2>3, <2>4
  <1> QED
    BY <1>1, <1>2, <1>3
-----------------------------------------------------------------------------
\* What the calls have done to the value of the layers, and booked.
ValuesOfAll == SumFunctionOnSet([q \in Requests |-> ValueAdded(q) - ValueTaken(q)], Requests)
BooksOfAll == SumFunctionOnSet([q \in Requests |-> BookedBy(q)], Requests)

LEMMA ValuesMove ==
    ASSUME TypeInv, TypeInv', NEW r \in Requests, Frame(r)
    PROVE  /\ ValuesOfAll' = ValuesOfAll + ((ValueAdded(r)' - ValueTaken(r)') - (ValueAdded(r) - ValueTaken(r)))
           /\ BooksOfAll' = BooksOfAll + (BookedBy(r)' - BookedBy(r))
           /\ ValuesOfAll \in Int /\ BooksOfAll \in Int
           /\ ValueAdded(r) \in Nat /\ ValueTaken(r) \in Nat /\ BookedBy(r) \in Int
           /\ ValueAdded(r)' \in Nat /\ ValueTaken(r)' \in Nat /\ BookedBy(r)' \in Int
  <1>1. ValuesTyped /\ ValuesTyped'
    <2>1. TypeInv' => ValuesTyped'
      BY ValuesAlways, PTL
    <2> QED
      BY <2>1, ValuesAlways
  <1>2. ASSUME NEW q \in Requests, q # r
        PROVE  /\ ValueAdded(q)' = ValueAdded(q) /\ ValueTaken(q)' = ValueTaken(q)
               /\ BookedBy(q)' = BookedBy(q)
    BY <1>2, ValuesKept DEF Frame
  <1>3. /\ ValuesOfAll' = ValuesOfAll + ((ValueAdded(r)' - ValueTaken(r)') - (ValueAdded(r) - ValueTaken(r)))
        /\ ValuesOfAll \in Int
    <2> DEFINE f == [q \in Requests |-> ValueAdded(q) - ValueTaken(q)]
               k == [q \in Requests |-> ValueAdded(q)' - ValueTaken(q)']
    <2>1. /\ \A q \in Requests : f[q] \in Int /\ k[q] \in Int /\ (q # r => f[q] = k[q])
          /\ f[r] = ValueAdded(r) - ValueTaken(r) /\ k[r] = ValueAdded(r)' - ValueTaken(r)'
      BY <1>1, <1>2 DEF ValuesTyped
    <2>2. ValuesOfAll = SumFunctionOnSet(f, Requests) /\ ValuesOfAll' = SumFunctionOnSet(k, Requests)
      BY DEF ValuesOfAll
    <2> HIDE DEF f, k
    <2>3. /\ SumFunctionOnSet(k, Requests) = SumFunctionOnSet(f, Requests) + (k[r] - f[r])
          /\ SumFunctionOnSet(f, Requests) \in Int
      BY <2>1, SumMoves
    <2> QED
      BY <2>1, <2>2, <2>3
  <1>4. BooksOfAll' = BooksOfAll + (BookedBy(r)' - BookedBy(r)) /\ BooksOfAll \in Int
    <2> DEFINE f == [q \in Requests |-> BookedBy(q)]
               k == [q \in Requests |-> BookedBy(q)']
    <2>1. /\ \A q \in Requests : f[q] \in Int /\ k[q] \in Int /\ (q # r => f[q] = k[q])
          /\ f[r] = BookedBy(r) /\ k[r] = BookedBy(r)'
      BY <1>1, <1>2 DEF ValuesTyped
    <2>2. BooksOfAll = SumFunctionOnSet(f, Requests) /\ BooksOfAll' = SumFunctionOnSet(k, Requests)
      BY DEF BooksOfAll
    <2> HIDE DEF f, k
    <2>3. /\ SumFunctionOnSet(k, Requests) = SumFunctionOnSet(f, Requests) + (k[r] - f[r])
          /\ SumFunctionOnSet(f, Requests) \in Int
      BY <2>1, SumMoves
    <2> QED
      BY <2>1, <2>2, <2>3
  <1> QED
    BY <1>1, <1>3, <1>4 DEF ValuesTyped

LEMMA ValueMove ==
    ASSUME TypeInv, Covered, TypeInv', NEW r \in Requests, RSays(r) \/ KSays(r)
    PROVE  DrawsValue(r) \/ LaysValue(r) \/ LeavesValue(r)
BY KitValueMove, ReturnValueMove

\* The value of all layers.
LEMMA TotalType ==
    ASSUME NEW t, Table(t)
    PROVE  TotalOf(t) \in Int /\ \A v \in Variants : Value(t, v) \in Int
  <1> DEFINE f == [v \in Variants |-> Value(t, v)]
  <1>1. \A v \in Variants : f[v] \in Int /\ f[v] = Value(t, v)
    BY ValueSplit
  <1>2. TotalOf(t) = SumFunctionOnSet(f, Variants)
    BY DEF TotalOf
  <1> HIDE DEF f
  <1>3. Summable(f, Variants)
    BY <1>1, ValuationAssumption DEF ValuationAssumption, Summable
  <1> QED
    BY <1>1, <1>2, <1>3, SumType

LEMMA TotalAppends ==
    ASSUME NEW t, Table(t), NEW new, Fresh(new)
    PROVE  TotalOf(t \o new) = TotalOf(t) + TotalOf(new)
  <1> DEFINE f == [v \in Variants |-> Value(t, v)]
             g == [v \in Variants |-> Value(new, v)]
             h == [v \in Variants |-> Value(t \o new, v)]
  <1>1. Table(new)
    BY FreshTable
  <1>2. \A v \in Variants : f[v] \in Int /\ g[v] \in Int
    BY <1>1, TotalType
  <1>3. \A v \in Variants : h[v] = f[v] + g[v]
    BY AppendFacts
  <1>4. TotalOf(t) = SumFunctionOnSet(f, Variants) /\ TotalOf(new) = SumFunctionOnSet(g, Variants)
        /\ TotalOf(t \o new) = SumFunctionOnSet(h, Variants)
    BY DEF TotalOf
  <1> HIDE DEF f, g, h
  <1>5. Summable(f, Variants) /\ Summable(g, Variants)
    BY <1>2, ValuationAssumption DEF ValuationAssumption, Summable
  <1> QED
    BY <1>3, <1>4, <1>5, SumPlus

LEMMA TotalDraws ==
    ASSUME TypeInv, Covered, NEW r \in Requests, Draws(r), stale' = {}
    PROVE  TotalOf(layers') = TotalOf(layers) - Charge(r)
  <1> DEFINE f == [v \in Variants |-> Value(layers, v)]
             g == [v \in Variants |-> Charged("FIFO", read[r], v, Wants(r)[v])]
             h == [v \in Variants |-> Value(layers', v)]
  <1>1. Table(layers) /\ Table(read[r])
    BY EnoughRead DEF Draws, Consumes
  <1>2. \A v \in Variants : f[v] \in Int
    BY <1>1, TotalType
  <1>3. ASSUME NEW v \in Variants PROVE g[v] \in Nat
    <2>1. Wants(r)[v] \in Nat
      BY DrawsFacts
    <2> QED
      BY <1>1, <2>1, ChargedNat
  <1>4. ASSUME NEW v \in Variants PROVE h[v] = f[v] - g[v]
    <2>1. v \notin stale'
      OBVIOUS
    <2> QED
      BY <2>1, DrawsFacts
  <1>5. TotalOf(layers) = SumFunctionOnSet(f, Variants) /\ Charge(r) = SumFunctionOnSet(g, Variants)
        /\ TotalOf(layers') = SumFunctionOnSet(h, Variants)
    BY DEF TotalOf, Charge
  <1> HIDE DEF f, g, h
  <1>6. Summable(f, Variants) /\ Summable(g, Variants) /\ Summable(h, Variants)
    BY <1>2, <1>3, <1>4, ValuationAssumption DEF ValuationAssumption, Summable
  <1>7. \A v \in Variants : f[v] = h[v] + g[v]
    BY <1>2, <1>3, <1>4
  <1>8. SumFunctionOnSet(f, Variants) = SumFunctionOnSet(h, Variants) + SumFunctionOnSet(g, Variants)
    BY <1>6, <1>7, SumPlus
  <1>9. SumFunctionOnSet(h, Variants) \in Int /\ SumFunctionOnSet(g, Variants) \in Int
    BY <1>6, SumType
  <1> QED
    BY <1>5, <1>8, <1>9

LEMMA LayersValuedStep ==
    ASSUME Base, LayersValued, TypeInv', NEW r \in Requests, RSays(r) \/ KSays(r), Frame(r)
    PROVE  LayersValued'
  <1>0. TypeInv /\ Covered /\ Table(layers) /\ Table(InitialLayers)
    BY InitialAssumption DEF Base, TypeInv, ValuationTypes, InitialAssumption, Table
  <1>1. LayersValued <=> (stale = {} => TotalOf(layers) = TotalOf(InitialLayers) + ValuesOfAll)
    BY DEF LayersValued, TotalValue, TotalOf, ValuesOfAll
  <1>2. LayersValued' <=> (stale' = {} => TotalOf(layers') = TotalOf(InitialLayers) + ValuesOfAll')
    BY DEF LayersValued, TotalValue, TotalOf, ValuesOfAll
  <1> SUFFICES ASSUME stale' = {} PROVE TotalOf(layers') = TotalOf(InitialLayers) + ValuesOfAll'
    BY <1>2
  <1>3. stale = {}
    BY <1>0, StaleGrows
  <1>4. TotalOf(layers) = TotalOf(InitialLayers) + ValuesOfAll
    BY <1>1, <1>3
  <1>5. TotalOf(layers) \in Int /\ TotalOf(InitialLayers) \in Int
    BY <1>0, TotalType
  <1>6. /\ ValuesOfAll' = ValuesOfAll + ((ValueAdded(r)' - ValueTaken(r)') - (ValueAdded(r) - ValueTaken(r)))
        /\ ValuesOfAll \in Int
        /\ ValueAdded(r) \in Nat /\ ValueTaken(r) \in Nat
        /\ ValueAdded(r)' \in Nat /\ ValueTaken(r)' \in Nat
    BY <1>0, ValuesMove
  <1>7. TotalOf(layers') = TotalOf(layers)
            + ((ValueAdded(r)' - ValueTaken(r)') - (ValueAdded(r) - ValueTaken(r)))
    <2>1. CASE DrawsValue(r)
      <3>1. Draws(r) /\ ValueAdded(r)' = ValueAdded(r) /\ ValueTaken(r)' = Charge(r)
        BY <2>1 DEF DrawsValue
      <3>2. TotalOf(layers') = TotalOf(layers) - Charge(r)
        BY <1>0, <3>1, TotalDraws
      <3>3. ValueTaken(r) = 0
        BY <3>1 DEF Draws, ValueTaken
      <3> QED
        BY <1>5, <1>6, <3>1, <3>2, <3>3
    <2>2. CASE LaysValue(r)
      <3>1. PICK new : /\ layers' = layers \o new /\ Fresh(new)
                       /\ ValueAdded(r)' = ValueAdded(r) + TotalOf(new)
        BY <2>2 DEF LaysValue
      <3>2. TotalOf(layers') = TotalOf(layers) + TotalOf(new)
        BY <1>0, <3>1, TotalAppends
      <3>3. TotalOf(new) \in Int
        BY <3>1, FreshTable, TotalType
      <3>4. ValueTaken(r)' = ValueTaken(r)
        BY <2>2 DEF LaysValue
      <3> QED
        BY <1>5, <1>6, <3>1, <3>2, <3>3, <3>4
    <2>3. CASE LeavesValue(r)
      <3>1. layers' = layers /\ ValueAdded(r)' = ValueAdded(r) /\ ValueTaken(r)' = ValueTaken(r)
        BY <2>3 DEF LeavesValue
      <3> QED
        BY <1>5, <1>6, <3>1
    <2> QED
      BY <1>0, <2>1, <2>2, <2>3, ValueMove
  <1> QED
    BY <1>4, <1>5, <1>6, <1>7
-----------------------------------------------------------------------------
\* Where the calls book what they have done.
LEMMA KitBooksMove ==
    ASSUME TypeInv, NEW r \in Requests, KSays(r)
    PROVE  /\ booked' = booked + (BookedBy(r)' - BookedBy(r))
           /\ goods' + parts' = goods + parts
  <1>0. /\ booked \in Int /\ goods \in Int /\ parts \in Int /\ booked' = booked /\ Staged(r)
        /\ r \notin Receipts /\ r \notin Resolutions
        /\ Receipts' = Receipts /\ Resolutions' = Resolutions
    BY KitOps DEF KSays, returnsOnly, TypeInv, ValuationTypes, Receipts, Resolutions
  <1>1. BookedBy(r) = 0 /\ BookedBy(r)' = 0
    BY <1>0 DEF BookedBy
  <1>2. goods' + parts' = goods + parts
    <2>1. CASE K!KitJournal(r)
      <3>1. pc[r] = "kitJournal" /\ r \in KitCalls
        BY <1>0, <2>1, CallKinds DEF K!KitJournal, Staged
      <3>2. K!Cost(r) \in Nat
        BY <3>1, KitCost
      <3>3. PICK s \in Int : goods' = goods + s /\ parts' = parts - s
        BY <2>1, <3>2 DEF K!KitJournal
      <3> QED
        BY <1>0, <3>3
    <2>2. CASE ~K!KitJournal(r)
      <3>1. goods' = goods /\ parts' = parts
        BY <2>2 DEF KSays, K!Execute, K!CreateKit, K!AddKitComponent, K!RemoveKitComponent, K!SaveKit,
           K!FindKit, K!CheckLedger, K!ReadKitLayers, K!ConsumeKitLayers, K!ReadAverages,
           K!SaveNewLayers, K!AppendEntries, K!tables
      <3> QED
        BY <3>1
    <2> QED
      BY <2>1, <2>2
  <1> QED
    BY <1>0, <1>1, <1>2

LEMMA ReturnBooksMove ==
    ASSUME TypeInv, NEW r \in Requests, RSays(r)
    PROVE  /\ booked' = booked + (BookedBy(r)' - BookedBy(r))
           /\ goods' + parts' = goods + parts
  <1>0. /\ call' = call /\ recipe' = recipe /\ goods' = goods /\ parts' = parts
        /\ pc \in [Requests -> Stages] /\ Staged(r) /\ booked \in Int /\ DOMAIN copy = Requests
        /\ Receipts' = Receipts /\ Resolutions' = Resolutions /\ BookedBy(r) \in Int
    BY ValuesAlways DEF RSays, kitsOnly, TypeInv, ValuationTypes, Receipts, Resolutions, ValuesTyped
  <1>4. ASSUME NEW ds PROVE Worth(r, ds)' = Worth(r, ds)
    BY <1>0 DEF Worth, R!Lines, R!Cmd
  <1>1. CASE R!Journal(r)
    <2>1. /\ pc[r] = "journal" /\ pc'[r] = "saveRma" /\ r \in Receipts /\ r \notin Resolutions
          /\ booked' = booked + Worth(r, R!Dispositions) - Worth(r, {"SCRAP"})
      BY <1>0, <1>1, CallKinds DEF R!Journal, R!Goto, R!Cmd, Staged, Worth
    <2>2. \A ds : Worth(r, ds) \in Nat
      BY <2>1, WorthNat
    <2>3. Worth(r, R!Dispositions) \in Nat /\ Worth(r, {"SCRAP"}) \in Nat
      BY <2>2
    <2>4. BookedBy(r) = 0 /\ BookedBy(r)' = Worth(r, R!Dispositions) - Worth(r, {"SCRAP"})
      BY <1>0, <1>4, <2>1 DEF BookedBy
    <2> QED
      BY <1>0, <2>1, <2>3, <2>4
  <1>2. CASE R!WriteOff(r)
    <2>1. /\ pc[r] = "writeOff" /\ pc'[r] \in {"saveRows", "refused"}
          /\ r \in Resolutions /\ r \notin Receipts /\ call[r].resolution # "RESTOCK"
          /\ booked' = booked - R!TotalCost(read[r], R!Takes(r))
          /\ copy' = copy /\ read' = read
      BY <1>0, <1>2, CallKinds DEF R!WriteOff, R!Goto, R!memory, Staged
    <2>2. Wants(r) = R!Takes(r) /\ Wants(r) \in [Variants -> Nat]
      BY <2>1, WantsAre
    <2>3. R!TotalCost(read[r], R!Takes(r)) = Charge(r)
      BY <2>2, TotalsAre DEF Charge
    <2>4. Charge(r) \in Nat
      BY <2>2, ChargeNat
    <2>5. Charge(r)' = Charge(r)
      BY <1>0, <2>1, WantsKept, ChargeKept
    <2>6. BookedBy(r) = 0 /\ BookedBy(r)' = 0 - Charge(r)
      BY <1>0, <2>1, <2>5 DEF BookedBy
    <2> QED
      BY <1>0, <2>1, <2>3, <2>4, <2>6
  <1>3. CASE ~R!Journal(r) /\ ~R!WriteOff(r)
    <2>1. booked' = booked
      BY <1>3 DEF RSays, R!Execute, R!Create, R!Insert, R!Authorize, R!FindRma, R!LoadReceipt,
             R!ReadLayers, R!Consume, R!SaveRows, R!SaveLayers, R!SaveRecords,
             R!SaveRma, R!FindRecord, R!Intercept, R!LoadQuarantine, R!LoadShelf,
             R!SaveRecord, R!tables
    <2>2. BookedBy(r)' = BookedBy(r)
      <3>1. CASE r \notin Receipts /\ r \notin Resolutions
        BY <1>0, <3>1 DEF BookedBy
      <3>2. CASE r \in Receipts
        <4>1. call[r].op = "receive" /\ r \notin Resolutions
          BY <3>2, CallKinds
        <4>2. pc'[r] \in {"saveRma", "done"} <=> pc[r] \in {"saveRma", "done"}
          BY <1>0, <1>3, <4>1 DEF RSays, R!Execute, R!Create, R!Insert, R!Authorize, R!FindRma, R!LoadReceipt,
             R!ReadLayers, R!Consume, R!SaveRows, R!SaveLayers, R!SaveRecords,
             R!SaveRma, R!FindRecord, R!Intercept, R!LoadQuarantine, R!LoadShelf,
             R!SaveRecord, R!Goto, R!Cmd, Staged
        <4> QED
          BY <1>0, <1>4, <3>2, <4>1, <4>2 DEF BookedBy
      <3>3. CASE r \in Resolutions
        <4>1. call[r].op = "resolve" /\ r \notin Receipts
          BY <3>3, CallKinds
        <4>2. CASE call[r].resolution = "RESTOCK"
          BY <1>0, <4>1, <4>2 DEF BookedBy
        <4>3. CASE call[r].resolution # "RESTOCK"
          <5>1. \/ /\ pc[r] \notin {"saveRows", "saveRecord", "done", "refused"}
                   /\ pc'[r] \notin {"saveRows", "saveRecord", "done", "refused"}
                \/ /\ pc[r] \in {"saveRows", "saveRecord", "done", "refused"}
                   /\ pc'[r] \in {"saveRows", "saveRecord", "done", "refused"}
                   /\ copy' = copy /\ read' = read
            BY <1>0, <1>3, <4>1, <4>3 DEF RSays, R!Execute, R!Create, R!Insert, R!Authorize, R!FindRma, R!LoadReceipt,
               R!ReadLayers, R!Consume, R!SaveRows, R!SaveLayers, R!SaveRecords,
               R!SaveRma, R!FindRecord, R!Intercept, R!LoadQuarantine, R!LoadShelf,
               R!SaveRecord, R!Goto, R!Cmd, R!memory, Staged
          <5>2. copy' = copy /\ read' = read => Charge(r)' = Charge(r)
            BY <1>0, WantsKept, ChargeKept
          <5> QED
            BY <1>0, <4>1, <5>1, <5>2 DEF BookedBy
        <4> QED
          BY <4>2, <4>3
      <3> QED
        BY <3>1, <3>2, <3>3
    <2> QED
      BY <1>0, <2>1, <2>2
  <1> QED
    BY <1>0, <1>1, <1>2, <1>3

LEMMA AccountsStep ==
    ASSUME TypeInv, Accounts, TypeInv', NEW r \in Requests, RSays(r) \/ KSays(r), Frame(r)
    PROVE  Accounts'
  <1>1. /\ booked' = booked + (BookedBy(r)' - BookedBy(r))
        /\ goods' + parts' = goods + parts
    BY KitBooksMove, ReturnBooksMove
  <1>2. /\ BooksOfAll' = BooksOfAll + (BookedBy(r)' - BookedBy(r))
        /\ booked = BooksOfAll /\ goods + parts = 0
    BY ValuesMove DEF Accounts, BooksOfAll
  <1>3. booked' = BooksOfAll' /\ goods' + parts' = 0
    BY <1>1, <1>2
  <1> QED
    BY <1>3 DEF Accounts, BooksOfAll

Valued == LayersValued /\ Accounts

LEMMA ValuedInit ==
    ASSUME Init
    PROVE  Valued
  <1>1. ASSUME NEW q \in Requests PROVE ValueAdded(q) = 0 /\ ValueTaken(q) = 0 /\ BookedBy(q) = 0
    <2>1. pc[q] = "find"
      BY CallsTyped
    <2>2. ~Drew(q)
      BY <2>1 DEF Drew
    <2> QED
      BY <2>1, <2>2 DEF ValueAdded, ValueTaken, BookedBy
  <1>2. IsFiniteSet(Requests)
    BY ValuationAssumption DEF ValuationAssumption
  <1>3. \A f : (\A q \in Requests : f[q] = 0) => SumFunctionOnSet(f, Requests) = 0
    BY <1>2, SumZero
  <1>4. ValuesOfAll = 0 /\ BooksOfAll = 0
    <2>1. /\ \A q \in Requests : [p \in Requests |-> ValueAdded(p) - ValueTaken(p)][q] = 0
          /\ \A q \in Requests : [p \in Requests |-> BookedBy(p)][q] = 0
      BY <1>1
    <2> QED
      BY <1>3, <2>1 DEF ValuesOfAll, BooksOfAll
  <1>5. layers = InitialLayers /\ booked = 0 /\ goods = 0 /\ parts = 0
    BY DEF Init
  <1>6. Accounts
    BY <1>4, <1>5 DEF Accounts, BooksOfAll
  <1>7. LayersValued
    <2>1. TotalOf(InitialLayers) \in Int
      BY TotalType, InitialAssumption DEF InitialAssumption, Table
    <2>2. TotalOf(layers) = TotalOf(InitialLayers) + ValuesOfAll
      BY <1>4, <1>5, <2>1
    <2> QED
      BY <2>2 DEF LayersValued, ValuesOfAll, TotalOf, TotalValue
  <1> QED
    BY <1>6, <1>7 DEF Valued

LEMMA ValuedStopped ==
    ASSUME Valued, Stops
    PROVE  Valued'
  <1>1. /\ layers' = layers /\ stale' = stale /\ booked' = booked /\ goods' = goods /\ parts' = parts
        /\ \A q \in Requests : /\ ValueAdded(q)' = ValueAdded(q) /\ ValueTaken(q)' = ValueTaken(q)
                               /\ BookedBy(q)' = BookedBy(q)
    BY ValuesKept DEF Stops, Same
  <1>2. ValuesOfAll' = ValuesOfAll /\ BooksOfAll' = BooksOfAll
    BY <1>1 DEF ValuesOfAll, BooksOfAll
  <1>3. Accounts'
    <2>1. booked = BooksOfAll /\ goods + parts = 0
      BY DEF Valued, Accounts, BooksOfAll
    <2>2. booked' = BooksOfAll' /\ goods' + parts' = 0
      BY <1>1, <1>2, <2>1
    <2> QED
      BY <2>2 DEF Accounts, BooksOfAll
  <1>4. LayersValued'
    <2>1. stale = {} => TotalOf(layers) = TotalOf(InitialLayers) + ValuesOfAll
      BY DEF Valued, LayersValued, TotalValue, TotalOf, ValuesOfAll
    <2>2. stale' = {} => TotalOf(layers') = TotalOf(InitialLayers) + ValuesOfAll'
      BY <1>1, <1>2, <2>1
    <2>3. LayersValued' <=> (stale' = {} => TotalOf(layers') = TotalOf(InitialLayers) + ValuesOfAll')
      BY DEF LayersValued, TotalValue, TotalOf, ValuesOfAll
    <2> QED
      BY <2>2, <2>3
  <1> QED
    BY <1>3, <1>4 DEF Valued
-----------------------------------------------------------------------------
\* Between two numbers whose double differs by no more than n.
Near(m, c, n) == 2 * m <= 2 * c + n /\ 2 * c - n <= 2 * m

\* Rounding a share of the cost for each unit, and adding the shares up.
LEMMA Halves ==
    ASSUME NEW e \in Nat \ {0}, NEW m \in Int, NEW c \in Int, NEW n \in Int,
           (2 * e) * m <= (2 * c) * e + e * n, (2 * c) * e - e * n <= (2 * e) * m
    PROVE  Near(m, c, n)
  <1>1. ASSUME NEW x \in Int, NEW y \in Int, e * x <= e * y PROVE x <= y
    <2>1. CASE x > y
      <3>1. PICK d \in Nat : x = y + 1 + d
        <4>1. x - y - 1 \in Nat /\ x = y + 1 + (x - y - 1)
          BY <2>1
        <4> QED
          BY <4>1
      <3>2. e * x = e * y + e + e * d
        BY <3>1
      <3>3. e * d >= 0
        BY <3>1
      <3>4. e * x \in Int /\ e * y \in Int /\ e * d \in Int
        OBVIOUS
      <3> QED
        BY <1>1, <3>2, <3>3, <3>4
    <2> QED
      BY <2>1
  <1>2. (2 * e) * m = e * (2 * m) /\ (2 * c) * e + e * n = e * (2 * c + n) /\ (2 * c) * e - e * n = e * (2 * c - n)
    OBVIOUS
  <1>3. e * (2 * m) <= e * (2 * c + n) /\ e * (2 * c - n) <= e * (2 * m)
    BY <1>2
  <1>4. 2 * m \in Int /\ 2 * c + n \in Int /\ 2 * c - n \in Int
    OBVIOUS
  <1> QED
    BY <1>1, <1>3, <1>4 DEF Near

LEMMA Shares ==
    ASSUME NEW S, IsFiniteSet(S), NEW c \in Nat, NEW G, NEW H, NEW F, NEW e \in Nat \ {0},
           \A v \in S : /\ G[v] \in Nat /\ H[v] \in Nat /\ F[v] \in Nat
                        /\ (2 * e) * F[v] <= (2 * c) * G[v] + e * H[v]
                        /\ (2 * c) * G[v] - e * H[v] <= (2 * e) * F[v],
           e = SumFunctionOnSet(G, S)
    PROVE  Near(SumFunctionOnSet(F, S), c, SumFunctionOnSet(H, S))
  <1> DEFINE U == [v \in S |-> (2 * e) * F[v]]
             V == [v \in S |-> (2 * c) * G[v]]
             W == [v \in S |-> e * H[v]]
             A == [v \in S |-> V[v] + W[v]]
             D == [v \in S |-> U[v] + W[v]]
  <1>1. \A v \in S : U[v] = (2 * e) * F[v] /\ V[v] = (2 * c) * G[v] /\ W[v] = e * H[v]
    OBVIOUS
  <1>2. ASSUME NEW v \in S PROVE U[v] \in Int /\ V[v] \in Int /\ W[v] \in Int
    <2>1. \A x, y \in Int : x * y \in Int
      OBVIOUS
    <2>2. F[v] \in Int /\ G[v] \in Int /\ H[v] \in Int /\ 2 * e \in Int /\ 2 * c \in Int /\ e \in Int
      OBVIOUS
    <2> QED
      BY <1>1, <2>1, <2>2
  <1>3. \A v \in S : A[v] = V[v] + W[v] /\ D[v] = U[v] + W[v]
    OBVIOUS
  <1>4. ASSUME NEW v \in S PROVE U[v] <= A[v] /\ V[v] <= D[v] /\ A[v] \in Int /\ D[v] \in Int
    <2>1. U[v] <= V[v] + W[v] /\ V[v] - W[v] <= U[v]
      BY <1>1
    <2> QED
      BY <1>2, <1>3, <2>1
  <1> HIDE DEF U, V, W, A, D
  <1>5. /\ Summable(F, S) /\ Summable(G, S) /\ Summable(H, S) /\ Summable(U, S) /\ Summable(V, S)
        /\ Summable(W, S) /\ Summable(A, S) /\ Summable(D, S)
    BY <1>2, <1>4 DEF Summable
  <1>6. PICK m, n, u, x, w : /\ m = SumFunctionOnSet(F, S) /\ n = SumFunctionOnSet(H, S)
                             /\ u = SumFunctionOnSet(U, S) /\ x = SumFunctionOnSet(V, S)
                             /\ w = SumFunctionOnSet(W, S)
    OBVIOUS
  <1>7. m \in Int /\ n \in Int /\ u \in Int /\ x \in Int /\ w \in Int
    BY <1>5, <1>6, SumType
  <1>8. u = (2 * e) * m
    <2>1. PICK k : k = 2 * e
      OBVIOUS
    <2>2. k \in Int /\ \A v \in S : U[v] = k * F[v]
      BY <1>1, <2>1
    <2>3. SumFunctionOnSet(U, S) = k * SumFunctionOnSet(F, S)
      BY <1>5, <2>2, SumTimes
    <2> QED
      BY <1>6, <2>1, <2>3
  <1>9. x = (2 * c) * e
    <2>1. PICK k : k = 2 * c
      OBVIOUS
    <2>2. k \in Int /\ \A v \in S : V[v] = k * G[v]
      BY <1>1, <2>1
    <2>3. SumFunctionOnSet(V, S) = k * SumFunctionOnSet(G, S)
      BY <1>5, <2>2, SumTimes
    <2> QED
      BY <1>6, <2>1, <2>3
  <1>10. w = e * n
    <2>1. e \in Int
      OBVIOUS
    <2> QED
      BY <1>1, <1>5, <1>6, <2>1, SumTimes
  <1>11. SumFunctionOnSet(A, S) = x + w /\ SumFunctionOnSet(D, S) = u + w
    BY <1>3, <1>5, <1>6, SumPlus
  <1>12. SumFunctionOnSet(U, S) <= SumFunctionOnSet(A, S) /\ SumFunctionOnSet(V, S) <= SumFunctionOnSet(D, S)
    BY <1>4, <1>5, SumGrows
  <1>13. u <= x + w /\ x <= u + w
    BY <1>6, <1>11, <1>12
  <1>14. (2 * e) * m <= (2 * c) * e + e * n /\ (2 * c) * e - e * n <= (2 * e) * m
    <2>1. u <= x + w /\ x - w <= u
      BY <1>7, <1>13
    <2> QED
      BY <1>8, <1>9, <1>10, <2>1
  <1>15. c \in Int
    OBVIOUS
  <1>16. Near(m, c, n)
    BY <1>7, <1>14, <1>15, Halves
  <1> QED
    BY <1>6, <1>16

\* The layers that a kit call adds are worth what it took from the layers, up
\* to half a cent for each unit.
LEMMA MadeOfKits ==
    ASSUME TypeInv, NEW q \in KitCalls, pc[q] \notin {"find", "rejected"}, K!Building(q)
    PROVE  Near(SumFunctionOnSet(MadeValue(q), Variants), Charge(q),
                SumFunctionOnSet(K!Makes(q), Variants))
  <1>1. PICK a, c, w : a = call[q].amount /\ c = Charge(q) /\ w = Round(c, a)
    OBVIOUS
  <1>2. a \in Nat \ {0} /\ c \in Nat /\ K!Cost(q) = c
    BY <1>1, KitFacts, KitCost
  <1>3. /\ w \in Nat /\ 2 * a * w <= 2 * c + a /\ 2 * c - a <= 2 * a * w
    BY <1>1, <1>2, RoundFacts
  <1>4. \A v \in Variants : K!NewCost(q, v) = w
    BY <1>1, <1>2 DEF K!NewCost, K!Round, Round, K!Cmd
  <1>5. KitVariant \in Variants /\ IsFiniteSet(Variants)
    BY ValuationAssumption DEF ValuationAssumption
  <1>6. \A v \in Variants : K!Makes(q)[v] = IF v = KitVariant THEN a ELSE 0
    BY <1>1 DEF K!Makes, K!Whole, K!Cmd
  <1> DEFINE F == MadeValue(q)
             H == K!Makes(q)
  <1>7. \A v \in Variants : F[v] = IF v = KitVariant THEN a * w ELSE 0
    <2>1. \A x \in Int : 0 * x = 0
      OBVIOUS
    <2>2. \A v \in Variants : F[v] = H[v] * w
      BY <1>4 DEF MadeValue
    <2>3. w \in Int
      BY <1>3
    <2> QED
      BY <1>6, <2>1, <2>2, <2>3
  <1> HIDE DEF F, H
  <1>8. a * w \in Int /\ a \in Int
    <2>1. \A x, y \in Int : x * y \in Int
      OBVIOUS
    <2>2. a \in Int /\ w \in Int
      BY <1>2, <1>3
    <2> QED
      BY <2>1, <2>2
  <1>9. \A v \in Variants : H[v] = IF v = KitVariant THEN a ELSE 0
    BY <1>6 DEF H
  <1>10. Summable(F, Variants) /\ Summable(H, Variants)
    BY <1>5, <1>7, <1>8, <1>9 DEF Summable
  <1>11. {KitVariant} \in SUBSET Variants
    BY <1>5
  <1>12. SumFunctionOnSet(F, Variants) = SumFunctionOnSet(F, {KitVariant})
    BY <1>7, <1>10, <1>11, SumWhere
  <1>13. SumFunctionOnSet(H, Variants) = SumFunctionOnSet(H, {KitVariant})
    BY <1>9, <1>10, <1>11, SumWhere
  <1>14. SumFunctionOnSet(F, Variants) = a * w
    <2>1. F[KitVariant] = a * w
      BY <1>5, <1>7
    <2> QED
      BY <1>8, <1>12, <2>1, SumOne
  <1>15. SumFunctionOnSet(H, Variants) = a
    <2>1. H[KitVariant] = a
      BY <1>5, <1>9
    <2> QED
      BY <1>8, <1>13, <2>1, SumOne
  <1>16. Near(a * w, c, a)
    <2>1. 2 * a * w = 2 * (a * w)
      BY <1>2, <1>3
    <2> QED
      BY <1>3, <2>1 DEF Near
  <1> QED
    BY <1>1, <1>14, <1>15, <1>16 DEF F, H

LEMMA MadeOfParts ==
    ASSUME TypeInv, NEW q \in KitCalls, pc[q] \notin {"find", "rejected"},
           ~K!Building(q), K!Estimate(q) > 0
    PROVE  Near(SumFunctionOnSet(MadeValue(q), Variants), Charge(q),
                SumFunctionOnSet(K!Makes(q), Variants))
  <1>1. PICK c, e : c = Charge(q) /\ e = K!Estimate(q)
    OBVIOUS
  <1>2. /\ c \in Nat /\ K!Cost(q) = c /\ e \in Nat \ {0} /\ IsFiniteSet(Variants)
        /\ q \in Requests /\ recipe[q] \in K!Recipes
    BY <1>1, KitCost, KitFacts, ValuationAssumption DEF ValuationAssumption, TypeInv, Remembers
  <1>3. \A v \in Variants : average[q][v] \in Nat /\ K!Need(q, v) \in Nat
    BY <1>2, KitFacts DEF TypeInv, ValuationTypes
  <1> DEFINE F == MadeValue(q)
             H == K!Makes(q)
             G == [v \in Variants |-> K!Need(q, v) * average[q][v]]
  <1>4. \A v \in Variants : H[v] = K!Need(q, v)
    BY DEF K!Makes, K!Contents
  <1>5. e = SumFunctionOnSet(G, Variants)
    BY <1>1, SumOfKits DEF K!Estimate
  <1>6. ASSUME NEW v \in Variants
        PROVE  /\ G[v] \in Nat /\ H[v] \in Nat /\ F[v] \in Nat
               /\ (2 * e) * F[v] <= (2 * c) * G[v] + e * H[v]
               /\ (2 * c) * G[v] - e * H[v] <= (2 * e) * F[v]
    <2>1. PICK n, a, w, p : /\ n = K!Need(q, v) /\ a = average[q][v] /\ p = a * c
                            /\ w = Round(p, e)
      OBVIOUS
    <2>2. n \in Nat /\ a \in Nat
      BY <1>3, <2>1
    <2>3. p \in Nat
      <3>1. \A x, y \in Nat : x * y \in Nat
        OBVIOUS
      <3> QED
        BY <1>2, <2>1, <2>2, <3>1
    <2>4. w \in Nat /\ 2 * e * w <= 2 * p + e /\ 2 * p - e <= 2 * e * w
      BY <1>2, <2>1, <2>3, RoundFacts
    <2>5. K!NewCost(q, v) = w
      BY <1>1, <1>2, <2>1 DEF K!NewCost, K!Round, Round
    <2>6. F[v] = n * w /\ H[v] = n /\ G[v] = n * a
      BY <1>4, <2>1, <2>5 DEF MadeValue
    <2>7. n * w \in Nat /\ n * a \in Nat
      <3>1. \A x, y \in Nat : x * y \in Nat
        OBVIOUS
      <3> QED
        BY <2>2, <2>4, <3>1
    <2>8. /\ n * (2 * e * w) <= n * (2 * p + e) /\ n * (2 * p - e) <= n * (2 * e * w)
      <3>1. ASSUME NEW i \in Nat, NEW x \in Int, NEW y \in Int, x <= y PROVE i * x <= i * y
        <4>1. PICK d \in Nat : y = x + d
          <5>1. y - x \in Nat /\ y = x + (y - x)
            BY <3>1
          <5> QED
            BY <5>1
        <4>2. i * y = i * x + i * d /\ i * d >= 0 /\ i * x \in Int /\ i * d \in Int
          BY <4>1
        <4> QED
          BY <4>2
      <3>2. 2 * e * w \in Int /\ 2 * p + e \in Int /\ 2 * p - e \in Int
        <4>1. \A x, y \in Int : x * y \in Int
          OBVIOUS
        <4>2. 2 * e \in Int /\ w \in Int
          BY <1>2, <2>4
        <4> QED
          BY <1>2, <2>3, <4>1, <4>2
      <3> QED
        BY <2>2, <2>4, <3>1, <3>2
    <2>9. n * (2 * e * w) = (2 * e) * (n * w)
      BY <1>2, <2>2, <2>4
    <2>10. n * (2 * p + e) = (2 * c) * (n * a) + e * n /\ n * (2 * p - e) = (2 * c) * (n * a) - e * n
      BY <1>2, <2>1, <2>2, <2>3
    <2>11. /\ (2 * e) * (n * w) <= (2 * c) * (n * a) + e * n
           /\ (2 * c) * (n * a) - e * n <= (2 * e) * (n * w)
      BY <2>8, <2>9, <2>10
    <2> QED
      BY <2>2, <2>6, <2>7, <2>11
  <1> HIDE DEF F, G, H
  <1>7. Near(SumFunctionOnSet(F, Variants), c, SumFunctionOnSet(H, Variants))
    BY <1>2, <1>5, <1>6, Shares
  <1> QED
    BY <1>1, <1>7 DEF F, H
-----------------------------------------------------------------------------
\* What the end of a call leaves between the layers and the books.
Drifts(q) == ValueAdded(q) - ValueTaken(q) - BookedBy(q)

LEMMA DriftOfReceipt ==
    ASSUME TypeInv, NEW q \in Receipts, pc[q] \in {"done", "rejected"},
           pc[q] = "done" => R!Marked(q, "SCRAP") = {}
    PROVE  Drifts(q) = 0
  <1>0. q \notin Resolutions /\ q \notin KitCalls
    BY ReceiptFacts, CallKinds
  <1>1. CASE pc[q] = "rejected"
    <2>1. ~Drew(q)
      BY <1>0, <1>1 DEF Drew
    <2>2. ValueAdded(q) = 0 /\ ValueTaken(q) = 0 /\ BookedBy(q) = 0
      BY <1>0, <1>1, <2>1 DEF ValueAdded, ValueTaken, BookedBy
    <2> QED
      BY <2>2 DEF Drifts
  <1>2. CASE pc[q] = "done"
    <2>1. Charge(q) = 0 /\ ValueTaken(q) = 0
      BY <1>2, ChargeNone DEF ScrapsFree, ValueTaken
    <2>2. Worth(q, {"SCRAP"}) = 0
      <3>1. PICK f : f = [v \in Variants |-> R!Amount(R!Lines(q), {"SCRAP"}, v) * UnitCost[call[q].rma][v]]
        OBVIOUS
      <3>2. UnitCost[call[q].rma] \in [Variants -> Nat] /\ Worth(q, {"SCRAP"}) = SumFunctionOnSet(f, Variants)
        BY <3>1, WorthNat
      <3>3. ASSUME NEW v \in Variants PROVE f[v] = 0
        <4>1. R!Lines(q) \in Seq(R!ReceiptLine)
          BY ReceiptFacts
        <4>2. \A i \in DOMAIN R!Lines(q) :
                  ~(R!Lines(q)[i].variant = v /\ R!Lines(q)[i].disposition \in {"SCRAP"})
          BY <1>2 DEF R!Marked
        <4>3. R!Amount(R!Lines(q), {"SCRAP"}, v) = 0
          BY <4>1, <4>2, AmountOfNone
        <4>4. UnitCost[call[q].rma][v] \in Int /\ \A x \in Int : 0 * x = 0
          BY <3>2
        <4> QED
          BY <3>1, <4>3, <4>4
      <3>4. IsFiniteSet(Variants)
        BY ValuationAssumption DEF ValuationAssumption
      <3> QED
        BY <3>2, <3>3, <3>4, SumZero
    <2>3. PICK w : w = Worth(q, R!Dispositions)
      OBVIOUS
    <2>4. w \in Nat
      <3>1. \A ds : Worth(q, ds) \in Nat
        BY WorthNat
      <3> QED
        BY <2>3, <3>1
    <2>5. ValueAdded(q) = w /\ BookedBy(q) = w - 0
      BY <1>0, <1>2, <2>2, <2>3 DEF ValueAdded, BookedBy
    <2> QED
      BY <2>1, <2>4, <2>5 DEF Drifts
  <1> QED
    BY <1>1, <1>2

LEMMA DriftOfResolution ==
    ASSUME TypeInv, NEW q \in Resolutions, pc[q] \in {"done", "rejected"}
    PROVE  Drifts(q) = 0
  <1>0. q \notin Receipts /\ q \notin KitCalls /\ ValueAdded(q) = 0
    BY ResolutionFacts, CallKinds DEF ValueAdded
  <1>1. CASE pc[q] = "done" /\ call[q].resolution # "RESTOCK"
    <2>1. Wants(q) \in [Variants -> Nat]
      BY <1>1, WantsAre, ResolutionFacts
    <2>2. Charge(q) \in Nat
      BY <2>1, ChargeNat, ResolutionFacts
    <2>3. ValueTaken(q) = Charge(q) /\ BookedBy(q) = 0 - Charge(q)
      BY <1>0, <1>1 DEF ValueTaken, Drew, BookedBy
    <2> QED
      BY <1>0, <2>2, <2>3 DEF Drifts
  <1>2. CASE ~(pc[q] = "done" /\ call[q].resolution # "RESTOCK")
    <2>1. ValueTaken(q) = 0 /\ BookedBy(q) = 0
      BY <1>0, <1>2 DEF ValueTaken, Drew, BookedBy
    <2> QED
      BY <1>0, <2>1 DEF Drifts
  <1> QED
    BY <1>1, <1>2

LEMMA DriftOfKit ==
    ASSUME TypeInv, NEW q \in KitCalls, pc[q] \in {"done", "rejected"},
           pc[q] = "done" /\ ~K!Building(q) => K!Estimate(q) > 0
    PROVE  /\ 2 * Drifts(q) <= Rounded(q) /\ 0 - Rounded(q) <= 2 * Drifts(q)
           /\ Rounded(q) \in Nat
  <1>0. q \notin Receipts /\ q \notin Resolutions /\ BookedBy(q) = 0
    BY KitFacts, CallKinds DEF BookedBy
  <1>1. CASE pc[q] = "rejected"
    <2>1. ValueAdded(q) = 0 /\ ValueTaken(q) = 0 /\ Rounded(q) = 0
      BY <1>0, <1>1 DEF ValueAdded, ValueTaken, Drew, Rounded
    <2> QED
      BY <1>0, <2>1 DEF Drifts
  <1>2. CASE pc[q] = "done"
    <2>1. PICK m, c, n : /\ m = SumFunctionOnSet(MadeValue(q), Variants) /\ c = Charge(q)
                         /\ n = SumFunctionOnSet(K!Makes(q), Variants)
      OBVIOUS
    <2>2. Near(m, c, n)
      BY <1>2, <2>1, MadeOfKits, MadeOfParts
    <2>3. m \in Nat
      BY <1>2, <2>1, MadeNat
    <2>4. c \in Nat
      BY <1>2, <2>1, KitCost
    <2>5. n \in Nat
      <3>1. recipe[q] \in K!Recipes /\ IsFiniteSet(Variants)
        BY <1>2, KitFacts, ValuationAssumption DEF TypeInv, Remembers, ValuationAssumption
      <3>2. \A v \in Variants : K!Makes(q)[v] \in Nat
        BY <3>1, KitFacts
      <3> QED
        BY <2>1, <3>1, <3>2, SumNat
    <2>6. ValueAdded(q) = m
      BY <1>2, <2>1, AddedOfKit
    <2>7. ValueTaken(q) = c
      BY <1>2, <2>1 DEF ValueTaken, Drew
    <2>8. Rounded(q) = n
      BY <1>2, <2>1 DEF Rounded
    <2>9. Drifts(q) = m - c
      BY <1>0, <2>3, <2>4, <2>6, <2>7 DEF Drifts
    <2> QED
      BY <2>2, <2>3, <2>4, <2>5, <2>8, <2>9 DEF Near
  <1> QED
    BY <1>1, <1>2

LEMMA DriftBound ==
    ASSUME TypeInv, NEW q \in Requests, pc[q] \in {"done", "rejected"},
           q \in Receipts /\ pc[q] = "done" => R!Marked(q, "SCRAP") = {},
           q \in KitCalls /\ pc[q] = "done" /\ ~K!Building(q) => K!Estimate(q) > 0
    PROVE  /\ 2 * Drifts(q) <= Rounded(q) /\ 0 - Rounded(q) <= 2 * Drifts(q)
           /\ Rounded(q) \in Nat
  <1>1. CASE q \in KitCalls
    BY <1>1, DriftOfKit
  <1>2. CASE q \notin KitCalls
    <2>1. Rounded(q) = 0
      BY <1>2 DEF Rounded
    <2>2. Drifts(q) = 0
      <3>1. CASE q \in Receipts
        BY <3>1, DriftOfReceipt
      <3>2. CASE q \in Resolutions
        BY <3>2, DriftOfResolution
      <3>3. CASE q \notin Receipts /\ q \notin Resolutions
        <4>1. ValueAdded(q) = 0 /\ ValueTaken(q) = 0 /\ BookedBy(q) = 0
          BY <1>2, <3>3 DEF ValueAdded, ValueTaken, Drew, BookedBy
        <4> QED
          BY <4>1 DEF Drifts
      <3> QED
        BY <3>1, <3>2, <3>3
    <2> QED
      BY <2>1, <2>2
  <1> QED
    BY <1>1, <1>2

LEMMA ValuedSuffices ==
    ASSUME TypeInv, Valued
    PROVE  ValueIsBooked
  <1> DEFINE bound == SumFunctionOnSet([r \in Requests |-> Rounded(r)], Requests)
             drift == TotalValue(layers) - TotalValue(InitialLayers) - booked - goods - parts
  <1> SUFFICES ASSUME AtRest, halted = {}, stale = {},
                      \A r \in Receipts : pc[r] = "done" => R!Marked(r, "SCRAP") = {},
                      \A r \in KitCalls : pc[r] = "done" /\ ~K!Building(r) => K!Estimate(r) > 0
               PROVE  2 * drift <= bound /\ 0 - bound <= 2 * drift
    BY DEF ValueIsBooked
  <1> HIDE DEF bound, drift
  <1> DEFINE f == [q \in Requests |-> ValueAdded(q) - ValueTaken(q)]
             b == [q \in Requests |-> BookedBy(q)]
             d == [q \in Requests |-> Drifts(q)]
             t == [q \in Requests |-> 2 * Drifts(q)]
             n == [q \in Requests |-> Rounded(q)]
             o == [q \in Requests |-> 0 - Rounded(q)]
  <1>1. ASSUME NEW q \in Requests
        PROVE  /\ f[q] \in Int /\ b[q] \in Int /\ d[q] \in Int /\ n[q] \in Int
               /\ f[q] = d[q] + b[q] /\ t[q] = 2 * d[q] /\ o[q] = (0 - 1) * n[q]
               /\ t[q] <= n[q] /\ o[q] <= t[q] /\ t[q] \in Int /\ o[q] \in Int
    <2>1. ValueAdded(q) \in Nat /\ ValueTaken(q) \in Nat /\ BookedBy(q) \in Int
      BY ValuesAlways DEF ValuesTyped
    <2>2. pc[q] \in {"done", "rejected"}
      BY DEF AtRest
    <2>3. 2 * Drifts(q) <= Rounded(q) /\ 0 - Rounded(q) <= 2 * Drifts(q) /\ Rounded(q) \in Nat
      BY <2>2, DriftBound
    <2>4. /\ f[q] = ValueAdded(q) - ValueTaken(q) /\ b[q] = BookedBy(q) /\ d[q] = Drifts(q)
          /\ t[q] = 2 * Drifts(q) /\ n[q] = Rounded(q) /\ o[q] = 0 - Rounded(q)
          /\ Drifts(q) = ValueAdded(q) - ValueTaken(q) - BookedBy(q)
      BY DEF Drifts
    <2> HIDE DEF f, b, d, t, n, o
    <2> QED
      BY <2>1, <2>3, <2>4
  <1>2. /\ ValuesOfAll = SumFunctionOnSet(f, Requests) /\ BooksOfAll = SumFunctionOnSet(b, Requests)
        /\ bound = SumFunctionOnSet(n, Requests)
    BY DEF ValuesOfAll, BooksOfAll, bound
  <1> HIDE DEF f, b, d, t, n, o
  <1>3. /\ Summable(f, Requests) /\ Summable(b, Requests) /\ Summable(d, Requests)
        /\ Summable(t, Requests) /\ Summable(n, Requests) /\ Summable(o, Requests)
    BY <1>1, ValuationAssumption DEF ValuationAssumption, Summable
  <1>4. /\ SumFunctionOnSet(f, Requests) \in Int /\ SumFunctionOnSet(b, Requests) \in Int
        /\ SumFunctionOnSet(d, Requests) \in Int /\ SumFunctionOnSet(n, Requests) \in Int
    BY <1>3, SumType
  <1>5. SumFunctionOnSet(f, Requests) = SumFunctionOnSet(d, Requests) + SumFunctionOnSet(b, Requests)
    BY <1>1, <1>3, SumPlus
  <1>6. SumFunctionOnSet(t, Requests) = 2 * SumFunctionOnSet(d, Requests)
    <2>1. 2 \in Int /\ \A q \in Requests : t[q] = 2 * d[q]
      BY <1>1
    <2> QED
      BY <1>3, <2>1, SumTimes
  <1>7. SumFunctionOnSet(o, Requests) = 0 - SumFunctionOnSet(n, Requests)
    <2>1. PICK k : k = 0 - 1
      OBVIOUS
    <2>2. k \in Int /\ \A q \in Requests : o[q] = k * n[q]
      BY <1>1, <2>1
    <2>3. SumFunctionOnSet(o, Requests) = k * SumFunctionOnSet(n, Requests)
      BY <1>3, <2>2, SumTimes
    <2> QED
      BY <1>4, <2>1, <2>3
  <1>8. SumFunctionOnSet(t, Requests) <= SumFunctionOnSet(n, Requests)
    BY <1>1, <1>3, SumGrows
  <1>9. SumFunctionOnSet(o, Requests) <= SumFunctionOnSet(t, Requests)
    BY <1>1, <1>3, SumGrows
  <1>10. drift = SumFunctionOnSet(d, Requests)
    <2>1. TotalOf(layers) = TotalOf(InitialLayers) + ValuesOfAll
      BY DEF Valued, LayersValued, TotalValue, TotalOf, ValuesOfAll
    <2>2. booked = BooksOfAll /\ goods + parts = 0
      BY DEF Valued, Accounts, BooksOfAll
    <2>3. TotalOf(InitialLayers) \in Int
      BY TotalType, InitialAssumption DEF InitialAssumption, Table
    <2>4. goods \in Int /\ parts \in Int
      BY DEF TypeInv, ValuationTypes
    <2>5. drift = TotalOf(layers) - TotalOf(InitialLayers) - booked - goods - parts
      BY DEF drift, TotalValue, TotalOf
    <2> QED
      BY <1>2, <1>4, <1>5, <2>1, <2>2, <2>3, <2>4, <2>5
  <1> QED
    BY <1>2, <1>4, <1>6, <1>7, <1>8, <1>9, <1>10

\* Valuation.ValueIsBooked, for all layers, costs, calls and interleavings:
\* when every call has ended the layers are worth what the journal says, up to
\* half a cent for each unit a kit is made of or split into.
THEOREM ValueFollowsBooks == Spec => []ValueIsBooked
  <1>1. Init => Base /\ Valued
    BY BaseInit, ValuedInit
  <1>2. Base /\ Valued /\ [Next]_vars => (Base /\ Valued)'
    <2> SUFFICES ASSUME Base, Valued, [Next]_vars PROVE Base' /\ Valued'
      OBVIOUS
    <2>1. Base'
      BY BaseStep
    <2>2. CASE Stops
      BY <2>1, <2>2, ValuedStopped
    <2>3. ASSUME NEW r \in Requests, RSays(r) \/ KSays(r) PROVE Valued'
      <3>1. TypeInv /\ TypeInv' /\ Frame(r) /\ LayersValued /\ Accounts
        BY <2>1, <2>3, TypesStep DEF Base, Valued
      <3> QED
        BY <2>3, <3>1, LayersValuedStep, AccountsStep DEF Valued
    <2> QED
      BY <2>1, <2>2, <2>3, NextCases
  <1>3. Base /\ Valued => ValueIsBooked
    BY ValuedSuffices DEF Base
  <1> QED
    BY <1>1, <1>2, <1>3, PTL DEF Spec
=============================================================================
