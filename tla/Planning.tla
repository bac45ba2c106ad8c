------------------------------ MODULE Planning ------------------------------
(***************************************************************************)
(* The planning queries, each a computation over what it has read: which   *)
(* lots to pick (FEFOPickingSuggester.ts), where to put stock away         *)
(* (PutawaySuggester.ts), which locations ship an order                    *)
(* (OrderRoutingEngine.ts, RouteOrder.ts), which items to swap             *)
(* (SlottingOptimizerService.ts), which arrivals go straight to a backorder *)
(* (CrossDockingEngine.ts), in which order to walk to the bins of a pick   *)
(* (PickingRouteOptimizer.ts), and what the stock is worth                 *)
(* (GetStockValuationReport.ts).  A behaviour is one question and its      *)
(* answer; what an answer must be is said without the algorithm.           *)
(***************************************************************************)
EXTENDS Integers, SequencesExt

CONSTANTS Spots,  \* number of locations, items or backorders in a question
          MaxQty  \* bound: quantities, capacities and distances in a question

VARIABLES asked, answer
vars == <<asked, answer>>

Nothing == [of |-> "nothing"]
Refused == <<"refused">>
Quantities == 0..MaxQty
Asked == 1..MaxQty
Least(a, b) == IF a < b THEN a ELSE b

Init == asked = Nothing /\ answer = <<>>

Reply(question, reply) == asked' = question /\ answer' = reply

Total(f, S) == MapThenSumSet(LAMBDA i : f[i], S)

-----------------------------------------------------------------------------
(* Picking.  The active layers in the order of expiry name the lots, later *)
(* lots by greater numbers, a lot once per layer; the ledger says what was *)
(* received of each lot at each location.                                  *)
Lots == 1..2
Balances == [Lots \X (1..Spots) -> -1..MaxQty]

PickFrom(pick, cell) ==
  LET take == IF pick.balance[cell] <= 0 THEN 0 ELSE Least(pick.left, pick.balance[cell])
  IN [left |-> pick.left - take,
      balance |-> [pick.balance EXCEPT ![cell] = @ - take],
      taken |-> [pick.taken EXCEPT ![cell] = @ + take]]

Picked(quantity, layers, balance) ==
  LET cells == FlattenSeq([k \in DOMAIN layers |-> [s \in 1..Spots |-> <<layers[k], s>>]])
      nothing == [left |-> quantity, balance |-> balance, taken |-> [c \in DOMAIN balance |-> 0]]
  IN FoldLeft(PickFrom, nothing, cells)

SuggestFefoPicking ==
  /\ asked = Nothing
  /\ \E quantity \in Asked, layers \in {<<1>>, <<2>>, <<1, 2>>, <<1, 1>>, <<1, 1, 2>>}, balance \in Balances :
       LET pick == Picked(quantity, layers, balance)
       IN Reply([of |-> "picking", quantity |-> quantity, layers |-> layers, balance |-> balance],
                IF pick.left > 0 THEN Refused ELSE pick.taken)

-----------------------------------------------------------------------------
(* Putting away.  A location has a zone, an aisle (one of the first or     *)
(* not), and what weight and volume it has left.                           *)
Zones == {"plain", "cold", "hazmat", "fast"}
Locations == [zone : Zones, front : BOOLEAN, weight : {0, MaxQty}, volume : {1, MaxQty}]
Goods == [zone : {"any", "cold"}, hazard : BOOLEAN, fast : BOOLEAN, weight : {0, 1, 2}, volume : {0, 1}]
(* units so heavy that the rounding of the ratio tells, and places that just do not hold one or two *)
Pallet == 250000
TightLocations == [zone : {"plain"}, front : {FALSE}, weight : {n * Pallet - d : n \in {1, 2}, d \in 0..3}, volume : {1, MaxQty}]
HeavyGoods == [zone : {"any"}, hazard : {FALSE}, fast : {FALSE}, weight : {Pallet}, volume : {0, 1}]

Compatible(goods, location) ==
  /\ goods.zone = "any" \/ location.zone = goods.zone
  /\ goods.hazard <=> location.zone = "hazmat"
Eligible(goods, location) == Compatible(goods, location) /\ location.weight > 0 /\ location.volume > 0

Score(goods, location) ==
  (IF goods.zone # "any" /\ location.zone = goods.zone THEN 100 ELSE 0)
  + (IF goods.hazard THEN 200 ELSE 0)
  + (IF goods.fast /\ location.zone = "fast" THEN 50 ELSE 0)
  + (IF goods.fast /\ location.front THEN 30 ELSE 0)

Better(goods, one, other) ==
  \/ Score(goods, one) > Score(goods, other)
  \/ Score(goods, one) = Score(goods, other) /\ one.weight > other.weight

(* The ratio is rounded to five decimals before it is cut off: what lacks no more than half *)
(* of the last decimal counts as a whole unit (a tie, which the doubles decide, goes up).   *)
Slack(unit) == unit \div 200000
Units(room, unit) == room \div unit + (IF unit - (room % unit) <= Slack(unit) THEN 1 ELSE 0)

(* a bug: the volume is not looked at *)
FitWeight(goods, location, wanted) ==
  IF goods.weight = 0 THEN wanted ELSE Least(wanted, Units(location.weight, goods.weight))
Fit(goods, location, wanted) ==
  LET heavy == IF goods.weight = 0 THEN wanted ELSE Units(location.weight, goods.weight)
      bulky == IF goods.volume = 0 THEN wanted ELSE Units(location.volume, goods.volume)
  IN Least(wanted, Least(heavy, bulky))

PutAway(quantity, goods, locations) ==
  LET eligible == {s \in 1..Spots : Eligible(goods, locations[s])}
      ranked == SetToSortSeq(eligible, LAMBDA s, t :
                  \/ Better(goods, locations[s], locations[t])
                  \/ ~Better(goods, locations[t], locations[s]) /\ s < t)
      Store(plan, s) == LET fit == Fit(goods, locations[s], plan.left)
                        IN [left |-> plan.left - fit, stored |-> [plan.stored EXCEPT ![s] = fit]]
  IN FoldLeft(Store, [left |-> quantity, stored |-> [s \in 1..Spots |-> 0]], ranked)

(* where no zone is right the answer is the empty list, not an error *)
AnswerPutaway(quantity, goods, locations) ==
  LET plan == PutAway(quantity, goods, locations)
  IN Reply([of |-> "putaway", quantity |-> quantity, goods |-> goods, locations |-> locations],
           IF \A s \in 1..Spots : ~Compatible(goods, locations[s]) THEN <<>>
           ELSE IF plan.left > 0 THEN Refused ELSE plan.stored)

SuggestPutaway ==
  /\ asked = Nothing
  /\ \E quantity \in Asked :
       \/ \E goods \in Goods, locations \in [1..Spots -> Locations] :
            AnswerPutaway(quantity, goods, locations)
       \/ \E goods \in HeavyGoods, locations \in [1..Spots -> TightLocations] :
            AnswerPutaway(quantity, goods, locations)

-----------------------------------------------------------------------------
(* Routing.  The locations in the order of their distance; the rate of a   *)
(* shipment, or what counts as one when the carrier gives none.            *)
NoRate == 999999
Distance == [s \in 1..Spots |-> 2000 * (s - 1)]
Strategies == {"MINIMIZE_SPLITS", "MINIMIZE_COST", "MINIMIZE_DISTANCE"}
Rates == {100, 700, NoRate}

(* take what there is, location after location; skip any; stop when it is enough *)
Taken(stock, chosen, quantity) ==
  [s \in 1..Spots |-> IF s \notin chosen THEN 0
                      ELSE Least(stock[s], quantity - Total(stock, {t \in chosen : t < s}))]
Enough(stock, quantity, chosen) ==
  /\ Total(stock, chosen) >= quantity
  /\ \A s \in chosen : stock[s] > 0 /\ Total(stock, {t \in chosen : t < s}) < quantity

Plans(stock, quantity) == {chosen \in SUBSET (1..Spots) : Enough(stock, quantity, chosen)}

(* ten times the score of the strategy *)
PlanScore(strategy, rate, chosen) ==
  LET splits == Cardinality(chosen) - 1
      cost == Total(rate, chosen)
      distance == Total(Distance, chosen)
  IN CASE strategy = "MINIMIZE_SPLITS" -> 10000000 * splits + 10 * cost + distance
       [] strategy = "MINIMIZE_COST" -> 5000 * splits + 10 * cost + distance
       [] strategy = "MINIMIZE_DISTANCE" -> 10000 * splits + cost + 100 * distance

RouteOrder ==
  /\ asked = Nothing
  /\ \E quantity \in Asked, strategy \in Strategies, stock \in [1..Spots -> Quantities], rate \in [1..Spots -> Rates] :
       LET plans == Plans(stock, quantity)
           Cost(chosen) == PlanScore(strategy, rate, chosen)
           best == {chosen \in plans : \A other \in plans : Cost(chosen) <= Cost(other)}
           question == [of |-> "routing", quantity |-> quantity, strategy |-> strategy, stock |-> stock, rate |-> rate]
       IN IF Total(stock, 1..Spots) < quantity THEN Reply(question, Refused)
          ELSE \E chosen \in best : Reply(question, Taken(stock, chosen, quantity))

-----------------------------------------------------------------------------
(* Slotting, without the sidecar: the items by falling velocity, each with *)
(* the distance of its place.  A distance of zero is read as unknown.      *)
Unknown == 99
Read(distance) == IF distance = 0 THEN Unknown ELSE distance
Slower(items, mid, i) == items[mid].velocity < items[i].velocity

MinDistance(items) ==
  LET least[j \in DOMAIN items] ==
        IF j = Len(items) THEN Read(items[j].distance) ELSE Least(Read(items[j].distance), least[j + 1])
  IN least

(* two binary searches: the first item that is slower, the last suffix that has a nearer place *)
FirstSlower(items, i) ==
  LET search[left \in 1..Len(items) + 1, right \in 0..Len(items), found \in 0..Len(items)] ==
        LET mid == (left + right) \div 2
        IN IF left > right THEN found
           ELSE IF Slower(items, mid, i) THEN search[left, mid - 1, mid] ELSE search[mid + 1, right, found]
  IN search[i + 1, Len(items), 0]

LastNearer(items, i, first) ==
  LET search[left \in 1..Len(items) + 1, right \in 0..Len(items), found \in 0..Len(items)] ==
        LET mid == (left + right) \div 2
        IN IF left > right THEN found
           ELSE IF MinDistance(items)[mid] < Read(items[i].distance)
                THEN search[mid + 1, right, mid] ELSE search[left, mid - 1, found]
  IN search[first, Len(items), 0]

Swap(items, i) == LET first == FirstSlower(items, i)
                  IN IF first = 0 THEN 0 ELSE LastNearer(items, i, first)

Items == [velocity : Quantities, distance : Quantities]
Ranked == {items \in [1..Spots + 1 -> Items] : \A i \in 1..Spots : items[i].velocity >= items[i + 1].velocity}

OptimizeSlots ==
  /\ asked = Nothing
  /\ \E items \in Ranked : Reply([of |-> "slotting", items |-> items], [i \in DOMAIN items |-> Swap(items, i)])

-----------------------------------------------------------------------------
(* Cross-docking: arrivals line by line; backorders by falling priority.   *)
Products == {"a", "b"}
Lines == [product : Products, quantity : Asked]
Backorders == [product : Products, quantity : Asked, priority : {0, 1}]

Promises(line, backorders) ==
  LET matching == {b \in 1..Spots : backorders[b].product = line.product}
      First(b, d) == \/ backorders[b].priority > backorders[d].priority
                     \/ backorders[b].priority = backorders[d].priority /\ b < d
      Promise(plan, b) == LET give == Least(plan.left, backorders[b].quantity)
                          IN [left |-> plan.left - give, given |-> [plan.given EXCEPT ![b] = give]]
  IN FoldLeft(Promise, [left |-> line.quantity, given |-> [b \in 1..Spots |-> 0]],
              SetToSortSeq(matching, First))

EvaluateCrossDocking ==
  /\ asked = Nothing
  /\ \E lines \in Lines \X Lines, backorders \in [1..Spots -> Backorders] :
       Reply([of |-> "docking", lines |-> lines, backorders |-> backorders],
             [k \in DOMAIN lines |-> Promises(lines[k], backorders).given])

-----------------------------------------------------------------------------
(* Walking.  Aisles are known by the number in their name or the place of  *)
(* its letters in the alphabet, so that two names may stand for one number; *)
(* rack, shelf and bin, compared in this order, make one place.            *)
AisleIndex == [A |-> 1, A1 |-> 1, B |-> 2]
Warehouses == {"east", "west"}
Bins == [warehouse : Warehouses, aisle : DOMAIN AisleIndex, place : Asked]
Nowhere == [warehouse |-> "none", aisle |-> "none", place |-> 0]

(* up the odd aisles, down the even ones; sorting is stable *)
Precedes(bins, i, j) ==
  LET a == AisleIndex[bins[i].aisle]
      b == AisleIndex[bins[j].aisle]
      up == bins[i].place < bins[j].place
      down == bins[i].place > bins[j].place
  IN \/ a < b
     \/ a = b /\ (IF a % 2 = 1 THEN up ELSE down)
     \/ a = b /\ ~up /\ ~down /\ i < j

OptimizeRoute ==
  /\ asked = Nothing
  /\ \E bins \in [1..Spots + 1 -> Bins \union {Nowhere}] :
       Reply([of |-> "walk", bins |-> bins],
             IF Nowhere \in Range(bins) THEN Refused
             ELSE [w \in Warehouses |-> SetToSortSeq({i \in DOMAIN bins : bins[i].warehouse = w},
                                                    LAMBDA i, j : Precedes(bins, i, j))])

-----------------------------------------------------------------------------
(* The report.  The stock of a variant at the locations asked for is       *)
(* valued together, at what so many units of its layers cost, wherever     *)
(* they lie; a location gets its share at the cost of a unit in whole      *)
(* cents, and nothing if the layers do not have so many units.             *)
Costs == INSTANCE CostLayers WITH Variants <- {"a"}
LayersOf(batches) == [k \in DOMAIN batches |-> [Costs!NewLayer("a", batches[k].units, batches[k].cost)
                                               EXCEPT !.expiry = batches[k].expiry]]
Batches == [units : Asked, cost : {1, 4}, expiry : {1, 2}]

(* the weighted average needs no more than one unit to go by *)
Valued(method, layers, held) ==
  LET covered == IF method = "WAC" THEN Costs!Units(layers, "a") > 0 ELSE Costs!Covers(method, layers, "a", held)
  IN IF covered THEN Costs!CostOf(method, layers, "a", held) ELSE 0

GetStockValuationReport ==
  /\ asked = Nothing
  /\ \E method \in Costs!CostingMethods, stock \in [1..Spots -> Quantities], at \in {{1}, 1..Spots},
        batches \in UNION {[1..n -> Batches] : n \in 0..Spots} :
       LET held == Total(stock, at)
           unit == IF held = 0 THEN 0 ELSE Costs!Round(Valued(method, LayersOf(batches), held), held)
       IN Reply([of |-> "report", method |-> method, stock |-> stock, at |-> at, batches |-> batches],
                [s \in at |-> unit * stock[s]])

Next == \/ SuggestFefoPicking \/ SuggestPutaway \/ RouteOrder \/ OptimizeSlots \/ EvaluateCrossDocking
        \/ OptimizeRoute \/ GetStockValuationReport

Spec == Init /\ [][Next]_vars
-----------------------------------------------------------------------------
Of(what) == asked.of = what
Served == answer # Refused

(* The suggestion is the quantity asked, no more of a lot at a location    *)
(* than is there, and nothing of a lot while one that expires earlier has  *)
(* a unit left; it is refused only if the lots do not have the quantity.   *)
PicksSound ==
  Of("picking") =>
    LET active == {c \in DOMAIN asked.balance : c[1] \in Range(asked.layers) /\ asked.balance[c] > 0}
    IN IF Served
       THEN /\ Total(answer, DOMAIN answer) = asked.quantity
            /\ \A c \in DOMAIN answer : answer[c] > 0 => c \in active /\ answer[c] <= asked.balance[c]
            /\ \A c \in active, d \in DOMAIN answer : c[1] < d[1] /\ answer[d] > 0 => answer[c] = asked.balance[c]
       ELSE Total(asked.balance, active) < asked.quantity

(* Every unit gets a place that takes such goods and has room for them, but *)
(* for the 200000th part of one unit (nothing in grams for units under      *)
(* 200 kg); worse places only after the better are full; it is refused only *)
(* if the places that take them have no room for all.                       *)
PutawaySound ==
  Of("putaway") /\ answer # <<>> =>
    LET Room(s) == Fit(asked.goods, asked.locations[s], asked.quantity)
        right == {s \in 1..Spots : Eligible(asked.goods, asked.locations[s])}
    IN IF Served
       THEN /\ Total(answer, 1..Spots) = asked.quantity
            /\ \A s \in 1..Spots : answer[s] > 0 =>
                 /\ s \in right
                 /\ answer[s] * asked.goods.weight <= asked.locations[s].weight + Slack(asked.goods.weight)
                 /\ answer[s] * asked.goods.volume <= asked.locations[s].volume + Slack(asked.goods.volume)
            /\ \A s, t \in right : answer[t] > 0 /\ Better(asked.goods, asked.locations[s], asked.locations[t])
                 => answer[s] = Room(s)
       ELSE MapThenSumSet(Room, right) < asked.quantity

(* An order that the stock covers is routed, as a whole, from stock that   *)
(* is there; and MINIMIZE_SPLITS takes as few locations as can do it, as   *)
(* long as the carrier gives rates for all of them.                        *)
RoutesSound ==
  Of("routing") =>
    IF Served
    THEN LET used == {s \in 1..Spots : answer[s] > 0}
         IN /\ Total(answer, 1..Spots) = asked.quantity
            /\ \A s \in 1..Spots : 0 <= answer[s] /\ answer[s] <= asked.stock[s]
            /\ asked.strategy = "MINIMIZE_SPLITS" /\ NoRate \notin Range(asked.rate) =>
                 \A others \in SUBSET (1..Spots) :
                   Total(asked.stock, others) >= asked.quantity => Cardinality(used) <= Cardinality(others)
    ELSE Total(asked.stock, 1..Spots) < asked.quantity

(* A swap brings an item to the nearer place of a slower one, and it is    *)
(* suggested whenever there is such a place, unless one is at the origin.  *)
SwapsSound ==
  Of("slotting") /\ (\A i \in DOMAIN asked.items : asked.items[i].distance # 0) =>
    \A i \in DOMAIN answer :
      LET Gains(j) == /\ asked.items[j].velocity < asked.items[i].velocity
                      /\ asked.items[j].distance < asked.items[i].distance
      IN IF answer[i] = 0 THEN \A j \in DOMAIN answer : ~Gains(j) ELSE Gains(answer[i])

(* Of a line as much is promised as arrives and is on backorder, to the    *)
(* urgent first, and a backorder is promised at most its quantity, unless  *)
(* its product arrives on two lines.                                       *)
DockingSound ==
  Of("docking") =>
    LET Demand(line) == {b \in 1..Spots : asked.backorders[b].product = line.product}
        Wanted(line) == MapThenSumSet(LAMBDA b : asked.backorders[b].quantity, Demand(line))
        urgent(b, d) == asked.backorders[b].priority > asked.backorders[d].priority
    IN /\ \A k \in {1, 2} : Total(answer[k], 1..Spots) = Least(asked.lines[k].quantity, Wanted(asked.lines[k]))
       /\ \A k \in {1, 2} : \A b, d \in Demand(asked.lines[k]) :
            urgent(b, d) /\ answer[k][d] > 0 => answer[k][b] = asked.backorders[b].quantity
       /\ asked.lines[1].product # asked.lines[2].product =>
            \A b \in 1..Spots : answer[1][b] + answer[2][b] <= asked.backorders[b].quantity

(* The walk of a warehouse comes to each of its bins once, to every aisle  *)
(* once, passes the bins of an aisle in one direction, and comes back      *)
(* through the next aisle; it is refused only for a bin that is unknown.   *)
WalkSound ==
  Of("walk") =>
    IF ~Served THEN Nowhere \in Range(asked.bins)
    ELSE \A w \in Warehouses :
           LET walk == answer[w]
               aisle == [p \in DOMAIN walk |-> AisleIndex[asked.bins[walk[p]].aisle]]
               place == [p \in DOMAIN walk |-> asked.bins[walk[p]].place]
           IN /\ IsInjective(walk) /\ Range(walk) = {i \in DOMAIN asked.bins : asked.bins[i].warehouse = w}
              /\ \A p, q \in DOMAIN walk : p < q => aisle[p] <= aisle[q]
              /\ \A p, q, r, s \in DOMAIN walk :
                   p < q /\ r < s /\ aisle[p] = aisle[q] /\ aisle[r] = aisle[s] /\ place[p] < place[q] =>
                     /\ aisle[r] = aisle[p] => place[r] <= place[s]
                     /\ aisle[r] = aisle[p] + 1 => place[r] >= place[s]

(* The report is what the units of stock cost, each at its own price, the  *)
(* first in the order of the method first, up to half a cent for each; and *)
(* a unit is worth the same wherever it lies.                              *)
ReportSound ==
  Of("report") =>
    LET layers == LayersOf(asked.batches)
        order == Costs!InOrder(asked.method, layers, "a")
        prices == FlattenSeq([k \in DOMAIN order |-> [u \in 1..layers[order[k]].initial |-> layers[order[k]].cost]])
        held == Total(asked.stock, asked.at)
        average == Costs!Round(held * Total(prices, DOMAIN prices), Len(prices))
        worth == IF asked.method = "WAC" THEN average ELSE Total(prices, 1..held)
        drift == Total(answer, asked.at) - worth
    IN IF Len(prices) >= held /\ held > 0
       THEN /\ 2 * drift <= held /\ 0 - held <= 2 * drift
            /\ \A s, t \in asked.at : answer[s] * asked.stock[t] = answer[t] * asked.stock[s]
       ELSE asked.method = "WAC" \/ Total(answer, asked.at) = 0

PlansAreSound == WalkSound /\ ReportSound /\ PicksSound /\ PutawaySound /\ RoutesSound /\ SwapsSound /\ DockingSound
=============================================================================
