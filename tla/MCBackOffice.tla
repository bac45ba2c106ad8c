---------------------------- MODULE MCBackOffice ----------------------------
(***************************************************************************)
(* The parts of the system that stand beside the flow of stock, each       *)
(* checked on an instance of its own: a behaviour is one of one part, and  *)
(* the variables of the other parts hold nothing.                          *)
(***************************************************************************)
EXTENDS StockCounter, TenantRegistry, Sequences, TLC

CONSTANTS x1, x2, x3, x4,  \* ids of which it does not matter which is which
          sn1, sn2, s1, h1, h2, a1, a2, j1, p1, missing, unread

VARIABLES part,
          item, expensed, serialLedger, serialCall, serialPc, serialCopy, serialHalted, silent, stale,
          rules, doc, onHand, reserved, inTransit, ruleCall, rulePc, ruleCopy, doubled,
          cache, client, request, sweep, server, collided,
          journals, mapped, posted, handler, level, found, audit, covered, excused,
          onboarding, ledger, openingCall, late, overlapped,
          rows, last, barcodeCall, clashed,
          config, unitCall, removed,
          asked, answer,
          users, role, held, roleCall, meant, due, crossed,
          lotRow, lotEntries, lotLayers, batch, lotCall, lotPc, lotRead, lotHalted

serialVars == <<item, expensed, serialLedger, serialCall, serialPc, serialCopy, serialHalted, silent, stale>>
ruleVars == <<rules, doc, onHand, reserved, inTransit, ruleCall, rulePc, ruleCopy, doubled>>
poolVars == <<cache, client, request, sweep, server, collided>>
bookVars == <<journals, mapped, posted, handler, level, found, audit, covered, excused>>
openingVars == <<onboarding, ledger, openingCall, late, overlapped>>
barcodeVars == <<rows, last, barcodeCall, clashed>>
unitVars == <<config, unitCall, removed>>
planVars == <<asked, answer>>
roleVars == <<users, role, held, roleCall, meant, due, crossed>>
lotVars == <<lotRow, lotEntries, lotLayers, batch, lotCall, lotPc, lotRead, lotHalted>>
counterVars == <<state, sent>>

(* four calls on one serial number that has a cost layer, or on another that has none *)
SerialCommands ==
    [op : {"receive", "sell", "return", "restock", "writeOff", "rmaRestock",
           "rmaQuarantine", "rmaScrap"}, serial : {sn1}]
    \cup [op : {"receive", "writeOff"}, serial : {sn2}]

Serials == INSTANCE SerializedItems
    WITH Serials <- {sn1, sn2}, Costed <- {sn1}, Requests <- {x1, x2, x3, x4},
         Commands <- SerialCommands, MaxCrashes <- 1,
         ledger <- serialLedger, call <- serialCall, pc <- serialPc, copy <- serialCopy, halted <- serialHalted,
         Absent <- missing, None <- unread

(* three calls about one spot, whose rule orders three pieces when fewer than one or two are left *)
SpotRules ==
    {[kind |-> "supplier", point |-> 1, quantity |-> 3, active |-> TRUE, dynamic |-> TRUE],
     [kind |-> "transfer", point |-> 1, quantity |-> 3, active |-> TRUE, dynamic |-> FALSE]}
RuleCommands ==
    [op : {"evaluate"}] \cup [op : {"toggle"}, spot : {s1}, on : BOOLEAN]
    \cup [op : {"create"}, spot : {s1},
          rule : SpotRules \cup {[kind |-> "supplier", point |-> 0, quantity |-> 0,
                                   active |-> TRUE, dynamic |-> TRUE]}]

Rules == INSTANCE Replenishment
    WITH Spots <- {s1}, Catalogued <- {s1}, Rules <- SpotRules, Requests <- {x1, x2, x3},
         Commands <- RuleCommands, MaxDocs <- 3, MaxStock <- 0, MaxReserved <- 1, Points <- {2},
         call <- ruleCall, pc <- rulePc, copy <- ruleCopy,
         Absent <- missing, None <- unread

(* one tenant that comes and goes at the hands of one call; or three that are what they are *)
Pool == INSTANCE TenantPool
    WITH Tenants <- {"t1"}, Calls <- {"c1"}, Requests <- {"r1", "r2"}, MaxSize <- 1, MaxClients <- 2
CrowdedPool == INSTANCE TenantPool
    WITH Tenants <- {x1, x2, x3}, Calls <- {}, Requests <- {"r1", "r2"}, MaxSize <- 1, MaxClients <- 3

StandingTenants ==
  /\ \E status \in [{x1, x2, x3} -> {"ACTIVE", "DEPROVISIONED"}] :
       registry = status @@ [t \in Tenants |-> "NONE"]
  /\ database = [t \in DOMAIN registry |-> IF registry[t] = "ACTIVE" THEN "seeded" ELSE "none"]
  /\ call = [c \in Calls |-> Idle] /\ halted = {} /\ raced = {} /\ astray = {}

(* two audits of the stock at one place; two of the journal; two events of a journal and an audit *)
Stock == INSTANCE ExternalBooks
    WITH Journals <- {}, Systems <- <<"quickbooks", "xero">>, Places <- {p1}, Auditors <- {a1, a2},
         Handlers <- {h1}, MaxLevel <- 1, MaxFound <- 2, MaxPosts <- 1
Journal == INSTANCE ExternalBooks
    WITH Journals <- {j1}, Systems <- <<"quickbooks", "xero">>, Places <- {}, Auditors <- {a1, a2},
         Handlers <- {h1}, MaxLevel <- 1, MaxFound <- 2, MaxPosts <- 1
JournalTwice == INSTANCE ExternalBooks
    WITH Journals <- {j1}, Systems <- <<"quickbooks", "xero">>, Places <- {}, Auditors <- {a1},
         Handlers <- {h1, h2}, MaxLevel <- 1, MaxFound <- 2, MaxPosts <- 2

(* two onboardings of one variant; one of two variants *)
Openings == INSTANCE Onboarding
    WITH Onboardings <- {"o1", "o2"}, Variants <- {"v1"}, Calls <- {"c1", "c2"}, MaxEntries <- 2,
         call <- openingCall
WideOpening == INSTANCE Onboarding
    WITH Onboardings <- {"o1"}, Variants <- {"v1", "v2"}, Calls <- {"c1", "c2"}, MaxEntries <- 2,
         call <- openingCall

Barcode == INSTANCE Barcodes
    WITH Skus <- {"s1"}, Values <- {"x", "y", "z"}, Calls <- {"c1", "c2"}, MaxIds <- 3,
         call <- barcodeCall
Unit == INSTANCE Units
    WITH UnitNames <- {"piece", "box"}, Calls <- {"c1", "c2"}, call <- unitCall
Plan == INSTANCE Planning WITH Spots <- 2, MaxQty <- 2
Role == INSTANCE Roles
    WITH Users <- {"u1"}, BuiltIn <- {"viewer"}, Custom <- {"custom"}, Permissions <- {"a"},
         Calls <- {"c1", "c2"}, call <- roleCall

(* three calls about two lots; some of what is sent is refused on the way *)
NoLot == "no lot"
LotCommands ==
    {[op |-> "receive", lot |-> l, amount |-> n, cost |-> 1] :
        <<l, n>> \in {<<"l1", 2>>, <<"l2", 1>>, <<NoLot, 1>>, <<"l1", 0>>}}
    \cup {[op |-> "receive", lot |-> "l1", amount |-> 1, cost |-> 0 - 1], [op |-> "dispatch", amount |-> 1]}
    \cup [op : {"quarantine", "recall", "release"}, lot : {"l1"}]

Lot == INSTANCE Lots
    WITH LowStockThreshold <- 1, LotNumbers <- {"l1", "l2"}, Calls <- {x1, x2, x3},
         Commands <- LotCommands, Capacity <- 3, MaxStops <- 2, Missing <- missing,
         row <- lotRow, entries <- lotEntries, layers <- lotLayers, call <- lotCall, pc <- lotPc,
         loaded <- lotRead, halted <- lotHalted

Nothing == "nothing"

BackOfficeInit ==
  /\ part \in {"serials", "rules", "registry", "pool", "crowded pool", "stock", "journal", "journal twice",
               "openings", "wide opening", "barcodes", "units", "plans", "roles", "lots", "counter"}
  /\ IF part = "serials" THEN Serials!Init
     ELSE /\ item = Nothing /\ expensed = Nothing /\ serialLedger = Nothing /\ serialCall = Nothing
          /\ serialPc = Nothing /\ serialCopy = Nothing /\ serialHalted = Nothing /\ silent = Nothing /\ stale = Nothing
  /\ IF part = "rules" THEN Rules!Init
     ELSE /\ rules = Nothing /\ doc = Nothing /\ onHand = Nothing /\ reserved = Nothing /\ inTransit = Nothing
          /\ ruleCall = Nothing /\ rulePc = Nothing /\ ruleCopy = Nothing /\ doubled = Nothing
  /\ IF part = "crowded pool" THEN StandingTenants ELSE RegistryInit
  /\ IF part \in {"pool", "crowded pool"} THEN Pool!PoolInit
     ELSE /\ cache = Nothing /\ client = Nothing /\ request = Nothing
          /\ sweep = Nothing /\ server = Nothing /\ collided = Nothing
  /\ CASE part = "stock" -> Stock!Init
       [] part = "journal" -> Journal!Init
       [] part = "journal twice" -> JournalTwice!Init
       [] OTHER -> /\ journals = Nothing /\ mapped = Nothing /\ posted = Nothing /\ handler = Nothing
                   /\ level = Nothing /\ found = Nothing /\ audit = Nothing /\ covered = Nothing
                   /\ excused = Nothing
  /\ CASE part = "openings" -> Openings!Init
       [] part = "wide opening" -> WideOpening!Init
       [] OTHER -> /\ onboarding = Nothing /\ ledger = Nothing /\ openingCall = Nothing
                   /\ late = Nothing /\ overlapped = Nothing
  /\ IF part = "barcodes" THEN Barcode!Init
     ELSE rows = Nothing /\ last = Nothing /\ barcodeCall = Nothing /\ clashed = Nothing
  /\ IF part = "units" THEN Unit!Init
     ELSE config = Nothing /\ unitCall = Nothing /\ removed = Nothing
  /\ IF part = "plans" THEN Plan!Init ELSE asked = Nothing /\ answer = Nothing
  /\ IF part = "roles" THEN Role!Init
     ELSE /\ users = Nothing /\ role = Nothing /\ held = Nothing /\ roleCall = Nothing
          /\ meant = Nothing /\ due = Nothing /\ crossed = Nothing
  /\ IF part = "lots" THEN Lot!Init
     ELSE /\ lotRow = Nothing /\ lotEntries = Nothing /\ lotLayers = Nothing /\ batch = Nothing
          /\ lotCall = Nothing /\ lotPc = Nothing /\ lotRead = Nothing /\ lotHalted = Nothing
  /\ Init

ButSerials == UNCHANGED <<part, ruleVars, registryVars, poolVars, bookVars, openingVars, barcodeVars,
                          unitVars, planVars, roleVars, lotVars, counterVars>>
ButRules == UNCHANGED <<part, serialVars, registryVars, poolVars, bookVars, openingVars, barcodeVars,
                        unitVars, planVars, roleVars, lotVars, counterVars>>
ButTenants == UNCHANGED <<part, serialVars, ruleVars, bookVars, openingVars, barcodeVars,
                          unitVars, planVars, roleVars, lotVars, counterVars>>
ButBooks == UNCHANGED <<part, serialVars, ruleVars, registryVars, poolVars, openingVars, barcodeVars,
                        unitVars, planVars, roleVars, lotVars, counterVars>>
ButOpenings == UNCHANGED <<part, serialVars, ruleVars, registryVars, poolVars, bookVars, barcodeVars,
                           unitVars, planVars, roleVars, lotVars, counterVars>>
ButBarcodes == UNCHANGED <<part, serialVars, ruleVars, registryVars, poolVars, bookVars, openingVars,
                           unitVars, planVars, roleVars, lotVars, counterVars>>
ButUnits == UNCHANGED <<part, serialVars, ruleVars, registryVars, poolVars, bookVars, openingVars,
                        barcodeVars, planVars, roleVars, lotVars, counterVars>>
ButPlans == UNCHANGED <<part, serialVars, ruleVars, registryVars, poolVars, bookVars, openingVars,
                        barcodeVars, unitVars, roleVars, lotVars, counterVars>>
ButRoles == UNCHANGED <<part, serialVars, ruleVars, registryVars, poolVars, bookVars, openingVars,
                        barcodeVars, unitVars, planVars, lotVars, counterVars>>
ButCounter == UNCHANGED <<part, serialVars, ruleVars, registryVars, poolVars, bookVars, openingVars,
                          barcodeVars, unitVars, planVars, roleVars, lotVars>>
ButLots == UNCHANGED <<part, serialVars, ruleVars, registryVars, poolVars, bookVars, openingVars,
                       barcodeVars, unitVars, planVars, roleVars, counterVars>>

BackOfficeNext ==
  \/ part = "serials" /\ Serials!Next /\ ButSerials
  \/ part = "rules" /\ Rules!Next /\ ButRules
  \/ part = "registry" /\ RegistryNext /\ ButTenants /\ UNCHANGED poolVars
  \/ part = "pool" /\ Pool!Next /\ ButTenants
  \/ part = "crowded pool" /\ CrowdedPool!Next /\ ButTenants
  \/ part = "stock" /\ Stock!Next /\ ButBooks
  \/ part = "journal" /\ Journal!Next /\ ButBooks
  \/ part = "journal twice" /\ JournalTwice!Next /\ ButBooks
  \/ part = "openings" /\ Openings!Next /\ ButOpenings
  \/ part = "wide opening" /\ WideOpening!Next /\ ButOpenings
  \/ part = "barcodes" /\ Barcode!Next /\ ButBarcodes
  \/ part = "units" /\ Unit!Next /\ ButUnits
  \/ part = "plans" /\ Plan!Next /\ ButPlans
  \/ part = "roles" /\ Role!Next /\ ButRoles
  \/ part = "lots" /\ Lot!Next /\ ButLots
  \/ part = "counter" /\ Next /\ ButCounter

BackOfficeSpec == BackOfficeInit /\ [][BackOfficeNext]_<<part, serialVars, ruleVars, registryVars, poolVars, bookVars,
  openingVars, barcodeVars, unitVars, planVars, roleVars, lotVars, counterVars>>
-----------------------------------------------------------------------------
(* The properties of the parts, as their modules state them. *)

(* The history of a serial number is a path of its lifecycle, and the      *)
(* ledger says what the history says, unless a call overwrote another.     *)
SerialsTraced == part = "serials" => Serials!HistoryIsPath /\ Serials!LedgerFollowsHistory

(* A serial number that is written off stays so, and is booked as a loss.  *)
WrittenOffStays ==
  [][part = "serials" => Serials!KeepsWriteOffs]_serialVars

(* Replenishment orders no more than its rule, once per evaluation.        *)
PipelineBounded == part = "rules" => Rules!PipelineBounded

(* The pool stays small, and what it forgets is closed.                    *)
PoolAccounted ==
  /\ part = "pool" => Pool!PoolAccounted
  /\ part = "crowded pool" => CrowdedPool!PoolAccounted

(* What an audit finds is on record, once, until it is resolved; and no    *)
(* accounting system gets a journal entry twice.                           *)
BooksSound ==
  /\ part = "stock" => Stock!BooksSound
  /\ part = "journal" => Journal!BooksSound
  /\ part = "journal twice" => JournalTwice!BooksSound

(* Opening balances come first, as a whole, and lock their onboarding.     *)
OnboardingSound ==
  /\ part = "openings" => Openings!OnboardingSound
  /\ part = "wide opening" => WideOpening!OnboardingSound

(* A variant with barcodes has one primary barcode; purchases and sales    *)
(* are in units that convert to the base unit.                             *)
CatalogSound ==
  /\ part = "barcodes" => Barcode!OnePrimary
  /\ part = "units" => Unit!UnitsConvert

(* Every plan is one that a check without the algorithm accepts.           *)
PlansAreSound == part = "plans" => Plan!PlansAreSound

(* A role permits what it was last given, and nobody loses one to a deletion. *)
RolesSound == part = "roles" => Role!RolesSound

(* No lot is lost between stock, ledger and layers; sales are of no lot.   *)
LotsTraced == part = "lots" => Lot!LotsTraced

Symmetry == Permutations({x1, x2, x3, x4})
=============================================================================
