---------------------------- MODULE ExternalBooks ----------------------------
(***************************************************************************)
(* What is kept outside, and the audit that compares it: journal entries   *)
(* copied to the accounting systems (ManageJournals.ts,                    *)
(* SyncJournalListeners.ts, AccountingSyncService.ts), the stock levels at *)
(* Shopify (ShopifyStockSyncHandler.ts), and AuditProcessorService.ts with *)
(* its table of discrepancies.                                             *)
(*                                                                         *)
(* An audit is run by a timer in each process that starts AuditWorker, and *)
(* by the mutation runAudit.  The event bus swallows what a handler        *)
(* throws, so a handler that fails is one that stops.                      *)
(***************************************************************************)
EXTENDS Integers, SequencesExt

CONSTANTS Journals,  \* ids of journal entries
          Systems,   \* the sequence of NetSuite, Xero and QuickBooks
          Places,    \* a variant at a location, mapped to Shopify
          Auditors,  \* runs of the audit that may overlap
          Handlers,  \* events in the hands of the bus at once
          MaxLevel,  \* bound: stock of a place
          MaxFound,  \* bound: rows of audit_discrepancies
          MaxPosts   \* bound: entries of one journal in one system

VARIABLES journals,  \* "none", "recent", or "old" (more than 7 days)
          mapped,    \* per system the journals with a row in its mapping table
          posted,    \* per system and journal, the entries it has been sent
          handler,   \* the events being handled
          level,     \* per place the sum of the ledger and the quantity at Shopify
          found,     \* the table audit_discrepancies, in the order of creation
          audit,     \* the audits under way and what they have read
          covered,   \* history: what an audit has reported or found reported, until it is resolved
          excused    \* history: journals whose events overlapped or whose mapping was not saved;
                     \* "audits" once two audits have overlapped

vars == <<journals, mapped, posted, handler, level, found, audit, covered, excused>>

Kept == {Systems[i] : i \in DOMAIN Systems}
Free == [of |-> "none", i |-> 0, pc |-> "free", qty |-> 0]
NoAudit == [pc |-> "off", shopify |-> <<>>, refs |-> {}, mapped |-> {}, open |-> {}, gone |-> {}]
Unknown == -1

Init == /\ journals = [j \in Journals |-> "none"]
        /\ mapped = [s \in Kept |-> {}]
        /\ posted = [s \in Kept |-> [j \in Journals |-> 0]]
        /\ handler = [h \in Handlers |-> Free]
        /\ level = [p \in Places |-> [local |-> 0, shopify |-> 0]]
        /\ found = <<>> /\ audit = [a \in Auditors |-> NoAudit] /\ covered = {} /\ excused = {}

(*------------------------------- journals -------------------------------*)
InHands(x) == \E h \in Handlers : handler[h].of = x

(* CreateJournalEntry saves an entry, or again one of the same id, and publishes it *)
CreateJournalEntry(j, h) ==
  /\ handler[h].pc = "free" /\ journals[j] \in {"none", "recent"}
  /\ journals' = [journals EXCEPT ![j] = "recent"]
  /\ handler' = [handler EXCEPT ![h] = [of |-> j, i |-> 1, pc |-> "find", qty |-> 0]]
  /\ excused' = IF InHands(j) THEN excused \union {j} ELSE excused
  /\ UNCHANGED <<mapped, posted, level, found, audit, covered>>

(* returns, kits and write-offs save theirs through the repository alone; so does, in effect, *)
(* a process that stops before it publishes                                                   *)
SaveSilently(j) == /\ journals[j] = "none"
                   /\ journals' = [journals EXCEPT ![j] = "recent"]
                   /\ UNCHANGED <<mapped, posted, handler, level, found, audit, covered, excused>>

(* seven days later *)
Age(j) == /\ journals[j] = "recent" /\ ~InHands(j)
          /\ journals' = [journals EXCEPT ![j] = "old"]
          /\ UNCHANGED <<mapped, posted, handler, level, found, audit, covered, excused>>

NextSystem(h) == IF handler[h].i = Len(Systems) THEN Free
                 ELSE [handler[h] EXCEPT !.i = @ + 1, !.pc = "find"]
Goes(h, to) == handler' = [handler EXCEPT ![h] = to]
At(h, pc) == handler[h].pc = pc /\ handler[h].of \in Journals

(* a bug: the mapping is not looked up *)
NeedsAlways(j, s) == j \in Journals
Needs(j, s) == j \notin mapped[s]

FindMapping(h) ==
  /\ At(h, "find")
  /\ Goes(h, IF Needs(handler[h].of, Systems[handler[h].i])
             THEN [handler[h] EXCEPT !.pc = "post"] ELSE NextSystem(h))
  /\ UNCHANGED <<journals, mapped, posted, level, found, audit, covered, excused>>

PostJournal(h) ==
  /\ At(h, "post") /\ posted[Systems[handler[h].i]][handler[h].of] < MaxPosts
  /\ posted' = [posted EXCEPT ![Systems[handler[h].i]][handler[h].of] = @ + 1]
  /\ Goes(h, [handler[h] EXCEPT !.pc = "save"])
  /\ UNCHANGED <<journals, mapped, level, found, audit, covered, excused>>

SaveMapping(h) ==
  /\ At(h, "save")
  /\ mapped' = [mapped EXCEPT ![Systems[handler[h].i]] = @ \union {handler[h].of}]
  /\ Goes(h, NextSystem(h))
  /\ UNCHANGED <<journals, posted, level, found, audit, covered, excused>>

(* each system has a try of its own; what was posted may stay without a mapping *)
SyncFails(h) ==
  /\ \E pc \in {"find", "post", "save"} : At(h, pc)
  /\ Goes(h, NextSystem(h))
  /\ excused' = IF handler[h].pc = "save" THEN excused \union {handler[h].of} ELSE excused
  /\ UNCHANGED <<journals, mapped, posted, level, found, audit, covered>>

(*---------------------------- stock at Shopify --------------------------*)
Trade(p, side) ==
  \E q \in 0..MaxLevel : /\ q # level[p][side]
                         /\ level' = [level EXCEPT ![p][side] = q]
                         /\ UNCHANGED <<journals, mapped, posted, handler, found, audit, covered, excused>>

(* ShopifyStockSyncHandler: the ledger is summed, then the quantity is set *)
SumForPush(h) ==
  /\ handler[h].pc = "sum"
  /\ Goes(h, [handler[h] EXCEPT !.pc = "push", !.qty = level[handler[h].of].local])
  /\ UNCHANGED <<journals, mapped, posted, level, found, audit, covered, excused>>

Push(h) ==
  /\ handler[h].pc = "push"
  /\ level' = [level EXCEPT ![handler[h].of].shopify = handler[h].qty]
  /\ Goes(h, Free)
  /\ UNCHANGED <<journals, mapped, posted, found, audit, covered, excused>>

(* the event is lost: the outbox counts it as processed once it is published *)
PushFails(h) == /\ handler[h].pc \in {"sum", "push"}
                /\ Goes(h, Free)
                /\ UNCHANGED <<journals, mapped, posted, level, found, audit, covered, excused>>

(*------------------------------- the audit ------------------------------*)
Open == {found[k].of : k \in {m \in DOMAIN found : found[m].status = "OPEN"}}
OnRecord == Open
Turn(a, entry) == audit' = [audit EXCEPT ![a] = entry]
AuditOnly == UNCHANGED <<journals, mapped, posted, handler, level, found, covered, excused>>

(* Shopify's answer for each place: its quantity, or none (the request failed) *)
FetchLevels(a) ==
  \E known \in SUBSET Places :
    /\ audit[a].pc = "off"
    /\ Turn(a, [NoAudit EXCEPT !.pc = "sums",
          !.shopify = [p \in Places |-> IF p \in known THEN level[p].shopify ELSE Unknown]])
    /\ excused' = IF \E b \in Auditors : audit[b].pc # "off" THEN excused \union {"audits"} ELSE excused
    /\ UNCHANGED <<journals, mapped, posted, handler, level, found, covered>>

(* what Shopify did not tell counts as equal *)
Differs(shopify, local) == shopify # Unknown /\ shopify # local

SumLedger(a) == /\ audit[a].pc = "sums"
                /\ Turn(a, [audit[a] EXCEPT !.pc = "openStock", !.refs =
                      {p \in Places : Differs(audit[a].shopify[p], level[p].local)}])
                /\ AuditOnly

ReadOpen(a, from, to) == /\ audit[a].pc = from
                               /\ Turn(a, [audit[a] EXCEPT !.pc = to, !.open = OnRecord, !.gone = {}])
                               /\ AuditOnly

Discrepancy(x) == [of |-> x, status |-> "OPEN"]

(* createMany of what is wrong and not on record as open *)
Missing(a) == (audit[a].refs \ audit[a].mapped) \ audit[a].open
Record(a, from, to) ==
  /\ audit[a].pc = from /\ Len(found) + Cardinality(Missing(a)) <= MaxFound
  /\ \E rows \in SetToSeqs(Missing(a)) :
       found' = found \o [k \in DOMAIN rows |-> Discrepancy(rows[k])]
  /\ covered' = covered \union ((audit[a].refs \ audit[a].mapped) \ audit[a].gone)
  /\ Turn(a, IF to = "off" THEN NoAudit ELSE [NoAudit EXCEPT !.pc = to])
  /\ UNCHANGED <<journals, mapped, posted, handler, level, excused>>

ReadJournals(a) == /\ audit[a].pc = "journals"
                   /\ Turn(a, [audit[a] EXCEPT !.pc = "mappings",
                         !.refs = {j \in Journals : journals[j] = "recent"}])
                   /\ AuditOnly

(* one query per system; mappings are never deleted, so the last answer is the one that counts *)
Mappings == UNION {mapped[s] : s \in Kept}
ReadMappings(a) == /\ audit[a].pc = "mappings"
                   /\ Turn(a, [audit[a] EXCEPT !.pc = "openJournals",
                         !.mapped = Mappings])
                   /\ AuditOnly

AuditFails(a) == /\ audit[a].pc # "off"
                 /\ Turn(a, NoAudit)
                 /\ AuditOnly

(* the discrepancy is read, then written whatever its status is by then, with an event for stock: *)
(* a second resolution at once adds nothing but a second event                                    *)
Resolve(k, h) ==
  LET x == found[k].of IN
  /\ found[k].status = "OPEN"
  /\ found' = [found EXCEPT ![k].status = "RESOLVED"]
  /\ covered' = covered \ {x}
  /\ audit' = [a \in Auditors |-> IF audit[a].open = {} THEN audit[a]
                                    ELSE [audit[a] EXCEPT !.gone = @ \union {x}]]
  /\ IF x \in Places
     THEN /\ handler[h].pc = "free"
          /\ Goes(h, [of |-> x, i |-> 0, pc |-> "sum", qty |-> 0])
     ELSE UNCHANGED handler
  /\ UNCHANGED <<journals, mapped, posted, level, excused>>

Audit(a) == \/ FetchLevels(a) \/ SumLedger(a) \/ ReadOpen(a, "openStock", "stock")
            \/ Record(a, "stock", "journals") \/ ReadJournals(a) \/ ReadMappings(a)
            \/ ReadOpen(a, "openJournals", "missing") \/ Record(a, "missing", "off") \/ AuditFails(a)

Handle(h) == \/ FindMapping(h) \/ PostJournal(h) \/ SaveMapping(h) \/ SyncFails(h)
             \/ SumForPush(h) \/ Push(h) \/ PushFails(h)
             \/ \E j \in Journals : CreateJournalEntry(j, h)
             \/ \E k \in DOMAIN found : Resolve(k, h)

Next == \/ \E a \in Auditors : Audit(a)
        \/ \E h \in Handlers : Handle(h)
        \/ \E j \in Journals : SaveSilently(j) \/ Age(j)
        \/ \E p \in Places, side \in {"local", "shopify"} : Trade(p, side)

Spec == Init /\ [][Next]_vars
-----------------------------------------------------------------------------
(* What an audit found wrong is on record as open until somebody resolves  *)
(* it: a difference that an earlier, resolved row was about is recorded    *)
(* anew, and a journal drops out only by getting a mapping.                *)
ReportsAreComplete ==
  \A x \in covered : x \in Open \/ \E s \in Kept : x \in mapped[s]

(* Unless audits have overlapped, nothing is on record as open twice.      *)
OpenOnce ==
  "audits" \notin excused =>
    \A k, m \in DOMAIN found :
      k # m /\ found[k].of = found[m].of => "RESOLVED" \in {found[k].status, found[m].status}

(* No accounting system gets a journal entry twice, unless two events of   *)
(* the entry were handled at once, or what was posted got no mapping.      *)
PostedOnce ==
  \A s \in Kept, j \in Journals \ excused : posted[s][j] <= 1

AuditsAreSound == ReportsAreComplete /\ OpenOnce

BooksSound == AuditsAreSound /\ PostedOnce
=============================================================================
