----------------------------- MODULE Onboarding -----------------------------
(***************************************************************************)
(* Opening balances: the drafts of a location's first stock                *)
(* (StockOnboarding, ManageOnboardings.ts) and the ledger they are posted  *)
(* to (OpeningBalanceService.ts).  A submission saves the onboarding as    *)
(* submitted, asks the ledger whether it has entries of the variants, and  *)
(* appends the opening entries: three round trips, and other calls may     *)
(* fall between them.                                                      *)
(*                                                                         *)
(* One location.  Of a quantity only matters whether it is zero.           *)
(***************************************************************************)
EXTENDS Naturals, Sequences

CONSTANTS Onboardings, \* ids; their order of creation does not matter
          Variants,
          Calls,       \* requests that may overlap
          MaxEntries   \* bound: entries of a variant in the ledger

VARIABLES onboarding, \* the table stock_onboardings with its items
          ledger,     \* per variant its entries: "other" or the onboarding it opens with
          call,       \* the requests: the aggregate they loaded, and their step
          late,       \* history: variants an entry came for between a check and its append
          overlapped  \* history: onboardings two calls have worked on at once

vars == <<onboarding, ledger, call, late, overlapped>>

Quantities == {"none", "zero", "some"}
NoItems == [v \in Variants |-> "none"]
Absent == [status |-> "absent", items |-> NoItems]
Idle == [pc |-> "idle", of |-> "none", copy |-> Absent]

Init == /\ onboarding = [o \in Onboardings |-> Absent]
        /\ ledger = [v \in Variants |-> <<>>]
        /\ call = [c \in Calls |-> Idle]
        /\ late = {} /\ overlapped = {}

ItemsOf(row) == {v \in Variants : row.items[v] # "none"}
Goes(c, step) == call' = [call EXCEPT ![c].pc = step]

(* save: the row and all of its items are replaced, in a transaction *)
Save(o, row) == onboarding' = [onboarding EXCEPT ![o] = row]

Create(o) ==
  /\ onboarding[o] = Absent
  /\ Save(o, [Absent EXCEPT !.status = "draft"])
  /\ UNCHANGED <<ledger, call, late, overlapped>>

(* findById restores the status first and then the items with setItem, which throws *)
(* when the onboarding is no draft                                                  *)
Loads(row) == row.status = "draft" \/ (row.status # "absent" /\ ItemsOf(row) = {})

FindById(c, o) ==
  /\ call[c].pc = "idle" /\ Loads(onboarding[o])
  /\ call' = [call EXCEPT ![c] = [pc |-> "loaded", of |-> o, copy |-> onboarding[o]]]
  /\ overlapped' = IF \E d \in Calls : call[d].of = o THEN overlapped \union {o} ELSE overlapped
  /\ UNCHANGED <<onboarding, ledger, late>>

(* the items given replace those of the same variant; the row is written as it was read *)
SaveItems(c, items) ==
  LET row == [call[c].copy EXCEPT !.items =
                [v \in Variants |-> IF items[v] = "none" THEN @[v] ELSE items[v]]]
  IN /\ call[c].pc = "loaded" /\ row.status = "draft"
     /\ Save(call[c].of, row)
     /\ call' = [call EXCEPT ![c] = Idle]
     /\ UNCHANGED <<ledger, late, overlapped>>

Submit(c) ==
  /\ call[c].pc = "loaded" /\ call[c].copy.status = "draft" /\ ItemsOf(call[c].copy) # {}
  /\ Save(call[c].of, [call[c].copy EXCEPT !.status = "submitted"])
  /\ Goes(c, "check")
  /\ UNCHANGED <<ledger, late, overlapped>>

(* a bug: only opening entries count *)
HasOpening(v) == \E i \in DOMAIN ledger[v] : ledger[v][i] \in Onboardings
(* hasAnyEntriesBatch: entries of any kind *)
HasEntries(v) == ledger[v] # <<>>

Check(c) ==
  /\ call[c].pc = "check"
  /\ IF \E v \in ItemsOf(call[c].copy) : HasEntries(v)
     THEN call' = [call EXCEPT ![c] = Idle]  \* OpeningBalanceConflictError; the row stays submitted
     ELSE Goes(c, "post")
  /\ UNCHANGED <<onboarding, ledger, late, overlapped>>

Awaited(v, except) == \E c \in Calls \ except : call[c].pc = "post" /\ v \in ItemsOf(call[c].copy)
Late(variants, except) == late' = late \union {v \in variants : Awaited(v, except)}

(* one createMany; an entry of quantity zero is refused when it is built, before it *)
Post(c) ==
  LET items == ItemsOf(call[c].copy)
  IN /\ call[c].pc = "post" /\ \A v \in items : Len(ledger[v]) < MaxEntries
     /\ IF \E v \in items : call[c].copy.items[v] = "zero"
        THEN UNCHANGED <<ledger, late>>
        ELSE /\ ledger' = [v \in Variants |-> IF v \in items THEN Append(ledger[v], call[c].of)
                                                             ELSE ledger[v]]
             /\ Late(items, {c})
     /\ call' = [call EXCEPT ![c] = Idle]
     /\ UNCHANGED <<onboarding, overlapped>>

(* a query fails, or the process stops *)
Stop(c) == /\ call[c].pc # "idle"
           /\ call' = [call EXCEPT ![c] = Idle]
           /\ UNCHANGED <<onboarding, ledger, late, overlapped>>

(* receipts, adjustments, sales: any other entry of the location *)
OtherEntry(v) == /\ Len(ledger[v]) < MaxEntries
                 /\ ledger' = [ledger EXCEPT ![v] = Append(@, "other")]
                 /\ Late({v}, {})
                 /\ UNCHANGED <<onboarding, call, overlapped>>

Next == \/ \E o \in Onboardings : Create(o)
        \/ \E v \in Variants : OtherEntry(v)
        \/ \E c \in Calls :
             \/ \E o \in Onboardings : FindById(c, o)
             \/ \E items \in [Variants -> Quantities] : SaveItems(c, items)
             \/ Submit(c) \/ Check(c) \/ Post(c) \/ Stop(c)

Spec == Init /\ [][Next]_vars
-----------------------------------------------------------------------------
(* An opening balance is the first entry of its variant, and so the only   *)
(* one, unless another entry came between the check and the append.        *)
OpeningIsFirst ==
  \A v \in Variants \ late : \A i \in DOMAIN ledger[v] :
    ledger[v][i] \in Onboardings => i = 1

Opened(o) == {v \in Variants : \E i \in DOMAIN ledger[v] : ledger[v][i] = o}

(* What an onboarding has posted is what it says, all of it, and it is     *)
(* locked, unless two calls have worked on it at once.                     *)
PostedIsLocked ==
  \A o \in Onboardings \ overlapped : Opened(o) # {} =>
    onboarding[o].status = "submitted" /\ Opened(o) = ItemsOf(onboarding[o])

OnboardingSound == OpeningIsFirst /\ PostedIsLocked

(* "Orchestrates submission + processing in a single DB transaction": an   *)
(* onboarding that is submitted, and that no call has in hand, is posted.  *)
SubmittedIsPosted ==
  \A o \in Onboardings : onboarding[o].status = "submitted" =>
    Opened(o) # {} \/ \E c \in Calls : call[c].of = o
=============================================================================
