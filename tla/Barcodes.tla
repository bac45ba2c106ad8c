------------------------------ MODULE Barcodes ------------------------------
(***************************************************************************)
(* The barcodes of the variants: VariantBarcodeSet as ManageBarcodes.ts    *)
(* loads, changes and saves it.  A save is a transaction of two statements *)
(* that overlapping calls interleave: delete the rows of the variant that  *)
(* are not in the set, then insert or update those that are.  A row that   *)
(* one transaction has deleted is locked until it ends.                    *)
(***************************************************************************)
EXTENDS Naturals, FiniteSets

CONSTANTS Skus,
          Values, \* of barcodes
          Calls,  \* requests that may overlap
          MaxIds  \* bound: assignments ever made

VARIABLES rows,    \* the table barcodes
          last,    \* the last assignment id generated
          call,    \* the requests: the set they loaded, the rows they are deleting
          clashed  \* history: variants two saves have worked on at once

vars == <<rows, last, call, clashed>>

Idle == [pc |-> "idle", sku |-> "none", set |-> {}, doomed |-> {}, locks |-> {}]

Init == rows = {} /\ last = 0 /\ call = [c \in Calls |-> Idle] /\ clashed = {}

Ids(set) == {a.id : a \in set}
Of(sku) == {a \in rows : a.sku = sku}

FindSetBySku(c, sku) ==
  /\ call[c].pc = "idle"
  /\ call' = [call EXCEPT ![c] = [Idle EXCEPT !.pc = "loaded", !.sku = sku, !.set = Of(sku)]]
  /\ UNCHANGED <<rows, last, clashed>>

Demoted(set) == {[a EXCEPT !.primary = FALSE] : a \in set}
(* a bug: the primary of before stays one *)
WithAnother(set, a) == set \union {[a EXCEPT !.primary = a.primary \/ set = {}]}
(* the first assignment is primary, whatever is asked *)
With(set, a) == (IF a.primary THEN Demoted(set) ELSE set)
                  \union {[a EXCEPT !.primary = a.primary \/ set = {}]}

Assign(c, value, makePrimary) ==
  /\ call[c].pc = "loaded" /\ last < MaxIds
  /\ \A a \in call[c].set : a.value # value
  /\ last' = last + 1
  /\ call' = [call EXCEPT ![c].pc = "save", ![c].set =
       With(@, [id |-> last', sku |-> call[c].sku, value |-> value, primary |-> makePrimary])]
  /\ UNCHANGED <<rows, clashed>>

(* the value is one that no variant has *)
Generate(c) == \E value \in Values \ {a.value : a \in rows} : Assign(c, value, FALSE)

Revoke(c, id) ==
  /\ call[c].pc = "loaded"
  /\ \E a \in call[c].set :
       /\ a.id = id /\ (a.primary => Cardinality(call[c].set) = 1)
       /\ call' = [call EXCEPT ![c].pc = "save", ![c].set = @ \ {a}]
  /\ UNCHANGED <<rows, last, clashed>>

Locked(c) == UNION {call[d].locks : d \in Calls \ {c}}

DeleteMany(c) ==
  /\ call[c].pc = "save"
  /\ LET gone == Ids(Of(call[c].sku)) \ Ids(call[c].set)
     IN call' = [call EXCEPT ![c].pc = "upsert", ![c].doomed = gone, ![c].locks = gone \ Locked(c)]
  /\ UNCHANGED <<rows, last, clashed>>

(* it waits for the rows others have locked; (variant, value) is unique *)
Upsert(c) ==
  LET left == {a \in rows : a.id \notin call[c].doomed \union Ids(call[c].set)}
      unique == \A a \in left, b \in call[c].set : <<a.sku, a.value>> # <<b.sku, b.value>>
  IN /\ call[c].pc = "upsert"
     /\ (call[c].doomed \union Ids(call[c].set)) \intersect Locked(c) = {}
     /\ rows' = IF unique THEN left \union call[c].set ELSE rows
     /\ clashed' = IF \E d \in Calls \ {c} : call[d].pc = "upsert" /\ call[d].sku = call[c].sku
                   THEN clashed \union {call[c].sku} ELSE clashed
     /\ call' = [call EXCEPT ![c] = Idle]
     /\ UNCHANGED last

(* a query fails, two transactions wait for each other, or the process stops *)
Fail(c) == /\ call[c].pc # "idle"
           /\ call' = [call EXCEPT ![c] = Idle]
           /\ UNCHANGED <<rows, last, clashed>>

Next == \E c \in Calls :
          \/ \E sku \in Skus : FindSetBySku(c, sku)
          \/ \E value \in Values, makePrimary \in BOOLEAN : Assign(c, value, makePrimary)
          \/ \E id \in 1..last : Revoke(c, id)
          \/ Generate(c) \/ DeleteMany(c) \/ Upsert(c) \/ Fail(c)

Spec == Init /\ [][Next]_vars
-----------------------------------------------------------------------------
(* A variant that has barcodes has one primary barcode, also when calls    *)
(* work from sets read before each other's saves, unless the statements of *)
(* two saves have interleaved.                                             *)
OnePrimary ==
  \A sku \in Skus \ clashed :
    Of(sku) # {} => Cardinality({a \in Of(sku) : a.primary}) = 1
=============================================================================
