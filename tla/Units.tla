------------------------------- MODULE Units --------------------------------
(***************************************************************************)
(* The units of measure of one product: ProductUomConfiguration as         *)
(* ManageUoms.ts loads, changes and saves it.  A save updates the row of   *)
(* the configuration first, so that saves wait for each other; the last    *)
(* one stands as a whole, whatever it was computed from.                   *)
(***************************************************************************)
EXTENDS Naturals, FiniteSets

CONSTANTS UnitNames, \* units of one category
          Calls      \* requests that may overlap

VARIABLES config,   \* the row with its conversion rules, or Unconfigured
          call,     \* the requests and the configuration they work on
          removed   \* history: units whose rule was removed since the last configuration

vars == <<config, call, removed>>

Unconfigured == [base |-> "none", purchase |-> "none", sale |-> "none", rules |-> {}]
Idle == [pc |-> "idle", config |-> Unconfigured, gone |-> {}]

Init == config = Unconfigured /\ call = [c \in Calls |-> Idle] /\ removed = {}

ToSave(c, next, gone) == call' = [call EXCEPT ![c] = [pc |-> "save", config |-> next, gone |-> gone]]

Known(unit, base, rules) == unit = base \/ unit \in rules

(* what is not set counts as the base unit, and is saved as such *)
Configure(c) ==
  /\ call[c].pc = "idle"
  /\ \E base \in UnitNames : \E rules \in SUBSET (UnitNames \ {base}) :
       \E purchase, sale \in {unit \in UnitNames : Known(unit, base, rules)} :
         ToSave(c, [base |-> base, purchase |-> purchase, sale |-> sale, rules |-> rules], {})
  /\ UNCHANGED <<config, removed>>

FindBySku(c) == /\ call[c].pc = "idle" /\ config # Unconfigured
                /\ call' = [call EXCEPT ![c] = [pc |-> "loaded", config |-> config, gone |-> removed]]
                /\ UNCHANGED <<config, removed>>

AddConversionRule(c, unit) ==
  LET old == call[c].config
  IN /\ call[c].pc = "loaded" /\ unit # old.base /\ unit \notin old.rules
     /\ ToSave(c, [old EXCEPT !.rules = @ \union {unit}], call[c].gone)
     /\ UNCHANGED <<config, removed>>

(* nothing looks whether the unit is the one of purchases or of sales *)
RemoveConversionRule(c, unit) ==
  /\ call[c].pc = "loaded" /\ unit \in call[c].config.rules
  /\ ToSave(c, [call[c].config EXCEPT !.rules = @ \ {unit}], call[c].gone \union {unit})
  /\ UNCHANGED <<config, removed>>

SetUnits(c) ==
  LET old == call[c].config
      known == {unit \in UnitNames : Known(unit, old.base, old.rules)}
  IN /\ call[c].pc = "loaded"
     /\ \E purchase \in known \union {old.purchase}, sale \in known \union {old.sale} :
          ToSave(c, [old EXCEPT !.purchase = purchase, !.sale = sale], call[c].gone)
     /\ UNCHANGED <<config, removed>>

Save(c) == /\ call[c].pc = "save"
           /\ config' = call[c].config
           /\ removed' = call[c].gone
           /\ call' = [call EXCEPT ![c] = Idle]

Fail(c) == /\ call[c].pc # "idle"
           /\ call' = [call EXCEPT ![c] = Idle]
           /\ UNCHANGED <<config, removed>>

Next == \E c \in Calls :
          \/ Configure(c) \/ FindBySku(c) \/ SetUnits(c) \/ Save(c) \/ Fail(c)
          \/ \E unit \in UnitNames : AddConversionRule(c, unit) \/ RemoveConversionRule(c, unit)

Spec == Init /\ [][Next]_vars
-----------------------------------------------------------------------------
(* Purchases and sales are in units that convert to the base unit, however *)
(* calls overlap, but for a unit whose rule somebody has removed.          *)
UnitsConvert ==
  config # Unconfigured =>
    \A unit \in {config.purchase, config.sale} \ removed : unit \in config.rules \union {config.base}
=============================================================================
