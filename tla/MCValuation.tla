----------------------------- MODULE MCValuation -----------------------------
(***************************************************************************)
(* A kit of one part and two bolts.  One return is authorized, one is      *)
(* requested and one is unknown; one record is in quarantine.  The row of  *)
(* the part exists, that of the bolt does not.                             *)
(***************************************************************************)
EXTENDS Valuation, TLC

CONSTANTS part, bolt, box, m1, m2, m3, r1, r2, r3

MCVariants == {part, bolt, box}
Per(p, b, x) == (part :> p) @@ (bolt :> b) @@ (box :> x)

MCExpected == (m1 :> Per(2, 1, 0)) @@ (m2 :> Per(1, 0, 0)) @@ (m3 :> Per(1, 0, 0))
MCUnitCost == [n \in {m1, m2, m3} |-> Per(5, 2, 9)]

Row(n) == [CreateNew EXCEPT !.quantity = n]
MCItems == [k \in MCVariants \X {"shelf", "quarantine"} |->
               IF k[1] = part THEN Row(IF k[2] = "shelf" THEN 3 ELSE 1) ELSE NoRow]
MCLayers == <<NewLayer(part, 1, 3), NewLayer(bolt, 5, 2), NewLayer(part, 3, 4),
              NewLayer(box, 1, 10)>>
MCLedger == Per(2, 4, 1)
MCKit == Per(1, 2, 0)
MCRmas == (m1 :> [status |-> "AUTHORIZED", received |-> Per(0, 0, 0)])
       @@ (m2 :> [status |-> "REQUESTED", received |-> Per(0, 0, 0)])
       @@ (m3 :> NoRma)
MCQuarantine == <<[variant |-> part, amount |-> 1, status |-> "QUARANTINED"]>>

Line(v, n, d) == [variant |-> v, amount |-> n, disposition |-> d]
Receive(n, lines) == [op |-> "receive", rma |-> n, lines |-> lines]

AnyCommand ==
    {Receive(m1, <<Line(part, 1, "RESTOCK"), Line(bolt, 1, "SCRAP")>>),
     Receive(m1, <<Line(part, 2, "QUARANTINE")>>),
     Receive(m1, <<Line(part, 1, "QUARANTINE"), Line(part, 1, "QUARANTINE")>>),
     Receive(m1, <<Line(part, 1, "SCRAP")>>),
     [op |-> "create", rma |-> m3],
     [op |-> "authorize", rma |-> m2],
     [op |-> "assemble", amount |-> 2],
     [op |-> "disassemble", amount |-> 1],
     [op |-> "createKit", recipe |-> Per(0, 0, 0)],
     [op |-> "addComponent", variant |-> bolt, amount |-> 1],
     [op |-> "removeComponent", variant |-> bolt]}
    \cup [op : {"resolve"}, record : {1}, resolution : {"RESTOCK", "SCRAP", "RTV"}]

\* Two requests of any kind, and a third that competes with them.
MCCommands == [r \in {r1, r2, r3} |->
    IF r # r3 THEN AnyCommand
    ELSE {Receive(m2, <<Line(part, 1, "RESTOCK")>>), [op |-> "assemble", amount |-> 1]}]

Symmetry == Permutations({r1, r2})
=============================================================================
