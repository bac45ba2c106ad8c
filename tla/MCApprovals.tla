---------------------------- MODULE MCApprovals ----------------------------
(***************************************************************************)
(* A workflow of two steps, the second of which needs two approvals.       *)
(***************************************************************************)
EXTENDS Approvals, TLC

MCRequired == <<1, 2>>

\* The requests are alike, and so are the deciders.
Symmetry == Permutations(Petitions) \cup Permutations(Deciders)
=============================================================================
