----------------------------- MODULE MCWebhooks -----------------------------
(***************************************************************************)
(* One outbox worker and two that deliver; one event for one subscription, *)
(* which may be enqueued twice.  (A delivery shares nothing with the       *)
(* others of its batch but the moment at which the pass ends.)             *)
(***************************************************************************)
EXTENDS Webhooks

CONSTANT s1

MCRows == [event : Events, sub : {s1}, copy : 1..(1 + MaxFaults)]
=============================================================================
