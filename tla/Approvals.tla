----------------------------- MODULE Approvals -----------------------------
(***************************************************************************)
(* Approval requests.  An intercepted action leaves a request in the table *)
(* approval_requests; deciders vote on it through submitApprovalDecision,  *)
(* step after step, and a sweep escalates what has waited too long.  A     *)
(* vote and a sweep read the request, let the class ApprovalRequest decide *)
(* in memory, and write status and step back by id alone: the write does   *)
(* not look whether the row is still the one that was read.                *)
(*                                                                         *)
(* The steps of the workflow are constant: updateApprovalWorkflow, which   *)
(* replaces them under the open requests, is left out.                     *)
(***************************************************************************)
EXTENDS Naturals, FiniteSets, Sequences

CONSTANTS Petitions,   \* identities of approval requests
          Deciders,    \* calls of submitApprovalDecision
          Required,    \* requiredCount of each step of the workflow
          MaxSweeps,   \* bound: calls of checkExpiredRequests
          MaxToggles   \* bound: calls of toggleApprovalWorkflow

Steps == 1..Len(Required)

ASSUME ApprovalAssumption ==
    /\ Required \in Seq(Nat) /\ Required # <<>>
    /\ MaxSweeps \in Nat /\ MaxToggles \in Nat
    /\ IsFiniteSet(Deciders)

VARIABLES active,        \* isActive of the workflow
          status, step,  \* columns of approval_requests
          ballots,       \* the rows of approval_decisions, by call
          dpc, view,     \* of each call: where it is, what it has read
          sweep,         \* stale requests the running sweep has yet to do
          sweeps, toggles

requests == <<status, step>>
bounds == <<sweeps, toggles>>
approvalVars == <<active, requests, ballots, dpc, view, sweep, bounds>>

RequestStatuses == {"none", "PENDING", "APPROVED", "REJECTED", "ESCALATED", "EXPIRED"}
Verdicts == {"APPROVED", "REJECTED"}

\* A ballot that has not been cast.
NoBallot == [petition |-> "none", step |-> 0, verdict |-> "none"]

\* What a call that has not read its request holds.
Blank == [petition |-> "none", verdict |-> "none", step |-> 0, approvals |-> {}]

ApprovalInit ==
    /\ active \in BOOLEAN
    /\ status = [p \in Petitions |-> "none"]
    /\ step = [p \in Petitions |-> 1]
    /\ ballots = [d \in Deciders |-> NoBallot]
    /\ dpc = [d \in Deciders |-> "start"]
    /\ view = [d \in Deciders |-> Blank]
    /\ sweep = {}
    /\ sweeps = 0
    /\ toggles = 0

\* evaluateAndIntercept, once it has found an active workflow.
Open(p) ==
    /\ status[p] = "none"
    /\ status' = [status EXCEPT ![p] = "PENDING"]
    /\ UNCHANGED <<active, step, ballots, dpc, view, sweep, bounds>>

Toggle ==
    /\ toggles < MaxToggles
    /\ toggles' = toggles + 1
    /\ active' = ~active
    /\ UNCHANGED <<requests, ballots, dpc, view, sweep, sweeps>>

-----------------------------------------------------------------------------
\* The approvals that the table holds for a step of a request.
ApprovalsOf(p, s) ==
    {d \in Deciders : ballots[d] = [petition |-> p, step |-> s, verdict |-> "APPROVED"]}

\* Mutant of Read: the approvals of every step are counted.
ReadAllSteps(d, p, verdict) ==
    /\ dpc[d] = "start"
    /\ status[p] = "PENDING"
    /\ view' = [view EXCEPT ![d] =
           [petition |-> p, verdict |-> verdict, step |-> step[p],
            approvals |-> UNION {ApprovalsOf(p, s) : s \in Steps}]]
    /\ dpc' = [dpc EXCEPT ![d] = "save"]
    /\ UNCHANGED <<active, requests, ballots, sweep, bounds>>

\* findApprovalRequestById with its decisions; approve and reject throw unless
\* the request is pending.
Read(d, p, verdict) ==
    /\ dpc[d] = "start"
    /\ status[p] = "PENDING"
    /\ view' = [view EXCEPT ![d] =
           [petition |-> p, verdict |-> verdict, step |-> step[p],
            approvals |-> ApprovalsOf(p, step[p])]]
    /\ dpc' = [dpc EXCEPT ![d] = "save"]
    /\ UNCHANGED <<active, requests, ballots, sweep, bounds>>

Refuse(d, p) ==
    /\ dpc[d] = "start"
    /\ status[p] # "PENDING"
    /\ dpc' = [dpc EXCEPT ![d] = "refused"]
    /\ UNCHANGED <<active, requests, ballots, view, sweep, bounds>>

\* ApprovalRequest.approve: the step is complete with this decision.
Enough(w) == Cardinality(w.approvals) + 1 >= Required[w.step]

\* What the request becomes: status and step.
Decided(w) ==
    CASE w.verdict = "REJECTED" -> <<"REJECTED", w.step>>
      [] w.verdict = "APPROVED" /\ ~Enough(w) -> <<"PENDING", w.step>>
      [] w.verdict = "APPROVED" /\ Enough(w) /\ w.step < Len(Required) ->
             <<"PENDING", w.step + 1>>
      [] w.verdict = "APPROVED" /\ Enough(w) /\ w.step = Len(Required) ->
             <<"APPROVED", w.step>>

\* saveDecisionAndUpdateRequest: one transaction.
Save(d) ==
    /\ dpc[d] = "save"
    /\ LET w == view[d] IN
        /\ ballots' = [ballots EXCEPT ![d] =
               [petition |-> w.petition, step |-> w.step, verdict |-> w.verdict]]
        /\ status' = [status EXCEPT ![w.petition] = Decided(w)[1]]
        /\ step' = [step EXCEPT ![w.petition] = Decided(w)[2]]
    /\ dpc' = [dpc EXCEPT ![d] = "done"]
    /\ UNCHANGED <<active, view, sweep, bounds>>

\* The process stops, or the transaction fails, before the decision is saved.
Lose(d) ==
    /\ dpc[d] = "save"
    /\ dpc' = [dpc EXCEPT ![d] = "lost"]
    /\ UNCHANGED <<active, requests, ballots, view, sweep, bounds>>

-----------------------------------------------------------------------------
\* checkExpiredRequests reads the requests that are overdue (any may be), ...
FindStale ==
    /\ sweep = {}
    /\ sweeps < MaxSweeps
    /\ sweeps' = sweeps + 1
    /\ \E stale \in SUBSET {p \in Petitions : status[p] \in {"PENDING", "ESCALATED"}} :
        sweep' = {[petition |-> p, status |-> status[p], step |-> step[p]] : p \in stale}
    /\ UNCHANGED <<active, requests, ballots, dpc, view, toggles>>

\* Mutant of Escalate: an escalated request is open for the next step.
EscalateOpen(s) ==
    /\ s \in sweep
    /\ s.status = "PENDING"
    /\ status' = [status EXCEPT ![s.petition] =
                      IF s.step = Len(Required) THEN "EXPIRED" ELSE "PENDING"]
    /\ step' = [step EXCEPT ![s.petition] =
                      IF s.step = Len(Required) THEN s.step ELSE s.step + 1]
    /\ sweep' = sweep \ {s}
    /\ UNCHANGED <<active, ballots, dpc, view, bounds>>

\* ... moves each to its next step, or past the last one, ...
Escalate(s) ==
    /\ s \in sweep
    /\ s.status = "PENDING"
    /\ status' = [status EXCEPT ![s.petition] =
                      IF s.step = Len(Required) THEN "EXPIRED" ELSE "ESCALATED"]
    /\ step' = [step EXCEPT ![s.petition] =
                      IF s.step = Len(Required) THEN s.step ELSE s.step + 1]
    /\ sweep' = sweep \ {s}
    /\ UNCHANGED <<active, ballots, dpc, view, bounds>>

\* ... and ends at the first that escalate refuses, or where the process stops.
EndSweep ==
    /\ sweep # {}
    /\ sweep' = {}
    /\ UNCHANGED <<active, requests, ballots, dpc, view, bounds>>

ApprovalNext ==
    \/ Toggle
    \/ \E p \in Petitions : Open(p)
    \/ \E d \in Deciders, p \in Petitions :
        \/ Refuse(d, p)
        \/ \E verdict \in Verdicts : Read(d, p, verdict)
    \/ \E d \in Deciders : Save(d) \/ Lose(d)
    \/ FindStale
    \/ \E s \in sweep : Escalate(s)
    \/ EndSweep

ApprovalSpec == ApprovalInit /\ [][ApprovalNext]_approvalVars

-----------------------------------------------------------------------------
Views ==
    [petition : Petitions, verdict : Verdicts, step : Steps,
     approvals : SUBSET Deciders]

ApprovalTypeOK ==
    /\ active \in BOOLEAN
    /\ status \in [Petitions -> RequestStatuses]
    /\ step \in [Petitions -> Steps]
    /\ ballots \in [Deciders -> [petition : Petitions, step : Steps, verdict : Verdicts]
                                  \cup {NoBallot}]
    /\ dpc \in [Deciders -> {"start", "save", "done", "refused", "lost"}]
    /\ view \in [Deciders -> Views \cup {Blank}]
    /\ \A d \in Deciders : dpc[d] = "save" => view[d] \in Views
    /\ sweep \subseteq [petition : Petitions, status : {"PENDING", "ESCALATED"}, step : Steps]
    /\ sweeps \in 0..MaxSweeps
    /\ toggles \in 0..MaxToggles

\* The approvals on record carry the step.
Carried(p, s) == Cardinality(ApprovalsOf(p, s)) >= Required[s]

\* However votes, sweeps and stale writes overlap, a request is approved only
\* if every step of the workflow has the approvals it requires in the table of
\* decisions: no vote counts twice, none of another step or request counts, and
\* a step that was skipped by escalation is not taken for approved.
ApprovedByEveryStep ==
    \A p \in Petitions : status[p] = "APPROVED" => \A s \in Steps : Carried(p, s)

\* A pending request stands at a step whose predecessors are all carried.
PendingStepsCarried ==
    \A p \in Petitions :
        status[p] = "PENDING" => \A s \in Steps : s < step[p] => Carried(p, s)

\* ApprovalRequest lets only pending requests change ("PENDING -> REJECTED (any
\* step rejected)" is final in its list of transitions): a rejection stands.
\* The decision was taken on a copy, and a slower approval overwrites it.
RejectionStands ==
    [][\A p \in Petitions : status[p] = "REJECTED" => status'[p] = "REJECTED"]_approvalVars
=============================================================================
