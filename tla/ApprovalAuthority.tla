-------------------------- MODULE ApprovalAuthority --------------------------
(***************************************************************************)
(* The canonical approval authority                                        *)
(* (lib/approvals/approval-authority-service.ts over the workflow engine,  *)
(* policy, routing and store beside it): approval workflows of one         *)
(* recommendation.  The store is a Map in the process, read and updated    *)
(* without an await; the recommendation row is in the database, so between *)
(* the steps of one call other calls run, a query may fail, and the        *)
(* process may restart and lose the store.                                 *)
(*                                                                         *)
(* A caller is a request in flight.  Its record holds where it waits and   *)
(* what it took with it.  Roles come with the request, as in the code.     *)
(* Delegation only adds to assignments that canActorApprove never reads,   *)
(* and an ESCALATED workflow differs from one PENDING_APPROVAL, which      *)
(* stands for it here, in nothing that any decision reads.                 *)
(***************************************************************************)
EXTENDS GovernedRecommendation, FiniteSets

CONSTANTS
  Callers,    \* the requests that can be in flight at once
  Actors,     \* actorIds
  Submitted,  \* the risk classes submissions name; the row's if they name none
  MaxFaults   \* bound: failed queries and restarts

ASSUME AuthorityAssumption ==
  /\ IsFiniteSet(Callers)
  /\ Submitted \subseteq RiskClasses
  /\ MaxFaults \in Nat

VARIABLES
  workflows,  \* the in-memory store, by workflow id
  created,    \* history: how many workflow ids have been given out
  granted,    \* history: each workflow as it was when it became APPROVED
  faults,     \* history: how many queries failed, or restarts there were
  call        \* [Callers -> the request in flight]

Roles == {"OWNER", "GOVERNANCE", "SECURITY", "CAB"}

\* stagesForRiskClass: every stage needs one approval.
Stages(risk) == IF risk = "A" THEN 1 ELSE 2

RequiredRoles(risk, stage) ==
  IF stage = 1 THEN {"OWNER"}
  ELSE IF risk = "B" THEN {"GOVERNANCE"} ELSE {"SECURITY", "CAB"}

\* The approvals are those given so far, one per stage passed.
Workflow == [risk: RiskClasses, state: ApprovalStates, approvals: Seq(Actors),
             overdue: BOOLEAN]

\* No workflow of this id is in the store.
Missing == [state |-> "MISSING"]

Stored == {w \in WorkflowIds : workflows[w] # Missing}

Approvers(s) == {s[i] : i \in 1..Len(s)}

Idle == [at |-> "idle"]

Goes(p, c)  == call' = [call EXCEPT ![p] = c]
Returns(p)  == Goes(p, Idle)
IsAt(p, pc) == call[p].at = pc

-----------------------------------------------------------------------------
(* The workflow engine, as functions on a workflow.                        *)

NewWorkflow(risk) ==
  [risk |-> risk, state |-> "PENDING_APPROVAL", approvals |-> <<>>, overdue |-> FALSE]

\* canActorApprove at the current stage: the role fits and the actor has not
\* approved an earlier stage.
CanActorApprove(f, a, role) ==
  /\ role \in RequiredRoles(f.risk, Len(f.approvals) + 1)
  /\ a \notin Approvers(f.approvals)

\* A bug the checks must notice: the last stage is forgotten.
ApprovedEarly(f, a) ==
  [f EXCEPT !.approvals = Append(@, a), !.state = "APPROVED"]

\* The stage has its approval: the workflow moves on, or is APPROVED.
WithApproval(f, a) ==
  [f EXCEPT !.approvals = Append(@, a),
            !.state = IF Len(f.approvals) + 1 = Stages(f.risk) THEN "APPROVED"
                                                        ELSE "PARTIALLY_APPROVED"]

\* approveWorkflow.  Expiry is noticed here and nowhere else.
ApproveWorkflow(f, a, role) ==
  IF f.state \in Decided THEN f
  ELSE IF f.overdue THEN [f EXCEPT !.state = "EXPIRED"]
  ELSE IF CanActorApprove(f, a, role) THEN WithApproval(f, a)
  ELSE f

\* rejectWorkflow: whatever the state is.
RejectWorkflow(f) == [f EXCEPT !.state = "REJECTED"]

-----------------------------------------------------------------------------
(* Submission.                                                             *)

\* validateRecommendationSubmission.
CanSubmit ==
  /\ rec.readiness = "APPROVAL_REQUIRED"
  /\ rec.workflow # None => rec.approvalState \in Decided

\* findActiveApprovalWorkflow: what is overdue but not yet EXPIRED is active.
ActiveWorkflows == {w \in Stored : workflows[w].state \notin Decided}

Submitting == {p \in Callers : call[p].at \in {"submit: check", "submit: save"}}

SubmitValidates(p) ==
  /\ IsAt(p, "idle")
  /\ CanSubmit
  /\ created + Cardinality(Submitting) < MaxWorkflows
  /\ Goes(p, [at |-> "submit: check"])
  /\ UNCHANGED <<rec, changes, workflows, created, granted, faults>>

\* An active workflow ends the call with a conflict; else it reads the row again.
SubmitChecks(p) ==
  /\ IsAt(p, "submit: check")
  /\ IF ActiveWorkflows = {} THEN Goes(p, [at |-> "submit: save"]) ELSE Returns(p)
  /\ UNCHANGED <<rec, changes, workflows, created, granted, faults>>

SubmitSaves(p, risk) ==
  /\ IsAt(p, "submit: save")
  /\ created' = created + 1
  /\ workflows' = [workflows EXCEPT ![created + 1] = NewWorkflow(risk)]
  /\ Goes(p, [at |-> "link", workflow |-> created + 1, state |-> "PENDING_APPROVAL",
              final |-> FALSE])
  /\ UNCHANGED <<rec, changes, granted, faults>>

-----------------------------------------------------------------------------
(* Decisions.                                                              *)

\* approve: the transition is made at once, whether or not anything came of it
\* the row is linked next, and only the call that made the transition to APPROVED
\* goes on to create the execution request.
Approve(p, w, a, role) ==
  LET f == ApproveWorkflow(workflows[w], a, role)
      final == workflows[w].state # "APPROVED" /\ f.state = "APPROVED"
  IN
  /\ IsAt(p, "idle")
  /\ w \in Stored
  /\ workflows' = [workflows EXCEPT ![w] = f]
  /\ granted' = IF final THEN [granted EXCEPT ![w] = f] ELSE granted
  /\ Goes(p, [at |-> "link", workflow |-> w, state |-> f.state, final |-> final])
  /\ UNCHANGED <<rec, changes, created, faults>>

Reject(p, w) ==
  /\ IsAt(p, "idle")
  /\ w \in Stored
  /\ workflows' = [workflows EXCEPT ![w] = RejectWorkflow(@)]
  /\ Goes(p, [at |-> "link", workflow |-> w, state |-> "REJECTED", final |-> FALSE])
  /\ UNCHANGED <<rec, changes, created, granted, faults>>

\* linkApprovalWorkflow with the state the call took with it.
Link(p) ==
  /\ IsAt(p, "link")
  /\ rec' = Linked(rec, call[p].workflow, call[p].state)
  /\ IF call[p].final THEN Goes(p, [at |-> "create: read", workflow |-> call[p].workflow])
                      ELSE Returns(p)
  /\ UNCHANGED <<changes, workflows, created, granted, faults>>

-----------------------------------------------------------------------------
(* Time and faults.                                                        *)

\* approvalExpiryAt passes.
WorkflowOverdue(w) ==
  /\ w \in Stored
  /\ ~workflows[w].overdue
  /\ workflows' = [workflows EXCEPT ![w].overdue = TRUE]
  /\ UNCHANGED <<rec, changes, created, granted, faults, call>>

\* A query fails closed: the call ends where it stands.
QueryFails(p) ==
  /\ ~IsAt(p, "idle")
  /\ Returns(p)
  /\ faults < MaxFaults
  /\ faults' = faults + 1
  /\ UNCHANGED <<rec, changes, workflows, created, granted>>

\* The process restarts: the Map and the calls in flight are gone.
Restart ==
  /\ workflows' = [w \in WorkflowIds |-> Missing]
  /\ call' = [p \in Callers |-> Idle]
  /\ faults < MaxFaults
  /\ faults' = faults + 1
  /\ UNCHANGED <<rec, changes, created, granted>>

AuthorityInit ==
  /\ RecommendationInit
  /\ workflows = [w \in WorkflowIds |-> Missing]
  /\ created = 0
  /\ granted = [w \in WorkflowIds |-> Missing]
  /\ faults = 0
  /\ call = [p \in Callers |-> Idle]
==============================================================================
