-------------------------- MODULE GovernedExecution --------------------------
(***************************************************************************)
(* From an approved recommendation to an action on the provider:           *)
(* execution requests (lib/execution/execution-request-service.ts and      *)
(* -repository.ts), dry runs (execution-request-dry-run-service.ts) and    *)
(* the execution runtime (execution-runtime.ts), over the tables           *)
(* execution_requests (unique per recommendation),                         *)
(* execution_request_dry_runs and execution_results (unique per request).  *)
(*                                                                         *)
(* Every query is a step of its own, since other requests run while it is  *)
(* awaited.  Writes that follow one another without a decision in between  *)
(* and that no step reads (links, events, evidence) are left out.          *)
(***************************************************************************)
EXTENDS ApprovalAuthority

CONSTANTS
  Action,      \* actionType of the recommendation
  MaxDryRuns,  \* bound: simulations ever run
  MaxActs      \* bound: actions on the provider ever begun

ASSUME ExecutionAssumption ==
  /\ MaxDryRuns \in Nat
  /\ MaxActs \in Nat

VARIABLES
  request,  \* the row of execution_requests, if there is one
  dryRun,   \* the row of execution_request_dry_runs with the latest simulatedAt
  result,   \* executionState of the row of execution_results, if there is one
  sims,     \* the clock of simulatedAt: how many simulations have been run
  acts      \* history: how often the provider was acted on

authorityVars == <<rec, changes, workflows, created, granted, faults>>
executionVars == <<request, dryRun, result, sims, acts>>
vars == <<rec, changes, workflows, created, granted, faults, call,
          request, dryRun, result, sims, acts>>

RequestStates == {"REQUESTED", "BLOCKED", "CANCELLED", "EXECUTED"}

\* "UNSET" is the null of a row that the direct route created.
RequestReadinesses ==
  {"UNSET", "PENDING_DRY_RUN", "READY_FOR_EXECUTION", "DRY_RUN_BLOCKED",
   "REQUIRES_REVIEW", "EXECUTION_BLOCKED"}

Request == [workflow: WorkflowIds \cup {None}, state: RequestStates,
            readiness: RequestReadinesses, overdue: BOOLEAN]

NoRequest == [state |-> "NO_REQUEST"]
Requested == request # NoRequest

SimulationStates == {"READY_FOR_EXECUTION", "BLOCKED", "REQUIRES_REVIEW"}
DryRun   == [at: Nat, state: SimulationStates]
NoDryRun == [at |-> 0, state |-> "NO_DRY_RUN"]

-----------------------------------------------------------------------------
(* Creation of the request.                                                *)

NewRequest(w, state, readiness) ==
  [workflow |-> w, state |-> state, readiness |-> readiness, overdue |-> FALSE]

\* A bug the checks must notice: the recommendation must be ready by itself.
CreateReadsReady(p) ==
  /\ IsAt(p, "create: read")
  /\ IF rec.readiness # "AUTO_EXECUTE_ELIGIBLE" THEN Returns(p)
     ELSE Goes(p, [at |-> "create: look", workflow |-> call[p].workflow])
  /\ UNCHANGED <<authorityVars, executionVars>>

\* createFromApprovedWorkflow, the rest of the approve call that made the final
\* transition: a blocked recommendation gets no request, and no second attempt.
CreateReads(p) ==
  /\ IsAt(p, "create: read")
  /\ IF rec.readiness = "BLOCKED" THEN Returns(p)
     ELSE Goes(p, [at |-> "create: look", workflow |-> call[p].workflow])
  /\ UNCHANGED <<authorityVars, executionVars>>

CreateLooks(p) ==
  /\ IsAt(p, "create: look")
  /\ IF Requested THEN Returns(p)
     ELSE Goes(p, [at |-> "create: insert", workflow |-> call[p].workflow])
  /\ UNCHANGED <<authorityVars, executionVars>>

\* A bug the checks must notice: the insert updates a row that is there.
CreateUpserts(p) ==
  /\ IsAt(p, "create: insert")
  /\ request' = NewRequest(call[p].workflow, "REQUESTED", "PENDING_DRY_RUN")
  /\ Returns(p)
  /\ UNCHANGED <<authorityVars, dryRun, result, sims, acts>>

\* The unique index on the recommendation makes a second insert fail.
CreateInserts(p) ==
  /\ IsAt(p, "create: insert")
  /\ request' = IF Requested THEN request
                ELSE NewRequest(call[p].workflow, "REQUESTED", "PENDING_DRY_RUN")
  /\ Returns(p)
  /\ UNCHANGED <<authorityVars, dryRun, result, sims, acts>>

\* validateExecutionRequestPreconditions.
DirectlyExecutable == rec.readiness = "AUTO_EXECUTE_ELIGIBLE" /\ rec.approvalEvent

\* create, for the route that asks for a request directly: a row that names no
\* workflow, BLOCKED unless the recommendation is ready and was approved itself.
DirectReads(p) ==
  /\ IsAt(p, "idle")
  /\ Goes(p, [at |-> "direct: insert",
              state |-> IF DirectlyExecutable THEN "REQUESTED" ELSE "BLOCKED"])
  /\ UNCHANGED <<authorityVars, executionVars>>

DirectInserts(p) ==
  /\ IsAt(p, "direct: insert")
  /\ request' = IF Requested THEN request ELSE NewRequest(None, call[p].state, "UNSET")
  /\ Returns(p)
  /\ UNCHANGED <<authorityVars, dryRun, result, sims, acts>>

\* cancel.
CancelReads(p) ==
  /\ IsAt(p, "idle")
  /\ Requested /\ request.state = "REQUESTED"
  /\ Goes(p, [at |-> "cancel: write"])
  /\ UNCHANGED <<authorityVars, executionVars>>

CancelWrites(p) ==
  /\ IsAt(p, "cancel: write")
  /\ request' = [request EXCEPT !.state = "CANCELLED"]
  /\ Returns(p)
  /\ UNCHANGED <<authorityVars, dryRun, result, sims, acts>>

-----------------------------------------------------------------------------
(* Dry runs.                                                               *)

\* The readiness a reader sees (toV1).
V1Readiness(r) ==
  IF r.readiness # "UNSET" THEN r.readiness
  ELSE IF r.state = "BLOCKED" THEN "EXECUTION_BLOCKED" ELSE "PENDING_DRY_RUN"

\* A bug the checks must notice: the simulation does not ask for the approval.
SimulatedUnapproved ==
  IF ~rec.trusted THEN "BLOCKED"
  ELSE IF Action \in {"REMOVE_LICENSE", "RECLAIM_COPILOT_LICENSE"} THEN "READY_FOR_EXECUTION"
  ELSE "REQUIRES_REVIEW"

\* simulateExecutionRequest with runPreflight, as the service calls it.
Simulated ==
  IF ~rec.trusted \/ request.workflow = None THEN "BLOCKED"
  ELSE IF Action \in {"REMOVE_LICENSE", "RECLAIM_COPILOT_LICENSE"} THEN "READY_FOR_EXECUTION"
  ELSE "REQUIRES_REVIEW"

\* A bug the checks must notice: a blocked simulation is taken over as it is.
SameReadiness(simulation) == simulation

\* nextReadiness.
NextReadiness(simulation) ==
  IF simulation = "BLOCKED" THEN "DRY_RUN_BLOCKED" ELSE simulation

\* The calls that may still simulate.
Simulating == {p \in Callers : IsAt(p, "dry run: simulate")}

\* run: only for a request that is pending a dry run.
DryRunReads(p) ==
  /\ IsAt(p, "idle")
  /\ sims + Cardinality(Simulating) < MaxDryRuns
  /\ Requested /\ V1Readiness(request) = "PENDING_DRY_RUN"
  /\ Goes(p, [at |-> "dry run: simulate"])
  /\ UNCHANGED <<authorityVars, executionVars>>

\* The recommendation is read and the simulation runs on what was read.
DryRunSimulates(p) ==
  /\ IsAt(p, "dry run: simulate")
  /\ IF rec.readiness = "BLOCKED"
     THEN Returns(p) /\ UNCHANGED sims
     ELSE /\ sims' = sims + 1
          /\ Goes(p, [at |-> "dry run: insert",
                      row |-> [at |-> sims + 1, state |-> Simulated]])
  /\ UNCHANGED <<authorityVars, request, dryRun, result, acts>>

DryRunInserts(p) ==
  /\ IsAt(p, "dry run: insert")
  /\ dryRun' = IF call[p].row.at > dryRun.at THEN call[p].row ELSE dryRun
  /\ Goes(p, [at |-> "dry run: update", readiness |-> NextReadiness(call[p].row.state)])
  /\ UNCHANGED <<authorityVars, request, result, sims, acts>>

\* updateExecutionRequest, whatever happened to the request in between.
DryRunUpdates(p) ==
  /\ IsAt(p, "dry run: update")
  /\ request' = [request EXCEPT !.readiness = call[p].readiness]
  /\ Returns(p)
  /\ UNCHANGED <<authorityVars, dryRun, result, sims, acts>>

-----------------------------------------------------------------------------
(* Execution.                                                              *)

\* evaluateExecutionPolicy, for what is fixed from the start; rollbackSupported
\* holds for every simulated REMOVE_LICENSE.
PolicyAllows == Action = "REMOVE_LICENSE" /\ Risk \in {"A", "B"}

\* The calls of execute that may still act.
Preparing == {p \in Callers :
                call[p].at \in {"execute: request", "execute: readiness", "execute: dry run",
                               "execute: recommendation", "execute: start", "execute: act"}}

\* A bug the checks must notice: a recorded result is not looked for.
ExecuteAnyway(p) ==
  /\ IsAt(p, "idle")
  /\ acts + Cardinality(Preparing) < MaxActs
  /\ Requested
  /\ Goes(p, [at |-> "execute: request"])
  /\ UNCHANGED <<authorityVars, executionVars>>

\* A recorded result is returned as it is, and nothing is executed.
ExecuteReadsResult(p) ==
  /\ IsAt(p, "idle")
  /\ acts + Cardinality(Preparing) < MaxActs
  /\ Requested /\ result = "NONE"
  /\ Goes(p, [at |-> "execute: request"])
  /\ UNCHANGED <<authorityVars, executionVars>>

\* A precondition that fails makes the call record BLOCKED: it reads the rest
\* as well, but to no effect.
PassesTo(p, ok, pc) ==
  /\ Goes(p, IF ok THEN [at |-> pc] ELSE [at |-> "execute: record", state |-> "BLOCKED"])
  /\ UNCHANGED <<authorityVars, executionVars>>

ExecuteReadsRequest(p) ==
  /\ IsAt(p, "execute: request")
  /\ PassesTo(p, request.state # "CANCELLED", "execute: readiness")

\* The same row once more, in the form readers see.
ExecuteReadsReadiness(p) ==
  /\ IsAt(p, "execute: readiness")
  /\ PassesTo(p, V1Readiness(request) = "READY_FOR_EXECUTION", "execute: dry run")

ExecuteReadsDryRun(p) ==
  /\ IsAt(p, "execute: dry run")
  /\ PassesTo(p, dryRun.state = "READY_FOR_EXECUTION", "execute: recommendation")

\* The recommendation row and, right after it, its events.
ExecuteReadsRecommendation(p) ==
  /\ IsAt(p, "execute: recommendation")
  /\ PassesTo(p, /\ rec.readiness # "BLOCKED"
                 /\ rec.trusted
                 /\ rec.approvalEvent \/ request.workflow # None, "execute: start")

\* The decision, on what was read and on the clock.
ExecuteStarts(p) ==
  /\ IsAt(p, "execute: start")
  /\ PassesTo(p, ~request.overdue /\ PolicyAllows, "execute: act")

\* A bug the checks must notice: the call answers without recording.
ExecuteActsOnly(p) ==
  /\ IsAt(p, "execute: act")
  /\ acts' = acts + 1
  /\ Returns(p)
  /\ UNCHANGED <<authorityVars, request, dryRun, result, sims>>

\* A bug the checks must notice: the call acts, and records that it was blocked.
ExecuteActsUnseen(p) ==
  /\ IsAt(p, "execute: act")
  /\ acts' = acts + 1
  /\ Goes(p, [at |-> "execute: record", state |-> "BLOCKED"])
  /\ UNCHANGED <<authorityVars, request, dryRun, result, sims>>

\* executeM365RemoveLicense: it always succeeds.
ExecuteActs(p) ==
  /\ IsAt(p, "execute: act")
  /\ acts' = acts + 1
  /\ Goes(p, [at |-> "execute: record", state |-> "EXECUTED"])
  /\ UNCHANGED <<authorityVars, request, dryRun, result, sims>>

\* recordResult: the unique index on the request makes a second insert fail, which
\* ends the call; then the request is updated twice, whatever its state.
ExecuteRecords(p) ==
  /\ IsAt(p, "execute: record")
  /\ IF result = "NONE"
     THEN /\ result' = call[p].state
          /\ Goes(p, [at |-> "execute: state", state |-> call[p].state])
     ELSE UNCHANGED result /\ Returns(p)
  /\ UNCHANGED <<authorityVars, request, dryRun, sims, acts>>

ExecuteUpdatesState(p) ==
  /\ IsAt(p, "execute: state")
  /\ request' = [request EXCEPT !.state = call[p].state]
  /\ Goes(p, [at |-> "execute: update", state |-> call[p].state])
  /\ UNCHANGED <<authorityVars, dryRun, result, sims, acts>>

ExecuteUpdatesReadiness(p) ==
  /\ IsAt(p, "execute: update")
  /\ request' = [request EXCEPT !.readiness = IF call[p].state = "EXECUTED"
                                              THEN "READY_FOR_EXECUTION"
                                              ELSE "EXECUTION_BLOCKED"]
  /\ Returns(p)
  /\ UNCHANGED <<authorityVars, dryRun, result, sims, acts>>

\* expiresAt of the request passes.
RequestOverdue ==
  /\ Requested /\ ~request.overdue
  /\ request' = [request EXCEPT !.overdue = TRUE]
  /\ UNCHANGED <<authorityVars, call, dryRun, result, sims, acts>>

-----------------------------------------------------------------------------
Init ==
  /\ AuthorityInit
  /\ request = NoRequest
  /\ dryRun = NoDryRun
  /\ result = "NONE"
  /\ sims = 0
  /\ acts = 0

\* A request arrives.
Begins(p) ==
  \/ /\ \/ SubmitValidates(p)
        \/ \E w \in WorkflowIds : Reject(p, w)
        \/ \E w \in WorkflowIds, a \in Actors, role \in Roles : Approve(p, w, a, role)
     /\ UNCHANGED executionVars
  \/ DirectReads(p) \/ CancelReads(p) \/ DryRunReads(p) \/ ExecuteReadsResult(p)

\* A query of a request in flight is answered.
Continues(p) ==
  \/ /\ SubmitChecks(p) \/ (\E risk \in Submitted : SubmitSaves(p, risk)) \/ Link(p)
     /\ UNCHANGED executionVars
  \/ CreateReads(p) \/ CreateLooks(p) \/ CreateInserts(p)
  \/ DirectInserts(p) \/ CancelWrites(p)
  \/ DryRunSimulates(p) \/ DryRunInserts(p) \/ DryRunUpdates(p)
  \/ ExecuteReadsRequest(p) \/ ExecuteReadsReadiness(p) \/ ExecuteReadsDryRun(p)
  \/ ExecuteReadsRecommendation(p) \/ ExecuteStarts(p) \/ ExecuteActs(p)
  \/ ExecuteRecords(p) \/ ExecuteUpdatesState(p) \/ ExecuteUpdatesReadiness(p)

\* Generators and operators change the recommendation.
RecommendationChanges ==
  RecommendationStep /\ UNCHANGED <<workflows, created, granted, faults, call, executionVars>>

\* Time passes, or a fault occurs.
Environment ==
  \/ /\ \/ \E w \in WorkflowIds : WorkflowOverdue(w)
        \/ \E p \in Callers : QueryFails(p)
        \/ Restart
     /\ UNCHANGED executionVars
  \/ RequestOverdue

Next ==
  \/ \E p \in Callers : Begins(p) \/ Continues(p)
  \/ RecommendationChanges
  \/ Environment

Spec == Init /\ [][Next]_vars

\* Queries in flight are answered; nobody owes a request, a decision or a fault.
FairSpec == Spec /\ \A p \in Callers : WF_vars(Continues(p))

-----------------------------------------------------------------------------
(* Properties.                                                             *)

CallRecord ==
       [at: {"idle", "submit: check", "submit: save", "cancel: write",
             "dry run: simulate", "execute: request", "execute: readiness",
             "execute: dry run", "execute: recommendation", "execute: start",
             "execute: act"}]
  \cup [at: {"link"}, workflow: WorkflowIds, state: ApprovalStates, final: BOOLEAN]
  \cup [at: {"create: read", "create: look", "create: insert"}, workflow: WorkflowIds]
  \cup [at: {"direct: insert"}, state: {"REQUESTED", "BLOCKED"}]
  \cup [at: {"dry run: insert"}, row: DryRun]
  \cup [at: {"dry run: update"}, readiness: RequestReadinesses]
  \cup [at: {"execute: record", "execute: state", "execute: update"},
        state: {"BLOCKED", "EXECUTED"}]

\* Every variable has its type; readinessState holds one of the states of an
\* execution request, never one of a simulation (nextReadiness).
TypeOK ==
  /\ rec \in Recommendation
  /\ changes \in 0..MaxChanges
  /\ workflows \in [WorkflowIds -> Workflow \cup {Missing}]
  /\ created \in 0..MaxWorkflows
  /\ granted \in [WorkflowIds -> Workflow \cup {Missing}]
  /\ faults \in 0..MaxFaults
  /\ call \in [Callers -> CallRecord]
  /\ request \in Request \cup {NoRequest}
  /\ dryRun \in DryRun \cup {NoDryRun}
  /\ result \in {"NONE", "BLOCKED", "EXECUTED"}
  /\ sims \in Nat
  /\ acts \in Nat

\* A workflow that became APPROVED had the approval of every stage its risk class
\* asks for, each by another actor, whatever calls ran at once
\* (separationOfDutiesRequired, canActorApprove).
ApprovalsAreSeparate ==
  \A w \in WorkflowIds : granted[w] # Missing =>
    /\ Len(granted[w].approvals) = Stages(granted[w].risk)
    /\ Cardinality(Approvers(granted[w].approvals)) = Len(granted[w].approvals)

\* A recommendation whose row says APPROVED names a workflow that was approved:
\* late and reordered writes of linkApprovalWorkflow never pair the state of one
\* workflow with the id of another.
LinkIsTruthful ==
  rec.approvalState = "APPROVED" =>
    rec.workflow # None /\ granted[rec.workflow] # Missing

\* The provider is acted on only for a request that names a workflow which was
\* approved, and after a dry run of that request: execute looks at neither the
\* workflow's state nor its approvals, so the request, its dry run and the
\* readiness the dry run left must stand for them.
ActsAreApproved ==
  acts > 0 => /\ Requested
              /\ request.workflow # None
              /\ granted[request.workflow] # Missing
              /\ dryRun # NoDryRun

\* A request created directly names no workflow and holds the only row there is
\* (uniqueIndex on the recommendation): a later approval finds it
\* (createFromApprovedWorkflow), and no dry run or execution of it ever acts.
DirectRequestStays ==
  [][Requested /\ request.workflow = None =>
       Requested' /\ request'.workflow = None /\ acts' = acts]_vars

\* The calls of execute whose result is not recorded yet.
Executing == Preparing \cup {p \in Callers : IsAt(p, "execute: record")}

\* Unless a query failed or the process restarted, an action on the provider is
\* followed by a recorded result before the last call of execute returns
\* (recordResult, after executeM365RemoveLicense).
ActLeavesResult ==
  faults = 0 /\ acts > 0 /\ Executing = {} => result # "NONE"

\* The unique index on the request bounds results, not actions: the provider is
\* acted on at most once by each request that can be in flight at a time, and as
\* often again after each failed query or restart.
ActsAreBounded == acts <= Cardinality(Callers) * (1 + faults)

\* Once a result is recorded and the calls of execute that were under way have
\* ended, the provider is never acted on again: no step acts, and none brings a call
\* back to where it could (execute returns the result).
ResultIsFinal ==
  [][result # "NONE" /\ Executing = {} =>
       result' = result /\ Executing' = {} /\ acts' = acts]_vars

\* The approve call that made the final transition leads to an execution request,
\* whichever call creates it, unless the recommendation is BLOCKED at some moment from
\* then on, a query fails or the process restarts.  createFromApprovedWorkflow looks
\* once: a block that is lifted again leaves an approved workflow without a request.
ApprovedGetsRequest ==
  (\E p \in Callers : IsAt(p, "link") /\ call[p].final)
    ~> Requested \/ rec.readiness = "BLOCKED" \/ faults > 0

\* "idempotency prevents duplicate execution" (tests/execution-runtime.test.ts):
\* the provider is acted on at most once.  Two calls that both find no result
\* both act; so does a call after one that failed between the act and its record.
ExecutedOnce == acts <= 1

\* REQUEST_CANCELLED is among the blocks of execute: a request that was cancelled
\* while no call was under way is not executed.  The first call of execute replaces
\* CANCELLED by BLOCKED before it replaces READY_FOR_EXECUTION by
\* EXECUTION_BLOCKED; a call that reads the row in between finds nothing wrong.
CancelledIsNotExecuted ==
  [](/\ Requested /\ request.state = "CANCELLED"
     /\ \A p \in Callers : IsAt(p, "idle")
     /\ acts = 0
     => [](acts = 0))

\* A call of execute that has not recorded its result yet has acted exactly if the
\* result it takes with it says EXECUTED.
HaveActed    == {p \in Callers : call[p].at = "execute: record" /\ call[p].state = "EXECUTED"}
HaveNotActed == Executing \ HaveActed

\* Governed execution as GovernedAction sees it; -1 is no workflow id.
Governed == INSTANCE GovernedAction WITH
  Workflows  <- WorkflowIds,
  NoWorkflow <- None,
  Unasked    <- -1,
  Executions <- Callers,
  approved   <- {w \in WorkflowIds : granted[w] # Missing},
  subject    <- IF Requested THEN request.workflow ELSE -1,
  begun      <- HaveNotActed,
  acted      <- HaveActed,
  performed  <- acts,
  outcome    <- result,
  failures   <- faults

\* Every behaviour is one GovernedAction allows: actions only in the name of an
\* approved workflow, at most one by each call, a request that keeps its workflow, and
\* an outcome that is final and says what the call that recorded it did itself.  It may
\* say BLOCKED although a call that overlapped, or failed after it acted, has acted.
ImplementsGovernedAction == Governed!Spec
=============================================================================
