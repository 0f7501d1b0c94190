------------------------ MODULE GovernedRecommendation ------------------------
(***************************************************************************)
(* One row of governed_recommendations and what is done to it              *)
(* (lib/recommendations/recommendation-repository.ts, -service.ts and      *)
(* readiness-engine.ts).  Rows are keyed by tenant and recommendation and  *)
(* no operation touches two of them, so one row is enough.                 *)
(*                                                                         *)
(* executionReadiness and recommendationState always change together       *)
(* (BLOCKED with BLOCKED, APPROVAL_REQUIRED with APPROVAL_REQUIRED,        *)
(* AUTO_EXECUTE_ELIGIBLE with EXECUTION_READY), so one field stands for    *)
(* both.  The manual-only and never-eligible classes of readiness, which   *)
(* are fixed when a recommendation is generated, are left out.  Evidence   *)
(* only accumulates and a row without any is BLOCKED like an untrusted     *)
(* one: "trusted" stands for the lifecycle TRUSTED with evidence present.  *)
(*                                                                         *)
(* The operators' and generators' operations read the row, rebuild it and  *)
(* write it back; they are one step here, because a row put back by a      *)
(* stale one of them is a row a later one may write as well.               *)
(***************************************************************************)
EXTENDS Integers, Sequences

CONSTANTS
  Risk,         \* actionRiskClass
  Confident,    \* confidenceScore >= 0.9
  MaxWorkflows, \* bound: approval workflows ever created for the recommendation
  MaxChanges    \* bound: changes made by generators and operators

RiskClasses == {"A", "B", "C", "D"}

ASSUME RecommendationAssumption ==
  /\ Risk \in RiskClasses
  /\ Confident \in BOOLEAN
  /\ MaxWorkflows \in Nat
  /\ MaxChanges \in Nat

VARIABLES
  rec,     \* the row
  changes  \* how many changes generators and operators have made

WorkflowIds == 1..MaxWorkflows
None        == 0  \* in place of a workflow id: no approval workflow

Readinesses    == {"AUTO_EXECUTE_ELIGIBLE", "APPROVAL_REQUIRED", "BLOCKED"}
Decided        == {"APPROVED", "REJECTED", "EXPIRED"}
ApprovalStates == {"PENDING_APPROVAL", "PARTIALLY_APPROVED"} \cup Decided

Recommendation ==
  [readiness: Readinesses, trusted: BOOLEAN,
   approvalRef: BOOLEAN,    \* some source reference starts with "approval:"
   approvalEvent: BOOLEAN,  \* a RECOMMENDATION_APPROVED event was emitted
   workflow: WorkflowIds \cup {None},
   approvalState: ApprovalStates \cup {"NOT_SUBMITTED"}]

-----------------------------------------------------------------------------
\* evaluateReadiness.
ReadinessOf(trusted, hasApproval) ==
  IF ~trusted THEN "BLOCKED"
  ELSE IF (Risk # "A" /\ ~hasApproval) \/ ~Confident THEN "APPROVAL_REQUIRED"
  ELSE "AUTO_EXECUTE_ELIGIBLE"

\* upsert over an existing row.  A row that is BLOCKED stays so if the rules,
\* asked again with the recorded approvals, do not find it ready either.
Upserted(r, trusted, readiness) ==
  LET preventEscalation ==
        /\ r.readiness = "BLOCKED"
        /\ readiness = "AUTO_EXECUTE_ELIGIBLE"
        /\ ReadinessOf(trusted, r.approvalRef) # "AUTO_EXECUTE_ELIGIBLE"
  IN [r EXCEPT !.trusted = trusted,
               !.readiness = IF preventEscalation THEN "BLOCKED" ELSE readiness]

\* A bug the checks must notice: the first link stays, the state is overwritten.
LinkedToFirst(r, w, s) ==
  [r EXCEPT !.workflow = IF @ = None THEN w ELSE @, !.approvalState = s, !.approvalRef = TRUE]

\* linkApprovalWorkflow: whatever the row is linked to already.  The reference
\* it adds counts as an approval in later upserts.
Linked(r, w, s) ==
  [r EXCEPT !.workflow = w, !.approvalState = s, !.approvalRef = TRUE]

\* A playbook generates the recommendation again, from new discovery data.
Regenerate(trusted) == rec' = Upserted(rec, trusted, ReadinessOf(trusted, FALSE))

Recalculate ==
  rec' = Upserted(rec, rec.trusted,
                  ReadinessOf(rec.trusted, rec.readiness = "AUTO_EXECUTE_ELIGIBLE"))

\* The operator's approval of the recommendation itself, which is not the approval
\* workflow: the event is emitted only if the row came out ready.
ApproveRecommendation ==
  LET row == Upserted(rec, rec.trusted, ReadinessOf(rec.trusted, TRUE)) IN
  rec' = [row EXCEPT !.approvalRef = TRUE,
                     !.approvalEvent = @ \/ row.readiness = "AUTO_EXECUTE_ELIGIBLE"]

Block == rec' = Upserted(rec, rec.trusted, "BLOCKED")

RecommendationInit ==
  /\ changes = 0
  /\ \E trusted \in BOOLEAN :
       rec = [readiness |-> ReadinessOf(trusted, FALSE), trusted |-> trusted,
              approvalRef |-> FALSE, approvalEvent |-> FALSE,
              workflow |-> None, approvalState |-> "NOT_SUBMITTED"]

RecommendationStep ==
  /\ changes < MaxChanges
  /\ changes' = changes + 1
  /\ \/ \E trusted \in BOOLEAN : Regenerate(trusted)
     \/ Recalculate
     \/ ApproveRecommendation
     \/ Block
==============================================================================
