----------------------- MODULE GovernedExecutionProofs -----------------------
(***************************************************************************)
(* Proofs about GovernedExecution, for any requests in flight, actors,     *)
(* risk classes, actions and bounds.                                       *)
(***************************************************************************)
EXTENDS GovernedExecution, FiniteSetTheorems, TLAPS

-----------------------------------------------------------------------------
(* Types.                                                                  *)

\* The values that stand for a missing row or workflow are none of them.
LEMMA NullsAreNone ==
  /\ Missing \notin Workflow
  /\ NoRequest \notin Request
  /\ NoDryRun \notin DryRun
  /\ None \notin WorkflowIds
<1>1. Missing \notin Workflow
  BY DEF Missing, Workflow, ApprovalStates, Decided
<1>2. NoRequest \notin Request
  BY DEF NoRequest, Request, RequestStates
<1>3. NoDryRun \notin DryRun
  BY DEF NoDryRun, DryRun, SimulationStates
<1>4. None \notin WorkflowIds
  BY RecommendationAssumption DEF None, WorkflowIds
<1>5. QED
  BY <1>1, <1>2, <1>3, <1>4

\* What a call in flight carries, by where it stands.
LEMMA CallFields ==
  ASSUME NEW c \in CallRecord
  PROVE  /\ c.at = "link" =>
              c.workflow \in WorkflowIds /\ c.state \in ApprovalStates /\ c.final \in BOOLEAN
         /\ c.at \in {"create: read", "create: look", "create: insert"} =>
              c.workflow \in WorkflowIds
         /\ c.at = "direct: insert" => c.state \in {"REQUESTED", "BLOCKED"}
         /\ c.at = "dry run: insert" => c.row \in DryRun
         /\ c.at = "dry run: update" => c.readiness \in RequestReadinesses
         /\ c.at \in {"execute: record", "execute: state", "execute: update"} =>
              c.state \in {"BLOCKED", "EXECUTED"}
  BY DEF CallRecord

\* Every place a call can go next is one of its type.
LEMMA CallPlaces ==
  /\ Idle \in CallRecord
  /\ \A pc \in {"submit: check", "submit: save", "cancel: write", "dry run: simulate",
                "execute: request", "execute: readiness", "execute: dry run",
                "execute: recommendation", "execute: start", "execute: act"} :
       [at |-> pc] \in CallRecord
  /\ \A w \in WorkflowIds, s \in ApprovalStates, f \in BOOLEAN :
       [at |-> "link", workflow |-> w, state |-> s, final |-> f] \in CallRecord
  /\ \A pc \in {"create: read", "create: look", "create: insert"}, w \in WorkflowIds :
       [at |-> pc, workflow |-> w] \in CallRecord
  /\ \A s \in {"REQUESTED", "BLOCKED"} : [at |-> "direct: insert", state |-> s] \in CallRecord
  /\ \A row \in DryRun : [at |-> "dry run: insert", row |-> row] \in CallRecord
  /\ \A r \in RequestReadinesses :
       [at |-> "dry run: update", readiness |-> r] \in CallRecord
  /\ \A pc \in {"execute: record", "execute: state", "execute: update"},
        s \in {"BLOCKED", "EXECUTED"} : [at |-> pc, state |-> s] \in CallRecord
  BY DEF CallRecord, Idle

\* Every operation on the row leaves a row.
LEMMA RowTypes ==
  ASSUME NEW r \in Recommendation
  PROVE  /\ \A trusted, approved \in BOOLEAN : ReadinessOf(trusted, approved) \in Readinesses
         /\ \A trusted \in BOOLEAN, readiness \in Readinesses :
              Upserted(r, trusted, readiness) \in Recommendation
         /\ \A w \in WorkflowIds, s \in ApprovalStates : Linked(r, w, s) \in Recommendation
<1>1. \A trusted, approved \in BOOLEAN : ReadinessOf(trusted, approved) \in Readinesses
  BY DEF ReadinessOf, Readinesses
<1>2. \A trusted \in BOOLEAN, readiness \in Readinesses :
        Upserted(r, trusted, readiness) \in Recommendation
  BY DEF Upserted, Recommendation, Readinesses
<1>3. \A w \in WorkflowIds, s \in ApprovalStates : Linked(r, w, s) \in Recommendation
  BY DEF Linked, Recommendation
<1>4. QED
  BY <1>1, <1>2, <1>3

\* Every operation of the workflow engine leaves a workflow.
LEMMA WorkflowTypes ==
  ASSUME NEW f \in Workflow, NEW a \in Actors, NEW role \in Roles
  PROVE  /\ WithApproval(f, a) \in Workflow
         /\ ApproveWorkflow(f, a, role) \in Workflow
         /\ RejectWorkflow(f) \in Workflow
         /\ [f EXCEPT !.overdue = TRUE] \in Workflow
<1>1. WithApproval(f, a) \in Workflow
  <2>1. f.approvals \in Seq(Actors)
    BY DEF Workflow
  <2>2. Append(f.approvals, a) \in Seq(Actors)
    BY <2>1
  <2>3. QED
    BY <2>2 DEF WithApproval, Workflow, ApprovalStates, Decided
<1>2. ApproveWorkflow(f, a, role) \in Workflow
  BY <1>1 DEF ApproveWorkflow, Workflow, ApprovalStates, Decided
<1>3. RejectWorkflow(f) \in Workflow
  BY DEF RejectWorkflow, Workflow, ApprovalStates, Decided
<1>4. [f EXCEPT !.overdue = TRUE] \in Workflow
  BY DEF Workflow
<1>5. QED
  BY <1>1, <1>2, <1>3, <1>4

-----------------------------------------------------------------------------
(* Typing.  What the submissions in flight may still create is within the  *)
(* bound, so the ids given out are workflow ids.                           *)

SubmitBound == created + Cardinality(Submitting) <= MaxWorkflows

Typed == TypeOK /\ SubmitBound

\* A step that moves the call p alone, in one direction or none.
LEMMA Moves ==
  ASSUME TypeOK, NEW p \in Callers, NEW c \in CallRecord, Goes(p, c)
  PROVE  /\ call' \in [Callers -> CallRecord]
         /\ call'[p] = c
         /\ \A q \in Callers : q # p => call'[q] = call[q]
  BY DEF TypeOK, Goes

\* The call is on its way to a new workflow.
Submits(c) == c.at \in {"submit: check", "submit: save"}

\* A call that ends or stays outside a submission leaves no more submissions.
LEMMA NoNewSubmission ==
  ASSUME NEW p \in Callers, NEW c \in CallRecord, call \in [Callers -> CallRecord], Goes(p, c),
         SubmitBound, created \in Nat, created' = created,
         Submits(c) => Submits(call[p])
  PROVE  SubmitBound'
<1>1. Submitting' \subseteq Submitting
  BY DEF Submitting, Goes, Submits
<1>2. IsFiniteSet(Submitting)
  BY AuthorityAssumption, FS_Subset DEF Submitting
<1>3. /\ Cardinality(Submitting') <= Cardinality(Submitting)
      /\ Cardinality(Submitting') \in Nat
      /\ Cardinality(Submitting) \in Nat
  <2>1. IsFiniteSet(Submitting') /\ Cardinality(Submitting') <= Cardinality(Submitting)
    BY <1>1, <1>2, FS_Subset
  <2>2. QED
    BY <1>2, <2>1, FS_CardinalityType
<1>4. QED
  BY <1>3, RecommendationAssumption DEF SubmitBound

THEOREM InitTyped == Init => Typed
<1> SUFFICES ASSUME Init PROVE Typed
  OBVIOUS
<1> USE DEF Init, AuthorityInit, RecommendationInit
<1>1. TypeOK
  <2>1. rec \in Recommendation
    <3>1. PICK trusted \in BOOLEAN :
            rec = [readiness |-> ReadinessOf(trusted, FALSE), trusted |-> trusted,
                   approvalRef |-> FALSE, approvalEvent |-> FALSE,
                   workflow |-> None, approvalState |-> "NOT_SUBMITTED"]
      OBVIOUS
    <3>2. ReadinessOf(trusted, FALSE) \in Readinesses
      BY DEF ReadinessOf, Readinesses
    <3>3. QED
      BY <3>1, <3>2 DEF Recommendation
  <2>2. Idle \in CallRecord
    BY CallPlaces
  <2>3. /\ created \in 0..MaxWorkflows
        /\ changes \in 0..MaxChanges
        /\ faults \in 0..MaxFaults
    BY RecommendationAssumption, AuthorityAssumption
  <2>4. QED
    BY <2>1, <2>2, <2>3 DEF TypeOK
<1>2. SubmitBound
  <2>1. Submitting = {}
    BY DEF Submitting, Idle
  <2>2. QED
    BY <2>1, FS_EmptySet, RecommendationAssumption DEF SubmitBound
<1>3. QED
  BY <1>1, <1>2 DEF Typed

\* A step of one call that leaves every variable typed and creates no workflow.
LEMMA StepTyped ==
  ASSUME Typed, NEW p \in Callers, NEW c \in CallRecord, Goes(p, c),
         Submits(c) => Submits(call[p]),
         UNCHANGED <<changes, created>>,
         rec' \in Recommendation,
         workflows' \in [WorkflowIds -> Workflow \cup {Missing}],
         granted' \in [WorkflowIds -> Workflow \cup {Missing}],
         faults' \in 0..MaxFaults,
         request' \in Request \cup {NoRequest},
         dryRun' \in DryRun \cup {NoDryRun},
         result' \in {"NONE", "BLOCKED", "EXECUTED"},
         sims' \in Nat,
         acts' \in Nat
  PROVE  Typed'
<1>1. call' \in [Callers -> CallRecord]
  BY Moves DEF Typed
<1>2. TypeOK'
  BY <1>1 DEF Typed, TypeOK
<1>3. SubmitBound'
  <2>1. created \in Nat /\ created' = created
    BY RecommendationAssumption DEF Typed, TypeOK
  <2>2. call \in [Callers -> CallRecord] /\ SubmitBound
    BY DEF Typed, TypeOK
  <2>3. QED
    BY <2>1, <2>2, NoNewSubmission
<1>4. QED
  BY <1>2, <1>3 DEF Typed

\* The same for a step that leaves the authority's variables alone.
LEMMA ExecutionStepTyped ==
  ASSUME Typed, NEW p \in Callers, NEW c \in CallRecord, Goes(p, c), ~Submits(c),
         UNCHANGED authorityVars,
         request' \in Request \cup {NoRequest},
         dryRun' \in DryRun \cup {NoDryRun},
         result' \in {"NONE", "BLOCKED", "EXECUTED"},
         sims' \in Nat,
         acts' \in Nat
  PROVE  Typed'
<1>1. /\ rec' \in Recommendation
      /\ workflows' \in [WorkflowIds -> Workflow \cup {Missing}]
      /\ granted' \in [WorkflowIds -> Workflow \cup {Missing}]
      /\ faults' \in 0..MaxFaults
      /\ UNCHANGED <<changes, created>>
  BY DEF Typed, TypeOK, authorityVars
<1>2. QED
  BY <1>1, StepTyped

\* And for a step of the call alone.
LEMMA CallStepTyped ==
  ASSUME Typed, NEW p \in Callers, NEW c \in CallRecord, Goes(p, c),
         Submits(c) => Submits(call[p]),
         UNCHANGED <<authorityVars, executionVars>>
  PROVE  Typed'
<1>1. /\ rec' \in Recommendation
      /\ workflows' \in [WorkflowIds -> Workflow \cup {Missing}]
      /\ granted' \in [WorkflowIds -> Workflow \cup {Missing}]
      /\ faults' \in 0..MaxFaults
      /\ UNCHANGED <<changes, created>>
  BY DEF Typed, TypeOK, authorityVars
<1>2. /\ request' \in Request \cup {NoRequest}
      /\ dryRun' \in DryRun \cup {NoDryRun}
      /\ result' \in {"NONE", "BLOCKED", "EXECUTED"}
      /\ sims' \in Nat
      /\ acts' \in Nat
  BY DEF Typed, TypeOK, executionVars
<1>3. QED
  BY <1>1, <1>2, StepTyped

\* Submission: a new submission is within the bound, and the workflow it creates
\* takes the place of the submission.
LEMMA SubmissionTyped ==
  ASSUME Typed, NEW p \in Callers, UNCHANGED executionVars
  PROVE  /\ SubmitValidates(p) => Typed'
         /\ SubmitChecks(p) => Typed'
         /\ \A risk \in Submitted : SubmitSaves(p, risk) => Typed'
<1>1. /\ IsFiniteSet(Submitting)
      /\ Cardinality(Submitting) \in Nat
  <2>1. Submitting \in SUBSET Callers
    BY DEF Submitting
  <2>2. IsFiniteSet(Submitting)
    BY <2>1, AuthorityAssumption, FS_Subset
  <2>3. QED
    BY <2>2, FS_CardinalityType
<1>2. TypeOK /\ SubmitBound /\ created \in Nat /\ MaxWorkflows \in Nat
  BY RecommendationAssumption DEF Typed, TypeOK
<1>3. ASSUME SubmitValidates(p) PROVE Typed'
  <2>1. /\ IsAt(p, "idle")
        /\ created + Cardinality(Submitting) < MaxWorkflows
        /\ Goes(p, [at |-> "submit: check"])
        /\ UNCHANGED <<rec, changes, workflows, created, granted, faults>>
    BY <1>3 DEF SubmitValidates
  <2>2. [at |-> "submit: check"] \in CallRecord
    BY CallPlaces
  <2>3. call' \in [Callers -> CallRecord]
    BY <1>2, <2>1, <2>2, Moves
  <2>4. TypeOK'
    BY <1>2, <2>1, <2>3 DEF TypeOK, executionVars
  <2>5. Submitting' = Submitting \cup {p}
    BY <1>2, <2>1 DEF Submitting, Goes, TypeOK
  <2>6. /\ Cardinality(Submitting') \in Nat
        /\ Cardinality(Submitting') <= Cardinality(Submitting) + 1
    BY <1>1, <2>5, FS_AddElement
  <2>7. SubmitBound'
    <3>1. created' = created /\ created + Cardinality(Submitting) < MaxWorkflows
      BY <2>1
    <3>2. created' + Cardinality(Submitting') <= MaxWorkflows
      BY <1>1, <1>2, <2>6, <3>1
    <3>3. QED
      BY <3>2 DEF SubmitBound
  <2>8. QED
    BY <2>4, <2>7 DEF Typed
<1>4. ASSUME SubmitChecks(p) PROVE Typed'
  <2>1. Submits(call[p])
    BY <1>4 DEF SubmitChecks, IsAt, Submits
  <2>2. PICK c \in CallRecord : Goes(p, c)
    BY <1>4, CallPlaces DEF SubmitChecks, Returns
  <2>3. UNCHANGED <<authorityVars, executionVars>>
    BY <1>4 DEF SubmitChecks, authorityVars
  <2>4. QED
    BY <2>1, <2>2, <2>3, CallStepTyped
<1>5. ASSUME NEW risk \in Submitted, SubmitSaves(p, risk) PROVE Typed'
  <2> DEFINE c == [at |-> "link", workflow |-> created + 1, state |-> "PENDING_APPROVAL",
                   final |-> FALSE]
  <2>1. /\ IsAt(p, "submit: save")
        /\ created' = created + 1
        /\ workflows' = [workflows EXCEPT ![created + 1] = NewWorkflow(risk)]
        /\ Goes(p, c)
        /\ UNCHANGED <<rec, changes, granted, faults>>
    BY <1>5 DEF SubmitSaves
  <2>2. p \in Submitting
    BY <2>1 DEF Submitting, IsAt
  <2>3. Cardinality(Submitting) # 0
    BY <1>1, <2>2, FS_EmptySet
  <2>4. created + 1 \in WorkflowIds
    BY <1>1, <1>2, <2>3 DEF SubmitBound, WorkflowIds
  <2>5. c \in CallRecord
    BY <2>4, CallPlaces DEF ApprovalStates
  <2>6. c.at = "link"
    OBVIOUS
  <2> HIDE DEF c
  <2>7. /\ call' \in [Callers -> CallRecord]
        /\ call'[p] = c
        /\ \A q \in Callers : q # p => call'[q] = call[q]
    BY <1>2, <2>1, <2>5, Moves
  <2>8. NewWorkflow(risk) \in Workflow
    <3>1. risk \in RiskClasses
      BY AuthorityAssumption
    <3>2. <<>> \in Seq(Actors)
      OBVIOUS
    <3>3. QED
      BY <3>1, <3>2 DEF NewWorkflow, Workflow, ApprovalStates
  <2>9. TypeOK'
    <3>1. workflows' \in [WorkflowIds -> Workflow \cup {Missing}]
      BY <1>2, <2>1, <2>4, <2>8 DEF TypeOK
    <3>2. created' \in 0..MaxWorkflows
      <4>1. created' = created + 1
        BY <2>1
      <4>2. QED
        BY <1>2, <2>4, <4>1 DEF WorkflowIds
    <3>3. QED
      BY <1>2, <2>1, <2>7, <3>1, <3>2 DEF TypeOK, executionVars
  <2>10. Submitting' = Submitting \ {p}
    BY <2>6, <2>7 DEF Submitting
  <2>11. /\ Cardinality(Submitting') \in Nat
         /\ Cardinality(Submitting') = Cardinality(Submitting) - 1
    <3>1. Cardinality(Submitting') = Cardinality(Submitting) - 1
      BY <1>1, <2>2, <2>10, FS_RemoveElement
    <3>2. QED
      BY <1>1, <2>3, <3>1
  <2>12. SubmitBound'
    <3>1. created + Cardinality(Submitting) <= MaxWorkflows
      BY <1>2 DEF SubmitBound
    <3>2. created' = created + 1
      BY <2>1
    <3>3. created' + Cardinality(Submitting') <= MaxWorkflows
      BY <1>1, <1>2, <2>11, <3>1, <3>2
    <3>4. QED
      BY <3>3 DEF SubmitBound
  <2>13. QED
    BY <2>9, <2>12 DEF Typed
<1>6. QED
  BY <1>3, <1>4, <1>5

\* Decisions and the link.
LEMMA DecisionTyped ==
  ASSUME Typed, NEW p \in Callers, UNCHANGED executionVars
  PROVE  /\ \A w \in WorkflowIds, a \in Actors, role \in Roles :
              Approve(p, w, a, role) => Typed'
         /\ \A w \in WorkflowIds : Reject(p, w) => Typed'
         /\ Link(p) => Typed'
<1>1. /\ rec \in Recommendation
      /\ workflows \in [WorkflowIds -> Workflow \cup {Missing}]
      /\ granted \in [WorkflowIds -> Workflow \cup {Missing}]
      /\ faults \in 0..MaxFaults
      /\ call \in [Callers -> CallRecord]
  BY DEF Typed, TypeOK
<1>2. /\ request' \in Request \cup {NoRequest}
      /\ dryRun' \in DryRun \cup {NoDryRun}
      /\ result' \in {"NONE", "BLOCKED", "EXECUTED"}
      /\ sims' \in Nat
      /\ acts' \in Nat
  BY DEF Typed, TypeOK, executionVars
<1>3. \A w \in Stored : workflows[w] \in Workflow
  BY <1>1 DEF Stored
<1>4. ASSUME NEW w \in WorkflowIds, NEW a \in Actors, NEW role \in Roles,
             Approve(p, w, a, role)
      PROVE  Typed'
  <2> DEFINE f == ApproveWorkflow(workflows[w], a, role)
             final == workflows[w].state # "APPROVED" /\ f.state = "APPROVED"
             c == [at |-> "link", workflow |-> w, state |-> f.state, final |-> final]
  <2>1. /\ w \in Stored
        /\ workflows' = [workflows EXCEPT ![w] = f]
        /\ granted' = IF final THEN [granted EXCEPT ![w] = f] ELSE granted
        /\ Goes(p, c)
        /\ UNCHANGED <<rec, changes, created, faults>>
    BY <1>4 DEF Approve
  <2>2. f \in Workflow
    BY <1>3, <2>1, WorkflowTypes
  <2>3. f.state \in ApprovalStates /\ final \in BOOLEAN
    BY <2>2 DEF Workflow
  <2>4. c \in CallRecord /\ ~Submits(c)
    BY <2>3, CallPlaces DEF Submits
  <2> HIDE DEF c, f, final
  <2>5. /\ workflows' \in [WorkflowIds -> Workflow \cup {Missing}]
        /\ granted' \in [WorkflowIds -> Workflow \cup {Missing}]
    BY <1>1, <2>1, <2>2
  <2>6. QED
    BY <1>1, <1>2, <2>1, <2>4, <2>5, StepTyped
<1>5. ASSUME NEW w \in WorkflowIds, Reject(p, w) PROVE Typed'
  <2> DEFINE c == [at |-> "link", workflow |-> w, state |-> "REJECTED", final |-> FALSE]
  <2>1. /\ w \in Stored
        /\ workflows' = [workflows EXCEPT ![w] = RejectWorkflow(workflows[w])]
        /\ Goes(p, c)
        /\ UNCHANGED <<rec, changes, created, granted, faults>>
    BY <1>5, <1>1 DEF Reject
  <2>2. RejectWorkflow(workflows[w]) \in Workflow
    BY <1>3, <2>1 DEF RejectWorkflow, Workflow, ApprovalStates, Decided
  <2>3. c \in CallRecord /\ ~Submits(c)
    BY CallPlaces DEF Submits, ApprovalStates, Decided
  <2> HIDE DEF c
  <2>4. workflows' \in [WorkflowIds -> Workflow \cup {Missing}]
    BY <1>1, <2>1, <2>2
  <2>5. QED
    BY <1>1, <1>2, <2>1, <2>3, <2>4, StepTyped
<1>6. ASSUME Link(p) PROVE Typed'
  <2>1. /\ call[p].workflow \in WorkflowIds
        /\ call[p].state \in ApprovalStates
    BY <1>1, <1>6, CallFields DEF Link, IsAt
  <2>2. /\ rec' = Linked(rec, call[p].workflow, call[p].state)
        /\ UNCHANGED <<changes, workflows, created, granted, faults>>
    BY <1>6 DEF Link
  <2>3. PICK c \in CallRecord : Goes(p, c) /\ ~Submits(c)
    BY <1>6, <2>1, CallPlaces DEF Link, Returns, Submits, Idle
  <2>4. rec' \in Recommendation
    BY <1>1, <2>1, <2>2, RowTypes
  <2>5. QED
    BY <1>1, <1>2, <2>2, <2>3, <2>4, StepTyped
<1>7. QED
  BY <1>4, <1>5, <1>6

\* Time, faults and changes of the recommendation.
LEMMA EnvironmentTyped ==
  ASSUME Typed
  PROVE  /\ Environment => Typed'
         /\ RecommendationChanges => Typed'
<1>1. TypeOK /\ SubmitBound /\ created \in Nat /\ MaxWorkflows \in Nat
  BY RecommendationAssumption DEF Typed, TypeOK
<1>2. ASSUME NEW w \in WorkflowIds, WorkflowOverdue(w), UNCHANGED executionVars
      PROVE  Typed'
  <2>1. workflows[w] \in Workflow
    BY <1>1, <1>2 DEF WorkflowOverdue, Stored, TypeOK
  <2>2. [workflows[w] EXCEPT !.overdue = TRUE] \in Workflow
    BY <2>1 DEF Workflow
  <2>3. workflows' = [workflows EXCEPT ![w] = [workflows[w] EXCEPT !.overdue = TRUE]]
    BY <1>1, <1>2 DEF WorkflowOverdue, TypeOK
  <2>4. workflows' \in [WorkflowIds -> Workflow \cup {Missing}]
    BY <1>1, <2>2, <2>3 DEF TypeOK
  <2>5. TypeOK'
    BY <1>1, <1>2, <2>4 DEF WorkflowOverdue, TypeOK, executionVars
  <2>6. SubmitBound'
    BY <1>1, <1>2 DEF WorkflowOverdue, SubmitBound, Submitting
  <2>7. QED
    BY <2>5, <2>6 DEF Typed
<1>3. ASSUME NEW p \in Callers, QueryFails(p), UNCHANGED executionVars PROVE Typed'
  <2>1. Goes(p, Idle) /\ Idle \in CallRecord /\ ~Submits(Idle)
    BY <1>3, CallPlaces DEF QueryFails, Returns, Submits, Idle
  <2>2. faults' \in 0..MaxFaults
    BY <1>1, <1>3, AuthorityAssumption DEF QueryFails, TypeOK
  <2>3. QED
    BY <1>1, <1>3, <2>1, <2>2, StepTyped DEF QueryFails, TypeOK, executionVars
<1>4. ASSUME Restart, UNCHANGED executionVars PROVE Typed'
  <2>1. /\ workflows' = [w \in WorkflowIds |-> Missing]
        /\ call' = [p \in Callers |-> Idle]
        /\ UNCHANGED <<rec, changes, created, granted>>
    BY <1>4 DEF Restart
  <2>2. faults' \in 0..MaxFaults
    BY <1>1, <1>4, AuthorityAssumption DEF Restart, TypeOK
  <2>3. TypeOK'
    BY <1>1, <1>4, <2>1, <2>2, CallPlaces DEF TypeOK, executionVars
  <2>4. Submitting' = {}
    BY <2>1 DEF Submitting, Idle
  <2>5. created' + 0 <= MaxWorkflows
    <3>1. created \in 0..MaxWorkflows
      BY <1>1 DEF TypeOK
    <3>2. created' = created
      BY <2>1
    <3>3. QED
      BY <1>1, <3>1, <3>2
  <2>6. SubmitBound'
    BY <2>4, <2>5, FS_EmptySet DEF SubmitBound
  <2>7. QED
    BY <2>3, <2>6 DEF Typed
<1>5. ASSUME RequestOverdue PROVE Typed'
  <2>1. request \in Request
    BY <1>1, <1>5 DEF RequestOverdue, Requested, TypeOK
  <2>2. request' \in Request
    BY <1>5, <2>1 DEF RequestOverdue, Request
  <2>3. TypeOK'
    BY <1>1, <1>5, <2>2 DEF RequestOverdue, TypeOK, authorityVars
  <2>4. SubmitBound'
    BY <1>1, <1>5 DEF RequestOverdue, authorityVars, SubmitBound, Submitting
  <2>5. QED
    BY <2>3, <2>4 DEF Typed
<1>6. ASSUME RecommendationChanges PROVE Typed'
  <2>1. rec' \in Recommendation
    <3>1. /\ rec \in Recommendation
          /\ rec.trusted \in BOOLEAN
      BY <1>1 DEF TypeOK, Recommendation
    <3>2. ASSUME NEW trusted \in BOOLEAN, Regenerate(trusted) PROVE rec' \in Recommendation
      BY <3>1, <3>2, RowTypes DEF Regenerate
    <3>3. ASSUME Recalculate PROVE rec' \in Recommendation
      BY <3>1, <3>3, RowTypes DEF Recalculate
    <3>4. ASSUME ApproveRecommendation PROVE rec' \in Recommendation
      <4> DEFINE row == Upserted(rec, rec.trusted, ReadinessOf(rec.trusted, TRUE))
      <4>1. row \in Recommendation
        BY <3>1, RowTypes
      <4>2. rec' = [row EXCEPT !.approvalRef = TRUE,
                               !.approvalEvent = row.approvalEvent \/
                                                 row.readiness = "AUTO_EXECUTE_ELIGIBLE"]
        BY <3>4, <4>1 DEF ApproveRecommendation, Recommendation
      <4> HIDE DEF row
      <4>3. QED
        BY <4>1, <4>2 DEF Recommendation
    <3>5. ASSUME Block PROVE rec' \in Recommendation
      BY <3>1, <3>5, RowTypes DEF Block, Readinesses
    <3>6. QED
      BY <1>6, <3>2, <3>3, <3>4, <3>5 DEF RecommendationChanges, RecommendationStep
  <2>2. changes' \in 0..MaxChanges
    BY <1>1, <1>6, RecommendationAssumption
       DEF RecommendationChanges, RecommendationStep, TypeOK
  <2>3. UNCHANGED <<workflows, created, granted, faults, call, executionVars>>
    BY <1>6 DEF RecommendationChanges
  <2>4. TypeOK'
    BY <1>1, <2>1, <2>2, <2>3 DEF TypeOK, executionVars
  <2>5. SubmitBound'
    BY <1>1, <2>3 DEF SubmitBound, Submitting
  <2>6. QED
    BY <2>4, <2>5 DEF Typed
<1>7. QED
  BY <1>2, <1>3, <1>4, <1>5, <1>6 DEF Environment

\* Creation and cancellation of the request.
LEMMA RequestTyped ==
  ASSUME Typed, NEW p \in Callers
  PROVE  /\ CreateReads(p) \/ CreateLooks(p) \/ CreateInserts(p) => Typed'
         /\ DirectReads(p) \/ DirectInserts(p) => Typed'
         /\ CancelReads(p) => Typed'
         /\ CancelWrites(p) /\ Requested => Typed'
<1>1. /\ request \in Request \cup {NoRequest}
      /\ dryRun \in DryRun \cup {NoDryRun}
      /\ result \in {"NONE", "BLOCKED", "EXECUTED"}
      /\ sims \in Nat
      /\ acts \in Nat
      /\ call[p] \in CallRecord
  BY DEF Typed, TypeOK
<1>2. Idle \in CallRecord /\ ~Submits(Idle)
  BY CallPlaces DEF Idle, Submits
<1>3. ASSUME CreateReads(p) \/ CreateLooks(p) PROVE Typed'
  <2>1. call[p].workflow \in WorkflowIds
    BY <1>1, <1>3, CallFields DEF CreateReads, CreateLooks, IsAt
  <2>2. PICK c \in CallRecord : Goes(p, c) /\ ~Submits(c)
    BY <1>2, <1>3, <2>1, CallPlaces DEF CreateReads, CreateLooks, Returns, Submits
  <2>3. QED
    BY <1>3, <2>2, CallStepTyped DEF CreateReads, CreateLooks
<1>4. ASSUME CreateInserts(p) PROVE Typed'
  <2>1. call[p].workflow \in WorkflowIds
    BY <1>1, <1>4, CallFields DEF CreateInserts, IsAt
  <2>2. NewRequest(call[p].workflow, "REQUESTED", "PENDING_DRY_RUN") \in Request
    BY <2>1 DEF NewRequest, Request, RequestStates, RequestReadinesses
  <2>3. request' \in Request \cup {NoRequest}
    BY <1>1, <1>4, <2>2 DEF CreateInserts
  <2>4. QED
    BY <1>1, <1>2, <1>4, <2>3, ExecutionStepTyped DEF CreateInserts, Returns
<1>5. ASSUME DirectReads(p) PROVE Typed'
  <2>1. PICK c \in CallRecord : Goes(p, c) /\ ~Submits(c)
    BY <1>5, CallPlaces DEF DirectReads, Submits
  <2>2. QED
    BY <1>5, <2>1, CallStepTyped DEF DirectReads
<1>6. ASSUME DirectInserts(p) PROVE Typed'
  <2>1. call[p].state \in {"REQUESTED", "BLOCKED"}
    BY <1>1, <1>6, CallFields DEF DirectInserts, IsAt
  <2>2. NewRequest(None, call[p].state, "UNSET") \in Request
    BY <2>1 DEF NewRequest, Request, RequestStates, RequestReadinesses
  <2>3. request' \in Request \cup {NoRequest}
    BY <1>1, <1>6, <2>2 DEF DirectInserts
  <2>4. QED
    BY <1>1, <1>2, <1>6, <2>3, ExecutionStepTyped DEF DirectInserts, Returns
<1>7. ASSUME CancelReads(p) PROVE Typed'
  <2>1. [at |-> "cancel: write"] \in CallRecord /\ ~Submits([at |-> "cancel: write"])
    BY CallPlaces DEF Submits
  <2>2. QED
    BY <1>7, <2>1, CallStepTyped DEF CancelReads
<1>8. ASSUME CancelWrites(p), Requested PROVE Typed'
  <2>1. request \in Request
    BY <1>1, <1>8 DEF Requested
  <2>2. request' \in Request \cup {NoRequest}
    BY <1>8, <2>1 DEF CancelWrites, Request, RequestStates
  <2>3. QED
    BY <1>1, <1>2, <1>8, <2>2, ExecutionStepTyped DEF CancelWrites, Returns
<1>9. QED
  BY <1>3, <1>4, <1>5, <1>6, <1>7, <1>8

\* Dry runs.
LEMMA DryRunTyped ==
  ASSUME Typed, NEW p \in Callers, Requested
  PROVE  DryRunReads(p) \/ DryRunSimulates(p) \/ DryRunInserts(p) \/ DryRunUpdates(p)
           => Typed'
<1>1. /\ request \in Request
      /\ dryRun \in DryRun \cup {NoDryRun}
      /\ result \in {"NONE", "BLOCKED", "EXECUTED"}
      /\ sims \in Nat
      /\ acts \in Nat
      /\ call[p] \in CallRecord
  BY DEF Typed, TypeOK, Requested
<1>2. Idle \in CallRecord /\ ~Submits(Idle)
  BY CallPlaces DEF Idle, Submits
<1>3. ASSUME DryRunReads(p) PROVE Typed'
  <2>1. /\ [at |-> "dry run: simulate"] \in CallRecord
        /\ ~Submits([at |-> "dry run: simulate"])
    BY CallPlaces DEF Submits
  <2>2. QED
    BY <1>3, <2>1, CallStepTyped DEF DryRunReads
<1>4. ASSUME DryRunSimulates(p) PROVE Typed'
  <2>1. [at |-> sims + 1, state |-> Simulated] \in DryRun
    BY <1>1 DEF DryRun, Simulated, SimulationStates
  <2>2. PICK c \in CallRecord : Goes(p, c) /\ ~Submits(c)
    BY <1>2, <1>4, <2>1, CallPlaces DEF DryRunSimulates, Returns, Submits
  <2>3. /\ sims' = sims \/ sims' = sims + 1
        /\ UNCHANGED <<authorityVars, request, dryRun, result, acts>>
    BY <1>4 DEF DryRunSimulates
  <2>4. sims' \in Nat
    BY <1>1, <2>3
  <2>5. QED
    BY <1>1, <2>2, <2>3, <2>4, ExecutionStepTyped
<1>5. ASSUME DryRunInserts(p) PROVE Typed'
  <2>1. call[p].row \in DryRun
    BY <1>1, <1>5, CallFields DEF DryRunInserts, IsAt
  <2>2. NextReadiness(call[p].row.state) \in RequestReadinesses
    BY <2>1 DEF NextReadiness, DryRun, SimulationStates, RequestReadinesses
  <2>3. PICK c \in CallRecord : Goes(p, c) /\ ~Submits(c)
    BY <1>5, <2>2, CallPlaces DEF DryRunInserts, Submits
  <2>4. dryRun' \in DryRun \cup {NoDryRun}
    BY <1>1, <1>5, <2>1 DEF DryRunInserts
  <2>5. QED
    BY <1>1, <1>5, <2>3, <2>4, ExecutionStepTyped DEF DryRunInserts
<1>6. ASSUME DryRunUpdates(p) PROVE Typed'
  <2>1. call[p].readiness \in RequestReadinesses
    BY <1>1, <1>6, CallFields DEF DryRunUpdates, IsAt
  <2>2. request' \in Request
    BY <1>1, <1>6, <2>1 DEF DryRunUpdates, Request
  <2>3. QED
    BY <1>1, <1>2, <1>6, <2>2, ExecutionStepTyped DEF DryRunUpdates, Returns
<1>7. QED
  BY <1>3, <1>4, <1>5, <1>6

\* The steps of execute that read, decide and go on.
ExecuteReads(p) ==
  \/ ExecuteReadsResult(p) \/ ExecuteReadsRequest(p) \/ ExecuteReadsReadiness(p)
  \/ ExecuteReadsDryRun(p) \/ ExecuteReadsRecommendation(p) \/ ExecuteStarts(p)

LEMMA ExecutionTyped ==
  ASSUME Typed, NEW p \in Callers, Requested
  PROVE  /\ ExecuteReads(p) => Typed'
         /\ ExecuteActs(p) \/ ExecuteRecords(p) => Typed'
         /\ ExecuteUpdatesState(p) \/ ExecuteUpdatesReadiness(p) => Typed'
<1>1. /\ request \in Request
      /\ dryRun \in DryRun \cup {NoDryRun}
      /\ result \in {"NONE", "BLOCKED", "EXECUTED"}
      /\ sims \in Nat
      /\ acts \in Nat
      /\ call[p] \in CallRecord
  BY DEF Typed, TypeOK, Requested
<1>2. Idle \in CallRecord /\ ~Submits(Idle)
  BY CallPlaces DEF Idle, Submits
<1>3. ASSUME ExecuteReads(p) PROVE Typed'
  <2>1. PICK c \in CallRecord : Goes(p, c) /\ ~Submits(c)
    BY <1>3, CallPlaces
       DEF ExecuteReads, ExecuteReadsResult, ExecuteReadsRequest, ExecuteReadsReadiness,
           ExecuteReadsDryRun, ExecuteReadsRecommendation, ExecuteStarts, PassesTo, Submits
  <2>2. UNCHANGED <<authorityVars, executionVars>>
    BY <1>3
       DEF ExecuteReads, ExecuteReadsResult, ExecuteReadsRequest, ExecuteReadsReadiness,
           ExecuteReadsDryRun, ExecuteReadsRecommendation, ExecuteStarts, PassesTo
  <2>3. QED
    BY <2>1, <2>2, CallStepTyped
<1>4. ASSUME ExecuteActs(p) PROVE Typed'
  <2>1. PICK c \in CallRecord : Goes(p, c) /\ ~Submits(c)
    BY <1>4, CallPlaces DEF ExecuteActs, Submits
  <2>2. /\ acts' = acts + 1
        /\ UNCHANGED <<authorityVars, request, dryRun, result, sims>>
    BY <1>4 DEF ExecuteActs
  <2>3. acts' \in Nat
    BY <1>1, <2>2
  <2>4. QED
    BY <1>1, <2>1, <2>2, <2>3, ExecutionStepTyped
<1>5. ASSUME ExecuteRecords(p) PROVE Typed'
  <2>1. call[p].state \in {"BLOCKED", "EXECUTED"}
    BY <1>1, <1>5, CallFields DEF ExecuteRecords, IsAt
  <2>2. PICK c \in CallRecord : Goes(p, c) /\ ~Submits(c)
    BY <1>2, <1>5, <2>1, CallPlaces DEF ExecuteRecords, Returns, Submits
  <2>3. QED
    BY <1>1, <1>5, <2>1, <2>2, ExecutionStepTyped DEF ExecuteRecords
<1>6. ASSUME ExecuteUpdatesState(p) PROVE Typed'
  <2>1. call[p].state \in {"BLOCKED", "EXECUTED"}
    BY <1>1, <1>6, CallFields DEF ExecuteUpdatesState, IsAt
  <2>2. PICK c \in CallRecord : Goes(p, c) /\ ~Submits(c)
    BY <1>6, <2>1, CallPlaces DEF ExecuteUpdatesState, Submits
  <2>3. request' \in Request
    BY <1>1, <1>6, <2>1 DEF ExecuteUpdatesState, Request, RequestStates
  <2>4. QED
    BY <1>1, <1>6, <2>2, <2>3, ExecutionStepTyped DEF ExecuteUpdatesState
<1>7. ASSUME ExecuteUpdatesReadiness(p) PROVE Typed'
  <2>1. request' \in Request
    BY <1>1, <1>7 DEF ExecuteUpdatesReadiness, Request, RequestReadinesses
  <2>2. QED
    BY <1>1, <1>2, <1>7, <2>1, ExecutionStepTyped DEF ExecuteUpdatesReadiness, Returns
<1>8. QED
  BY <1>3, <1>4, <1>5, <1>6, <1>7

-----------------------------------------------------------------------------
(* The inductive invariant.  That execute acts in the name of an approved  *)
(* workflow is not visible in any one state it reads: it rests on what the *)
(* calls that came before must have seen.                                  *)

\* Where a call takes the request for granted, where it creates one, and where
\* execute has passed the dry run.
UsesRequest ==
  {"cancel: write", "dry run: simulate", "dry run: insert", "dry run: update",
   "execute: request", "execute: readiness", "execute: dry run",
   "execute: recommendation", "execute: start", "execute: act", "execute: record",
   "execute: state", "execute: update"}
Creating == {"create: read", "create: look", "create: insert"}
Cleared  == {"execute: recommendation", "execute: start", "execute: act"}

Granted(w) == granted[w] # Missing

\* What a call in flight carries is still so when it is used.
CallOK(c) ==
  /\ c.at = "link" /\ (c.final \/ c.state = "APPROVED") => Granted(c.workflow)
  /\ c.at \in Creating => Granted(c.workflow)
  /\ c.at \in UsesRequest => Requested
  /\ c.at = "dry run: insert" /\ c.row.state = "READY_FOR_EXECUTION" =>
       request.workflow # None
  /\ c.at \in Cleared => dryRun # NoDryRun /\ request.workflow # None
  /\ c.at = "execute: record" /\ c.state = "EXECUTED" => acts > 0

\* No actor approves twice, and a workflow that is open lacks an approval.
Separate(s) == \A i, j \in 1..Len(s) : i # j => s[i] # s[j]

WorkflowOK(f) ==
  /\ Separate(f.approvals)
  /\ f.state \notin Decided => Len(f.approvals) < Stages(f.risk)

WorkflowsOK ==
  \A w \in WorkflowIds : workflows[w] # Missing =>
    /\ WorkflowOK(workflows[w])
    /\ workflows[w].state = "APPROVED" => Granted(w)

GrantsOK ==
  \A w \in WorkflowIds : Granted(w) =>
    /\ Separate(granted[w].approvals)
    /\ Len(granted[w].approvals) = Stages(granted[w].risk)

RequestOK == Requested /\ request.workflow # None => Granted(request.workflow)

DryRunOK ==
  dryRun # NoDryRun =>
    /\ Requested
    /\ dryRun.state = "READY_FOR_EXECUTION" => request.workflow # None

CallsOK == \A p \in Callers : CallOK(call[p])

IInv ==
  /\ Typed
  /\ CallsOK
  /\ WorkflowsOK
  /\ GrantsOK
  /\ LinkIsTruthful
  /\ RequestOK
  /\ DryRunOK
  /\ ActsAreApproved

\* A step that takes back no grant, request, dry run or action.
Grows ==
  /\ \A w \in WorkflowIds : Granted(w) => granted'[w] # Missing
  /\ Requested => request' # NoRequest /\ request'.workflow = request.workflow
  /\ dryRun # NoDryRun => dryRun' # NoDryRun
  /\ acts > 0 => acts' > 0

\* No step takes anything back.
LEMMA NextGrows ==
  ASSUME Typed, CallsOK, Next
  PROVE  Grows
<1>1. /\ request \in Request \cup {NoRequest}
      /\ dryRun \in DryRun \cup {NoDryRun}
      /\ acts \in Nat
      /\ granted \in [WorkflowIds -> Workflow \cup {Missing}]
      /\ workflows \in [WorkflowIds -> Workflow \cup {Missing}]
      /\ call \in [Callers -> CallRecord]
  BY DEF Typed, TypeOK
<1>2. Requested => request \in Request
  BY <1>1 DEF Requested
<1>3. CASE UNCHANGED <<granted, request, dryRun, acts>>
  BY <1>1, <1>3 DEF Grows, Granted, Requested
<1>4. ASSUME NEW p \in Callers, NEW w \in WorkflowIds, NEW a \in Actors, NEW role \in Roles,
             Approve(p, w, a, role), UNCHANGED executionVars
      PROVE  Grows
  <2> DEFINE f == ApproveWorkflow(workflows[w], a, role)
  <2>1. workflows[w] \in Workflow
    BY <1>1, <1>4 DEF Approve, Stored
  <2>2. f \in Workflow
    BY <2>1, WorkflowTypes
  <2>3. granted' = granted \/ granted' = [granted EXCEPT ![w] = f]
    BY <1>4 DEF Approve
  <2>4. \A x \in WorkflowIds : Granted(x) => granted'[x] # Missing
    <3> HIDE DEF f
    <3>1. QED
      BY <1>1, <2>2, <2>3, NullsAreNone DEF Granted
  <2>5. UNCHANGED <<request, dryRun, acts>>
    BY <1>4 DEF executionVars
  <2>6. QED
    BY <1>1, <2>4, <2>5 DEF Grows, Requested
<1>5. ASSUME NEW p \in Callers, CreateInserts(p) \/ DirectInserts(p) PROVE Grows
  <2>1. /\ Requested => request' = request
        /\ UNCHANGED <<granted, dryRun, acts>>
    BY <1>5 DEF CreateInserts, DirectInserts, authorityVars
  <2>2. QED
    BY <1>1, <2>1 DEF Grows, Granted, Requested
<1>6. ASSUME NEW p \in Callers,
             \/ CancelWrites(p) \/ DryRunUpdates(p)
             \/ ExecuteUpdatesState(p) \/ ExecuteUpdatesReadiness(p)
      PROVE  Grows
  <2>1. Requested /\ request \in Request
    BY <1>2, <1>6 DEF CallsOK, CallOK, UsesRequest, IsAt, CancelWrites, DryRunUpdates,
                      ExecuteUpdatesState, ExecuteUpdatesReadiness
  <2>2. UNCHANGED <<granted, dryRun, acts>>
    BY <1>6 DEF CancelWrites, DryRunUpdates, ExecuteUpdatesState, ExecuteUpdatesReadiness,
                authorityVars
  <2>3. request'.workflow = request.workflow
    BY <1>6, <2>1 DEF CancelWrites, DryRunUpdates, ExecuteUpdatesState,
                      ExecuteUpdatesReadiness, Request
  <2>4. request' # NoRequest
    <3>1. \E s, r : \/ request' = [request EXCEPT !.state = s]
                    \/ request' = [request EXCEPT !.readiness = r]
      BY <1>6 DEF CancelWrites, DryRunUpdates, ExecuteUpdatesState, ExecuteUpdatesReadiness
    <3>2. QED
      BY <2>1, <3>1 DEF Request, NoRequest
  <2>5. QED
    BY <1>1, <2>2, <2>3, <2>4 DEF Grows, Granted, Requested
<1>7. ASSUME NEW p \in Callers, DryRunInserts(p) PROVE Grows
  <2>1. call[p].row \in DryRun
    BY <1>1, <1>7, CallFields DEF DryRunInserts, IsAt
  <2>2. dryRun # NoDryRun => dryRun' # NoDryRun
    BY <1>7, <2>1, NullsAreNone DEF DryRunInserts
  <2>3. UNCHANGED <<granted, request, acts>>
    BY <1>7 DEF DryRunInserts, authorityVars
  <2>4. QED
    BY <1>1, <2>2, <2>3 DEF Grows, Granted, Requested
<1>8. ASSUME NEW p \in Callers, ExecuteActs(p) PROVE Grows
  <2>1. acts' = acts + 1 /\ UNCHANGED <<granted, request, dryRun>>
    BY <1>8 DEF ExecuteActs, authorityVars
  <2>2. acts' > 0
    BY <1>1, <2>1
  <2>3. QED
    BY <2>1, <2>2 DEF Grows, Granted, Requested
<1>9. ASSUME RequestOverdue PROVE Grows
  <2>1. request \in Request
    BY <1>2, <1>9 DEF RequestOverdue
  <2>2. /\ request' \in Request /\ request'.workflow = request.workflow
        /\ UNCHANGED <<granted, dryRun, acts>>
    BY <1>9, <2>1 DEF RequestOverdue, Request, authorityVars
  <2>3. QED
    BY <1>1, <2>2, NullsAreNone DEF Grows, Granted, Requested
<1>10. QED
  <2>1. ASSUME NEW p \in Callers, Begins(p) PROVE Grows
    BY <1>3, <1>4, <2>1
       DEF Begins, SubmitValidates, Reject, DirectReads, CancelReads, DryRunReads,
           ExecuteReadsResult, authorityVars, executionVars
  <2>2. ASSUME NEW p \in Callers, Continues(p) PROVE Grows
    BY <1>3, <1>5, <1>6, <1>7, <1>8, <2>2
       DEF Continues, SubmitChecks, SubmitSaves, Link, CreateReads, CreateLooks,
           DryRunSimulates, ExecuteReadsRequest, ExecuteReadsReadiness, ExecuteReadsDryRun,
           ExecuteReadsRecommendation, ExecuteStarts, PassesTo, ExecuteRecords,
           authorityVars, executionVars
  <2>3. ASSUME RecommendationChanges \/ Environment PROVE Grows
    BY <1>3, <1>9, <2>3
       DEF RecommendationChanges, Environment, WorkflowOverdue, QueryFails, Restart,
           executionVars
  <2>4. QED
    BY <2>1, <2>2, <2>3 DEF Next

-----------------------------------------------------------------------------
(* Calls in flight.                                                        *)

\* What a call carries stays so while the call waits.
LEMMA WaitingCallOK ==
  ASSUME Typed, NEW q \in Callers, CallOK(call[q]), Grows, call'[q] = call[q]
  PROVE  CallOK(call[q])'
<1>1. call[q] \in CallRecord /\ acts \in Nat
  BY DEF Typed, TypeOK
<1>2. \A w \in WorkflowIds : Granted(w) => Granted(w)'
  BY DEF Grows, Granted
<1>3. Requested => Requested' /\ request'.workflow = request.workflow
  BY DEF Grows, Requested
<1>4. call[q].at = "dry run: insert" \/ call[q].at \in Cleared => Requested
  BY DEF CallOK, UsesRequest, Cleared
<1>5. /\ call[q].at = "link" => call[q].workflow \in WorkflowIds
      /\ call[q].at \in Creating => call[q].workflow \in WorkflowIds
  BY <1>1, CallFields DEF Creating
<1>6. (call[q].at = "link" /\ (call[q].final \/ call[q].state = "APPROVED") =>
         Granted(call[q].workflow))'
  BY <1>2, <1>5 DEF CallOK, Granted
<1>7. (call[q].at \in Creating => Granted(call[q].workflow))'
  BY <1>2, <1>5 DEF CallOK, Granted, Creating
<1>8. (call[q].at \in UsesRequest => Requested)'
  BY <1>3 DEF CallOK, UsesRequest
<1>9. (call[q].at = "dry run: insert" /\ call[q].row.state = "READY_FOR_EXECUTION" =>
         request.workflow # None)'
  BY <1>3, <1>4 DEF CallOK, None
<1>10. (call[q].at \in Cleared => dryRun # NoDryRun /\ request.workflow # None)'
  BY <1>3, <1>4 DEF CallOK, Cleared, Grows, None, NoDryRun
<1>11. (call[q].at = "execute: record" /\ call[q].state = "EXECUTED" => acts > 0)'
  BY DEF CallOK, Grows
<1>12. QED
  BY <1>6, <1>7, <1>8, <1>9, <1>10, <1>11 DEF CallOK

\* So a step of the call p needs a look at where p goes, and at nothing else.
LEMMA MovingCallOK ==
  ASSUME Typed, CallsOK, Grows, NEW p \in Callers, NEW c, Goes(p, c), CallOK(c)'
  PROVE  CallsOK'
<1>1. call'[p] = c /\ \A q \in Callers : q # p => call'[q] = call[q]
  BY DEF Typed, TypeOK, Goes
<1>2. CallOK(call[p])'
  BY <1>1 DEF CallOK
<1>3. \A q \in Callers : q # p => CallOK(call[q])'
  BY <1>1, WaitingCallOK DEF CallsOK
<1>4. QED
  BY <1>2, <1>3 DEF CallsOK

\* A call that ends, or goes where it relies on nothing.
LEMMA FreeCallOK ==
  ASSUME Typed, CallsOK, Grows, NEW p \in Callers, NEW c, Goes(p, c),
         c.at \in {"idle", "submit: check", "submit: save", "direct: insert"}
  PROVE  CallsOK'
<1>1. CallOK(c)'
  BY DEF CallOK, Creating, UsesRequest, Cleared
<1>2. QED
  BY <1>1, MovingCallOK

\* A call that goes where it relies on the request alone.
LEMMA RequestCallOK ==
  ASSUME Typed, CallsOK, Grows, NEW p \in Callers, NEW c, Goes(p, c), Requested,
         \/ c.at \in {"cancel: write", "dry run: simulate", "dry run: update",
                      "execute: request", "execute: readiness", "execute: dry run",
                      "execute: state", "execute: update"}
         \/ c.at = "execute: record" /\ c.state = "BLOCKED"
  PROVE  CallsOK'
<1>1. Requested'
  BY DEF Grows, Requested
<1>2. CallOK(c)'
  BY <1>1 DEF CallOK, Creating, UsesRequest, Cleared
<1>3. QED
  BY <1>2, MovingCallOK

\* Submissions, decisions and the link: what approve takes to the link, and the
\* link to the creation of the request, was granted.
LEMMA AuthorityCallsOK ==
  ASSUME Typed, CallsOK, WorkflowsOK, Grows, NEW p \in Callers
  PROVE  /\ SubmitValidates(p) \/ SubmitChecks(p) => CallsOK'
         /\ \A risk \in Submitted : SubmitSaves(p, risk) => CallsOK'
         /\ \A w \in WorkflowIds, a \in Actors, role \in Roles :
              Approve(p, w, a, role) => CallsOK'
         /\ \A w \in WorkflowIds : Reject(p, w) => CallsOK'
         /\ Link(p) => CallsOK'
<1>1. ASSUME NEW w, NEW s, NEW final \in BOOLEAN,
             Goes(p, [at |-> "link", workflow |-> w, state |-> s, final |-> final]),
             final \/ s = "APPROVED" => granted'[w] # Missing
      PROVE  CallsOK'
  <2> DEFINE c == [at |-> "link", workflow |-> w, state |-> s, final |-> final]
  <2>1. c.at = "link" /\ c.workflow = w /\ c.state = s /\ c.final = final
    OBVIOUS
  <2> HIDE DEF c
  <2>2. CallOK(c)'
    BY <1>1, <2>1 DEF CallOK, Creating, UsesRequest, Cleared, Granted
  <2>3. Goes(p, c)
    BY <1>1 DEF c
  <2>4. QED
    BY <2>2, <2>3, MovingCallOK
<1>2. ASSUME SubmitValidates(p) \/ SubmitChecks(p) PROVE CallsOK'
  <2>1. PICK c \in CallRecord :
          Goes(p, c) /\ c.at \in {"idle", "submit: check", "submit: save"}
    BY <1>2, CallPlaces DEF SubmitValidates, SubmitChecks, Returns, Idle
  <2>2. QED
    BY <2>1, FreeCallOK
<1>3. ASSUME NEW risk \in Submitted, SubmitSaves(p, risk) PROVE CallsOK'
  <2> DEFINE s == "PENDING_APPROVAL"
             final == FALSE
  <2>1. Goes(p, [at |-> "link", workflow |-> created + 1, state |-> s, final |-> final])
    BY <1>3 DEF SubmitSaves
  <2>2. final \in BOOLEAN /\ ~final /\ s # "APPROVED"
    OBVIOUS
  <2> HIDE DEF s, final
  <2>3. QED
    BY <1>1, <2>1, <2>2
<1>4. ASSUME NEW w \in WorkflowIds, NEW a \in Actors, NEW role \in Roles,
             Approve(p, w, a, role)
      PROVE  CallsOK'
  <2> DEFINE f == ApproveWorkflow(workflows[w], a, role)
             final == workflows[w].state # "APPROVED" /\ f.state = "APPROVED"
             c == [at |-> "link", workflow |-> w, state |-> f.state, final |-> final]
  <2>1. /\ w \in Stored
        /\ granted' = IF final THEN [granted EXCEPT ![w] = f] ELSE granted
        /\ Goes(p, c)
    BY <1>4 DEF Approve
  <2>2. workflows[w] \in Workflow
    BY <2>1 DEF Typed, TypeOK, Stored
  <2>3. f \in Workflow
    BY <2>2, WorkflowTypes
  <2>4. f.state = "APPROVED" => granted'[w] # Missing
    <3>1. granted \in [WorkflowIds -> Workflow \cup {Missing}]
      BY DEF Typed, TypeOK
    <3>2. workflows[w].state = "APPROVED" => Granted(w)
      BY <2>1 DEF WorkflowsOK, Stored
    <3> HIDE DEF f
    <3>3. QED
      BY <2>1, <2>3, <3>1, <3>2, NullsAreNone DEF Granted
  <2>5. final \in BOOLEAN /\ (final => f.state = "APPROVED")
    OBVIOUS
  <2> HIDE DEF f, final
  <2>6. QED
    BY <1>1, <2>1, <2>4, <2>5
<1>5. ASSUME NEW w \in WorkflowIds, Reject(p, w) PROVE CallsOK'
  <2> DEFINE s == "REJECTED"
             final == FALSE
  <2>1. Goes(p, [at |-> "link", workflow |-> w, state |-> s, final |-> final])
    BY <1>5 DEF Reject
  <2>2. final \in BOOLEAN /\ ~final /\ s # "APPROVED"
    OBVIOUS
  <2> HIDE DEF s, final
  <2>3. QED
    BY <1>1, <2>1, <2>2
<1>6. ASSUME Link(p) PROVE CallsOK'
  <2>1. CASE call[p].final
    <3>1. call[p].workflow \in WorkflowIds
      BY <1>6, CallFields DEF Link, IsAt, Typed, TypeOK
    <3>2. PICK c \in CallRecord :
            /\ Goes(p, c)
            /\ c.at = "create: read" /\ c.workflow = call[p].workflow
      BY <1>6, <2>1, <3>1, CallPlaces DEF Link
    <3>3. Granted(call[p].workflow) /\ UNCHANGED granted
      BY <1>6, <2>1 DEF CallsOK, CallOK, Link, IsAt
    <3>4. CallOK(c)'
      BY <3>2, <3>3 DEF CallOK, Creating, UsesRequest, Cleared, Granted
    <3>5. QED
      BY <3>2, <3>4, MovingCallOK
  <2>2. CASE ~call[p].final
    <3>1. Goes(p, Idle) /\ Idle.at = "idle"
      BY <1>6, <2>2 DEF Link, Returns, Idle
    <3>2. QED
      BY <3>1, FreeCallOK
  <2>3. QED
    BY <2>1, <2>2
<1>7. QED
  BY <1>2, <1>3, <1>4, <1>5, <1>6

\* Creation and cancellation of the request.
LEMMA RequestCallsOK ==
  ASSUME Typed, CallsOK, Grows, NEW p \in Callers
  PROVE  /\ CreateReads(p) \/ CreateLooks(p) \/ CreateInserts(p) => CallsOK'
         /\ DirectReads(p) \/ DirectInserts(p) => CallsOK'
         /\ CancelReads(p) \/ CancelWrites(p) => CallsOK'
<1>1. Returns(p) => CallsOK'
  BY FreeCallOK DEF Returns, Idle
<1>2. ASSUME CreateReads(p) \/ CreateLooks(p) PROVE CallsOK'
  <2>1. call[p].workflow \in WorkflowIds
    BY <1>2, CallFields DEF CreateReads, CreateLooks, IsAt, Typed, TypeOK
  <2>2. CASE ~Returns(p)
    <3>1. PICK c \in CallRecord :
            /\ Goes(p, c)
            /\ c.at \in {"create: look", "create: insert"}
            /\ c.workflow = call[p].workflow
      BY <1>2, <2>1, <2>2, CallPlaces DEF CreateReads, CreateLooks
    <3>2. Granted(call[p].workflow) /\ UNCHANGED granted
      BY <1>2 DEF CallsOK, CallOK, Creating, CreateReads, CreateLooks, IsAt, authorityVars
    <3>3. CallOK(c)'
      BY <3>1, <3>2 DEF CallOK, Creating, UsesRequest, Cleared, Granted
    <3>4. QED
      BY <3>1, <3>3, MovingCallOK
  <2>3. QED
    BY <1>1, <2>2
<1>3. ASSUME CreateInserts(p) \/ DirectInserts(p) \/ CancelWrites(p) PROVE CallsOK'
  BY <1>1, <1>3 DEF CreateInserts, DirectInserts, CancelWrites
<1>4. ASSUME DirectReads(p) PROVE CallsOK'
  <2>1. PICK c \in CallRecord : Goes(p, c) /\ c.at = "direct: insert"
    BY <1>4, CallPlaces DEF DirectReads
  <2>2. QED
    BY <2>1, FreeCallOK
<1>5. ASSUME CancelReads(p) PROVE CallsOK'
  <2>1. PICK c \in CallRecord : Goes(p, c) /\ c.at = "cancel: write"
    BY <1>5, CallPlaces DEF CancelReads
  <2>2. Requested
    BY <1>5 DEF CancelReads
  <2>3. QED
    BY <2>1, <2>2, RequestCallOK
<1>6. QED
  BY <1>2, <1>3, <1>4, <1>5

\* Dry runs: a simulation that finds the request ready has seen its workflow.
LEMMA DryRunCallsOK ==
  ASSUME Typed, CallsOK, Grows, NEW p \in Callers
  PROVE  DryRunReads(p) \/ DryRunSimulates(p) \/ DryRunInserts(p) \/ DryRunUpdates(p)
           => CallsOK'
<1>1. Returns(p) => CallsOK'
  BY FreeCallOK DEF Returns, Idle
<1>2. ASSUME DryRunReads(p) PROVE CallsOK'
  <2>1. PICK c \in CallRecord : Goes(p, c) /\ c.at = "dry run: simulate"
    BY <1>2, CallPlaces DEF DryRunReads
  <2>2. Requested
    BY <1>2 DEF DryRunReads
  <2>3. QED
    BY <2>1, <2>2, RequestCallOK
<1>3. ASSUME DryRunSimulates(p) PROVE CallsOK'
  <2>1. Requested /\ UNCHANGED request
    BY <1>3 DEF CallsOK, CallOK, UsesRequest, DryRunSimulates, IsAt
  <2>2. Simulated = "READY_FOR_EXECUTION" => request.workflow # None
    BY DEF Simulated
  <2>3. CASE ~Returns(p)
    <3>1. [at |-> sims + 1, state |-> Simulated] \in DryRun
      BY DEF Typed, TypeOK, DryRun, Simulated, SimulationStates
    <3>2. PICK c \in CallRecord :
            /\ Goes(p, c)
            /\ c.at = "dry run: insert"
            /\ c.row.state = Simulated
      BY <1>3, <2>3, <3>1, CallPlaces DEF DryRunSimulates
    <3>3. (/\ Requested
           /\ c.row.state = "READY_FOR_EXECUTION" => request.workflow # None)'
      BY <2>1, <2>2, <3>2 DEF Requested, None
    <3>4. CallOK(c)'
      BY <3>2, <3>3 DEF CallOK, Creating, UsesRequest, Cleared
    <3>5. QED
      BY <3>2, <3>4, MovingCallOK
  <2>4. QED
    BY <1>1, <2>3
<1>4. ASSUME DryRunInserts(p) PROVE CallsOK'
  <2> DEFINE c == [at |-> "dry run: update", readiness |-> NextReadiness(call[p].row.state)]
  <2>1. Goes(p, c) /\ c.at = "dry run: update"
    BY <1>4 DEF DryRunInserts
  <2>2. Requested
    BY <1>4 DEF CallsOK, CallOK, UsesRequest, DryRunInserts, IsAt
  <2> HIDE DEF c
  <2>3. QED
    BY <2>1, <2>2, RequestCallOK
<1>5. ASSUME DryRunUpdates(p) PROVE CallsOK'
  BY <1>1, <1>5 DEF DryRunUpdates
<1>6. QED
  BY <1>2, <1>3, <1>4, <1>5

\* Execution: a call is cleared by a dry run that found the request ready, and
\* records EXECUTED only after it has acted.
LEMMA ExecutionCallsOK ==
  ASSUME Typed, CallsOK, DryRunOK, Grows, NEW p \in Callers
  PROVE  /\ ExecuteReads(p) => CallsOK'
         /\ ExecuteActs(p) \/ ExecuteRecords(p) => CallsOK'
         /\ ExecuteUpdatesState(p) \/ ExecuteUpdatesReadiness(p) => CallsOK'
<1>1. Returns(p) => CallsOK'
  BY FreeCallOK DEF Returns, Idle
<1>2. call[p].at \in UsesRequest => Requested
  BY DEF CallsOK, CallOK
<1>3. ASSUME Requested, Goes(p, [at |-> "execute: record", state |-> "BLOCKED"])
      PROVE  CallsOK'
  <2>1. PICK c \in CallRecord : Goes(p, c) /\ c.at = "execute: record" /\ c.state = "BLOCKED"
    BY <1>3, CallPlaces
  <2>2. QED
    BY <1>3, <2>1, RequestCallOK
<1>4. ASSUME \/ ExecuteReadsResult(p) \/ ExecuteReadsRequest(p) \/ ExecuteReadsReadiness(p)
      PROVE  CallsOK'
  <2>1. Requested
    BY <1>2, <1>4 DEF UsesRequest, IsAt, ExecuteReadsResult, ExecuteReadsRequest,
                      ExecuteReadsReadiness
  <2>2. CASE ~Goes(p, [at |-> "execute: record", state |-> "BLOCKED"])
    <3>1. PICK c \in CallRecord :
            /\ Goes(p, c)
            /\ c.at \in {"execute: request", "execute: readiness", "execute: dry run"}
      BY <1>4, <2>2, CallPlaces DEF ExecuteReadsResult, ExecuteReadsRequest,
                                    ExecuteReadsReadiness, PassesTo
    <3>2. QED
      BY <2>1, <3>1, RequestCallOK
  <2>3. QED
    BY <1>3, <2>1, <2>2
<1>5. ASSUME ExecuteReadsDryRun(p) \/ ExecuteReadsRecommendation(p) \/ ExecuteStarts(p)
      PROVE  CallsOK'
  <2>1. Requested /\ UNCHANGED <<request, dryRun>>
    BY <1>2, <1>5 DEF UsesRequest, IsAt, ExecuteReadsDryRun, ExecuteReadsRecommendation,
                      ExecuteStarts, PassesTo, executionVars
  <2>2. CASE ~Goes(p, [at |-> "execute: record", state |-> "BLOCKED"])
    <3>1. PICK c \in CallRecord : Goes(p, c) /\ c.at \in Cleared
      BY <1>5, <2>2, CallPlaces DEF ExecuteReadsDryRun, ExecuteReadsRecommendation,
                                    ExecuteStarts, PassesTo, Cleared
    <3>2. call[p].at \in Cleared \/ dryRun.state = "READY_FOR_EXECUTION"
      BY <1>5, <2>2 DEF Cleared, IsAt, ExecuteReadsDryRun, ExecuteReadsRecommendation,
                        ExecuteStarts, PassesTo
    <3>3. dryRun # NoDryRun /\ request.workflow # None
      <4>1. call[p].at \in Cleared => dryRun # NoDryRun /\ request.workflow # None
        BY DEF CallsOK, CallOK
      <4>2. dryRun.state = "READY_FOR_EXECUTION" => dryRun # NoDryRun
        BY DEF NoDryRun
      <4>3. QED
        BY <3>2, <4>1, <4>2 DEF DryRunOK
    <3>4. (Requested /\ dryRun # NoDryRun /\ request.workflow # None)'
      BY <2>1, <3>3 DEF Requested, None, NoDryRun
    <3>5. CallOK(c)'
      BY <3>1, <3>4 DEF CallOK, Creating, UsesRequest, Cleared
    <3>6. QED
      BY <3>1, <3>5, MovingCallOK
  <2>3. QED
    BY <1>3, <2>1, <2>2
<1>6. ASSUME ExecuteActs(p) PROVE CallsOK'
  <2>1. acts' > 0
    <3>1. acts \in Nat /\ acts' = acts + 1
      BY <1>6 DEF ExecuteActs, Typed, TypeOK
    <3>2. QED
      BY <3>1
  <2>2. Requested'
    BY <1>2, <1>6 DEF UsesRequest, ExecuteActs, IsAt, Grows, Requested
  <2>3. PICK c \in CallRecord : Goes(p, c) /\ c.at = "execute: record"
    BY <1>6, CallPlaces DEF ExecuteActs
  <2>4. CallOK(c)'
    BY <2>1, <2>2, <2>3 DEF CallOK, Creating, UsesRequest, Cleared
  <2>5. QED
    BY <2>3, <2>4, MovingCallOK
<1>7. ASSUME ExecuteRecords(p) \/ ExecuteUpdatesState(p) PROVE CallsOK'
  <2>1. call[p].state \in {"BLOCKED", "EXECUTED"}
    BY <1>7, CallFields DEF ExecuteRecords, ExecuteUpdatesState, IsAt, Typed, TypeOK
  <2>2. Requested
    BY <1>2, <1>7 DEF UsesRequest, ExecuteRecords, ExecuteUpdatesState, IsAt
  <2>3. CASE ~Returns(p)
    <3>1. PICK c \in CallRecord :
            Goes(p, c) /\ c.at \in {"execute: state", "execute: update"}
      BY <1>7, <2>1, <2>3, CallPlaces DEF ExecuteRecords, ExecuteUpdatesState
    <3>2. QED
      BY <2>2, <3>1, RequestCallOK
  <2>4. QED
    BY <1>1, <2>3
<1>8. ASSUME ExecuteUpdatesReadiness(p) PROVE CallsOK'
  BY <1>1, <1>8 DEF ExecuteUpdatesReadiness
<1>9. QED
  BY <1>4, <1>5, <1>6, <1>7, <1>8 DEF ExecuteReads

\* Time, faults and changes of the recommendation.
LEMMA EnvironmentCallsOK ==
  ASSUME Typed, CallsOK, Grows
  PROVE  /\ Environment => CallsOK'
         /\ RecommendationChanges => CallsOK'
<1>1. ASSUME UNCHANGED call PROVE CallsOK'
  BY <1>1, WaitingCallOK DEF CallsOK
<1>2. ASSUME NEW p \in Callers, QueryFails(p) PROVE CallsOK'
  BY <1>2, FreeCallOK DEF QueryFails, Returns, Idle
<1>3. ASSUME Restart PROVE CallsOK'
  <2>1. \A p \in Callers : call'[p].at = "idle"
    BY <1>3 DEF Restart, Idle
  <2>2. QED
    BY <2>1 DEF CallsOK, CallOK, Creating, UsesRequest, Cleared
<1>4. QED
  BY <1>1, <1>2, <1>3
     DEF Environment, WorkflowOverdue, RequestOverdue, RecommendationChanges

-----------------------------------------------------------------------------
(* The store of workflows and what was granted.                            *)

\* The stages of a risk class are at least one.
LEMMA StagesType ==
  \A risk \in RiskClasses : Stages(risk) \in Nat
  BY DEF Stages

\* An approval by an actor who has not approved keeps the approvers apart.
LEMMA AppendSeparate ==
  ASSUME NEW s \in Seq(Actors), NEW a \in Actors, Separate(s), a \notin Approvers(s)
  PROVE  Separate(Append(s, a)) /\ Len(Append(s, a)) = Len(s) + 1
<1>1. /\ Len(s) \in Nat
      /\ Len(Append(s, a)) = Len(s) + 1
      /\ \A i \in 1..Len(s) : Append(s, a)[i] = s[i]
      /\ Append(s, a)[Len(s) + 1] = a
  OBVIOUS
<1>2. \A i \in 1..Len(s) : s[i] # a
  BY DEF Approvers
<1>3. \A i \in 1..(Len(s) + 1) : i \in 1..Len(s) \/ i = Len(s) + 1
  BY <1>1
<1>4. ASSUME NEW i \in 1..(Len(s) + 1), NEW j \in 1..(Len(s) + 1), i # j
      PROVE  Append(s, a)[i] # Append(s, a)[j]
  <2>1. CASE i \in 1..Len(s) /\ j \in 1..Len(s)
    BY <1>1, <1>4, <2>1 DEF Separate
  <2>2. CASE i \in 1..Len(s) /\ j = Len(s) + 1
    BY <1>1, <1>2, <2>2
  <2>3. CASE i = Len(s) + 1 /\ j \in 1..Len(s)
    BY <1>1, <1>2, <2>3
  <2>4. QED
    BY <1>3, <1>4, <2>1, <2>2, <2>3
<1>5. QED
  BY <1>1, <1>4 DEF Separate

\* The engine keeps workflows as they must be, and what it approves has the
\* approval of every stage.
LEMMA EngineKeeps ==
  ASSUME NEW f \in Workflow, WorkflowOK(f), NEW a \in Actors, NEW role \in Roles
  PROVE  /\ WorkflowOK(ApproveWorkflow(f, a, role))
         /\ f.state # "APPROVED" /\ ApproveWorkflow(f, a, role).state = "APPROVED" =>
              LET g == ApproveWorkflow(f, a, role) IN Len(g.approvals) = Stages(g.risk)
<1> DEFINE g == ApproveWorkflow(f, a, role)
<1>1. /\ f.approvals \in Seq(Actors) /\ Len(f.approvals) \in Nat
      /\ f.risk \in RiskClasses /\ Stages(f.risk) \in Nat
      /\ f.state \in ApprovalStates
  BY StagesType DEF Workflow
<1>2. CASE g = f
  BY <1>2
<1>3. CASE g = [f EXCEPT !.state = "EXPIRED"]
  <2>1. g.state = "EXPIRED" /\ g.approvals = f.approvals
    BY <1>3 DEF Workflow
  <2>2. QED
    BY <2>1 DEF WorkflowOK, Decided
<1>4. CASE /\ f.state \notin Decided
           /\ CanActorApprove(f, a, role)
           /\ g = WithApproval(f, a)
  <2>1. /\ g.risk = f.risk
        /\ g.approvals = Append(f.approvals, a)
        /\ g.state = IF Len(f.approvals) + 1 = Stages(f.risk) THEN "APPROVED"
                                                          ELSE "PARTIALLY_APPROVED"
    BY <1>4 DEF WithApproval, Workflow
  <2>2. Separate(f.approvals) /\ Len(f.approvals) < Stages(f.risk)
    BY <1>4 DEF WorkflowOK
  <2>3. Separate(g.approvals) /\ Len(g.approvals) = Len(f.approvals) + 1
    BY <1>1, <1>4, <2>1, <2>2, AppendSeparate DEF CanActorApprove
  <2> HIDE DEF g
  <2>4. g.state \notin Decided => Len(g.approvals) < Stages(g.risk)
    <3>1. g.state \notin Decided => Len(f.approvals) + 1 # Stages(f.risk)
      BY <2>1 DEF Decided
    <3>2. QED
      BY <1>1, <2>1, <2>2, <2>3, <3>1
  <2>5. g.state = "APPROVED" => Len(g.approvals) = Stages(g.risk)
    BY <2>1, <2>3
  <2>6. QED
    BY <2>3, <2>4, <2>5 DEF WorkflowOK, g
<1>5. QED
  BY <1>2, <1>3, <1>4 DEF ApproveWorkflow

\* Every step keeps the store and the grants as they must be.
LEMMA WorkflowsKept ==
  ASSUME Typed, WorkflowsOK, GrantsOK, Grows, Next
  PROVE  WorkflowsOK' /\ GrantsOK'
<1>1. /\ workflows \in [WorkflowIds -> Workflow \cup {Missing}]
      /\ granted \in [WorkflowIds -> Workflow \cup {Missing}]
  BY DEF Typed, TypeOK
<1>2. ASSUME UNCHANGED <<workflows, granted>> PROVE WorkflowsOK' /\ GrantsOK'
  BY <1>2 DEF WorkflowsOK, GrantsOK, Granted
<1>3. ASSUME NEW w, NEW f, WorkflowOK(f),
             workflows' = [workflows EXCEPT ![w] = f],
             f.state = "APPROVED" => granted'[w] # Missing
      PROVE  WorkflowsOK'
  <2>1. ASSUME NEW x \in WorkflowIds, workflows'[x] # Missing
        PROVE  WorkflowOK(workflows'[x]) /\ (workflows'[x].state = "APPROVED" =>
                                               granted'[x] # Missing)
    <3>1. CASE x = w
      BY <1>1, <1>3, <2>1, <3>1
    <3>2. CASE x # w
      <4>1. workflows'[x] = workflows[x]
        BY <1>1, <1>3, <3>2
      <4>2. Granted(x) => granted'[x] # Missing
        BY DEF Grows
      <4>3. QED
        BY <2>1, <4>1, <4>2 DEF WorkflowsOK
    <3>3. QED
      BY <3>1, <3>2
  <2>2. QED
    BY <2>1 DEF WorkflowsOK, Granted
<1>4. ASSUME UNCHANGED granted PROVE GrantsOK'
  BY <1>4 DEF GrantsOK, Granted
<1>5. ASSUME NEW p \in Callers, NEW risk \in Submitted, SubmitSaves(p, risk)
      PROVE  WorkflowsOK' /\ GrantsOK'
  <2> DEFINE f == NewWorkflow(risk)
  <2>1. f.state = "PENDING_APPROVAL" /\ f.approvals = <<>> /\ f.risk = risk
    BY DEF NewWorkflow
  <2> HIDE DEF f
  <2>2. Separate(f.approvals) /\ Len(f.approvals) = 0
    BY <2>1 DEF Separate
  <2>3. 0 < Stages(f.risk)
    BY DEF Stages
  <2>4. WorkflowOK(f)
    BY <2>2, <2>3 DEF WorkflowOK
  <2>5. UNCHANGED granted /\ workflows' = [workflows EXCEPT ![created + 1] = f]
    BY <1>5 DEF SubmitSaves, f
  <2>6. QED
    BY <1>3, <1>4, <2>1, <2>4, <2>5
<1>6. ASSUME NEW p \in Callers, NEW w \in WorkflowIds, NEW a \in Actors, NEW role \in Roles,
             Approve(p, w, a, role)
      PROVE  WorkflowsOK' /\ GrantsOK'
  <2> DEFINE f == ApproveWorkflow(workflows[w], a, role)
  <2>1. /\ workflows[w] \in Workflow
        /\ WorkflowOK(workflows[w])
        /\ workflows[w].state = "APPROVED" => Granted(w)
    BY <1>1, <1>6 DEF Approve, Stored, WorkflowsOK
  <2>2. /\ f \in Workflow
        /\ WorkflowOK(f)
        /\ workflows[w].state # "APPROVED" /\ f.state = "APPROVED" =>
             Len(f.approvals) = Stages(f.risk)
    BY <2>1, EngineKeeps, WorkflowTypes
  <2>3. /\ workflows' = [workflows EXCEPT ![w] = f]
        /\ granted' = IF workflows[w].state # "APPROVED" /\ f.state = "APPROVED"
                      THEN [granted EXCEPT ![w] = f] ELSE granted
    BY <1>6 DEF Approve
  <2> HIDE DEF f
  <2>4. f.state = "APPROVED" => granted'[w] # Missing
    BY <1>1, <2>1, <2>2, <2>3, NullsAreNone DEF Granted
  <2>5. WorkflowsOK'
    BY <1>3, <2>2, <2>3, <2>4
  <2>6. CASE workflows[w].state # "APPROVED" /\ f.state = "APPROVED"
    <3>1. granted' = [granted EXCEPT ![w] = f]
      BY <2>3, <2>6
    <3>2. Separate(f.approvals) /\ Len(f.approvals) = Stages(f.risk)
      BY <2>2, <2>6 DEF WorkflowOK
    <3>3. ASSUME NEW x \in WorkflowIds, granted'[x] # Missing
          PROVE  /\ Separate(granted'[x].approvals)
                 /\ Len(granted'[x].approvals) = Stages(granted'[x].risk)
      <4>1. CASE x = w
        BY <1>1, <3>1, <3>2, <4>1
      <4>2. CASE x # w
        BY <1>1, <3>1, <3>3, <4>2 DEF GrantsOK, Granted
      <4>3. QED
        BY <4>1, <4>2
    <3>4. GrantsOK'
      BY <3>3 DEF GrantsOK, Granted
    <3>5. QED
      BY <2>5, <3>4
  <2>7. QED
    BY <1>4, <2>3, <2>5, <2>6
<1>7. ASSUME NEW p \in Callers, NEW w \in WorkflowIds, Reject(p, w)
      PROVE  WorkflowsOK' /\ GrantsOK'
  <2> DEFINE f == RejectWorkflow(workflows[w])
  <2>1. workflows[w] \in Workflow /\ WorkflowOK(workflows[w])
    BY <1>1, <1>7 DEF Reject, Stored, WorkflowsOK
  <2>2. f.state = "REJECTED" /\ f.approvals = workflows[w].approvals
    BY <2>1 DEF RejectWorkflow, Workflow
  <2>3. UNCHANGED granted /\ workflows' = [workflows EXCEPT ![w] = f]
    BY <1>1, <1>7 DEF Reject
  <2> HIDE DEF f
  <2>4. WorkflowOK(f)
    BY <2>1, <2>2 DEF WorkflowOK, Decided
  <2>5. QED
    BY <1>3, <1>4, <2>2, <2>3, <2>4
<1>8. ASSUME NEW w \in WorkflowIds, WorkflowOverdue(w) PROVE WorkflowsOK' /\ GrantsOK'
  <2> DEFINE f == [workflows[w] EXCEPT !.overdue = TRUE]
  <2>1. /\ workflows[w] \in Workflow /\ WorkflowOK(workflows[w])
        /\ workflows[w].state = "APPROVED" => Granted(w)
    BY <1>1, <1>8 DEF WorkflowOverdue, Stored, WorkflowsOK
  <2>2. /\ f.state = workflows[w].state
        /\ f.approvals = workflows[w].approvals
        /\ f.risk = workflows[w].risk
    BY <2>1 DEF Workflow
  <2>3. UNCHANGED granted /\ workflows' = [workflows EXCEPT ![w] = f]
    BY <1>1, <1>8 DEF WorkflowOverdue
  <2> HIDE DEF f
  <2>4. WorkflowOK(f)
    BY <2>1, <2>2 DEF WorkflowOK
  <2>5. f.state = "APPROVED" => granted'[w] # Missing
    BY <2>1, <2>2, <2>3 DEF Granted
  <2>6. QED
    BY <1>3, <1>4, <2>3, <2>4, <2>5
<1>9. ASSUME Restart PROVE WorkflowsOK' /\ GrantsOK'
  BY <1>4, <1>9 DEF Restart, WorkflowsOK
<1>10. QED
  <2>1. ASSUME NEW p \in Callers, Begins(p) PROVE WorkflowsOK' /\ GrantsOK'
    BY <1>2, <1>6, <1>7, <2>1
       DEF Begins, SubmitValidates, DirectReads, CancelReads, DryRunReads,
           ExecuteReadsResult, authorityVars
  <2>2. ASSUME NEW p \in Callers, Continues(p) PROVE WorkflowsOK' /\ GrantsOK'
    <3>1. (\E risk \in Submitted : SubmitSaves(p, risk)) \/ UNCHANGED <<workflows, granted>>
      BY <2>2
         DEF Continues, SubmitChecks, Link, CreateReads, CreateLooks, CreateInserts,
             DirectInserts, CancelWrites, DryRunSimulates, DryRunInserts, DryRunUpdates,
             ExecuteReadsRequest, ExecuteReadsReadiness, ExecuteReadsDryRun,
             ExecuteReadsRecommendation, ExecuteStarts, PassesTo, ExecuteActs,
             ExecuteRecords, ExecuteUpdatesState, ExecuteUpdatesReadiness, authorityVars
    <3>2. QED
      BY <1>2, <1>5, <3>1
  <2>3. ASSUME RecommendationChanges \/ Environment PROVE WorkflowsOK' /\ GrantsOK'
    BY <1>2, <1>8, <1>9, <2>3
       DEF RecommendationChanges, Environment, QueryFails, RequestOverdue, authorityVars
  <2>4. QED
    BY <2>1, <2>2, <2>3 DEF Next

-----------------------------------------------------------------------------
(* The row, the request, its dry run and the actions.                      *)

\* The link writes the state of a workflow with its id, and nothing else touches
\* either.
LEMMA LinkKept ==
  ASSUME Typed, CallsOK, LinkIsTruthful, Grows, Next
  PROVE  LinkIsTruthful'
<1>1. rec \in Recommendation
  BY DEF Typed, TypeOK
<1>2. rec.workflow # None => rec.workflow \in WorkflowIds
  BY <1>1 DEF Recommendation
<1>3. ASSUME rec'.workflow = rec.workflow, rec'.approvalState = rec.approvalState
      PROVE  LinkIsTruthful'
  BY <1>2, <1>3 DEF LinkIsTruthful, Grows, Granted, None
<1>4. ASSUME NEW p \in Callers, Link(p) PROVE LinkIsTruthful'
  <2>1. call[p].workflow \in WorkflowIds /\ call[p].workflow # None
    <3>1. call[p].workflow \in WorkflowIds
      BY <1>4, CallFields DEF Link, IsAt, Typed, TypeOK
    <3>2. QED
      BY <3>1, NullsAreNone
  <2>2. rec'.workflow = call[p].workflow /\ rec'.approvalState = call[p].state
    BY <1>1, <1>4 DEF Link, Linked, Recommendation
  <2>3. call[p].state = "APPROVED" => granted'[call[p].workflow] # Missing
    BY <1>4, <2>1 DEF CallsOK, CallOK, Link, IsAt, Grows, Granted
  <2>4. QED
    BY <2>1, <2>2, <2>3 DEF LinkIsTruthful, None
<1>5. ASSUME RecommendationChanges PROVE LinkIsTruthful'
  <2>1. \A trusted, readiness :
          /\ Upserted(rec, trusted, readiness).workflow = rec.workflow
          /\ Upserted(rec, trusted, readiness).approvalState = rec.approvalState
    BY <1>1 DEF Upserted, Recommendation
  <2>2. CASE ApproveRecommendation
    <3> DEFINE row == Upserted(rec, rec.trusted, ReadinessOf(rec.trusted, TRUE))
    <3>1. row \in Recommendation
      BY <1>1, RowTypes DEF Recommendation
    <3>2. rec'.workflow = row.workflow /\ rec'.approvalState = row.approvalState
      <4>1. \E e : rec' = [row EXCEPT !.approvalRef = TRUE, !.approvalEvent = e]
        BY <2>2 DEF ApproveRecommendation
      <4> HIDE DEF row
      <4>2. QED
        BY <3>1, <4>1 DEF Recommendation
    <3>3. QED
      BY <1>3, <2>1, <3>2
  <2>3. CASE ~ApproveRecommendation
    <3>1. PICK trusted, readiness : rec' = Upserted(rec, trusted, readiness)
      BY <1>5, <2>3
         DEF RecommendationChanges, RecommendationStep, Regenerate, Recalculate, Block
    <3>2. QED
      BY <1>3, <2>1, <3>1
  <2>4. QED
    BY <2>2, <2>3
<1>6. ASSUME UNCHANGED rec PROVE LinkIsTruthful'
  BY <1>3, <1>6
<1>7. QED
  <2>1. ASSUME NEW p \in Callers, Begins(p) PROVE LinkIsTruthful'
    BY <1>6, <2>1
       DEF Begins, SubmitValidates, Approve, Reject, DirectReads, CancelReads, DryRunReads,
           ExecuteReadsResult, authorityVars
  <2>2. ASSUME NEW p \in Callers, Continues(p) PROVE LinkIsTruthful'
    <3>1. Link(p) \/ UNCHANGED rec
      BY <2>2
         DEF Continues, SubmitChecks, SubmitSaves, CreateReads, CreateLooks, CreateInserts,
             DirectInserts, CancelWrites, DryRunSimulates, DryRunInserts, DryRunUpdates,
             ExecuteReadsRequest, ExecuteReadsReadiness, ExecuteReadsDryRun,
             ExecuteReadsRecommendation, ExecuteStarts, PassesTo, ExecuteActs,
             ExecuteRecords, ExecuteUpdatesState, ExecuteUpdatesReadiness, authorityVars
    <3>2. QED
      BY <1>4, <1>6, <3>1
  <2>3. ASSUME RecommendationChanges \/ Environment PROVE LinkIsTruthful'
    BY <1>5, <1>6, <2>3
       DEF Environment, WorkflowOverdue, QueryFails, Restart, RequestOverdue, authorityVars
  <2>4. QED
    BY <2>1, <2>2, <2>3 DEF Next

\* Two steps create the request; no other touches a request that is not there.
LEMMA RequestCreated ==
  ASSUME CallsOK, Next, ~Requested
  PROVE  (\E p \in Callers : CreateInserts(p) \/ DirectInserts(p)) \/ UNCHANGED request
<1>1. ASSUME NEW p \in Callers, Begins(p) PROVE UNCHANGED request
  BY <1>1 DEF Begins, DirectReads, CancelReads, DryRunReads, ExecuteReadsResult,
              executionVars
<1>2. ASSUME NEW p \in Callers, Continues(p)
      PROVE  CreateInserts(p) \/ DirectInserts(p) \/ UNCHANGED request
  <2>1. call[p].at \notin UsesRequest
    BY DEF CallsOK, CallOK
  <2>2. QED
    BY <1>2, <2>1
       DEF Continues, CreateReads, CreateLooks, CancelWrites, DryRunSimulates,
           DryRunInserts, DryRunUpdates, ExecuteReadsRequest, ExecuteReadsReadiness,
           ExecuteReadsDryRun, ExecuteReadsRecommendation, ExecuteStarts, ExecuteActs,
           ExecuteRecords, ExecuteUpdatesState, ExecuteUpdatesReadiness, IsAt, UsesRequest,
           executionVars
<1>3. ASSUME RecommendationChanges \/ Environment PROVE UNCHANGED request
  BY <1>3 DEF RecommendationChanges, Environment, RequestOverdue, executionVars
<1>4. QED
  BY <1>1, <1>2, <1>3 DEF Next

\* The request names no workflow, or one that was approved.
LEMMA RequestKept ==
  ASSUME Typed, CallsOK, RequestOK, Grows, Next
  PROVE  RequestOK'
<1>1. request \in Request \cup {NoRequest}
  BY DEF Typed, TypeOK
<1>2. CASE Requested
  <2>1. request.workflow # None => request.workflow \in WorkflowIds
    BY <1>1, <1>2 DEF Requested, Request
  <2>2. QED
    BY <1>2, <2>1 DEF RequestOK, Grows, Granted, Requested, None
<1>3. CASE ~Requested
  <2>1. ASSUME NEW p \in Callers, CreateInserts(p) PROVE RequestOK'
    <3>1. call[p].workflow \in WorkflowIds /\ Granted(call[p].workflow)
      BY <2>1, CallFields DEF CreateInserts, IsAt, CallsOK, CallOK, Creating, Typed, TypeOK
    <3>2. request'.workflow = call[p].workflow
      BY <1>3, <2>1 DEF CreateInserts, NewRequest
    <3>3. QED
      BY <3>1, <3>2 DEF RequestOK, Grows, Granted
  <2>2. ASSUME NEW p \in Callers, DirectInserts(p) PROVE RequestOK'
    <3>1. request'.workflow = None
      BY <1>3, <2>2 DEF DirectInserts, NewRequest
    <3>2. QED
      BY <3>1 DEF RequestOK, None
  <2>3. ASSUME UNCHANGED request PROVE RequestOK'
    BY <1>3, <2>3 DEF RequestOK, Requested
  <2>4. QED
    BY <1>3, <2>1, <2>2, <2>3, RequestCreated
<1>4. QED
  BY <1>2, <1>3

\* A dry run is of the request, and a ready one has seen its workflow.
LEMMA DryRunKept ==
  ASSUME Typed, CallsOK, DryRunOK, Grows, Next
  PROVE  DryRunOK'
<1>1. ASSUME UNCHANGED dryRun PROVE DryRunOK'
  BY <1>1 DEF DryRunOK, Grows, Requested, None, NoDryRun
<1>2. ASSUME NEW p \in Callers, DryRunInserts(p) PROVE DryRunOK'
  <2>1. /\ Requested
        /\ call[p].row.state = "READY_FOR_EXECUTION" => request.workflow # None
    BY <1>2 DEF CallsOK, CallOK, UsesRequest, DryRunInserts, IsAt
  <2>2. UNCHANGED request /\ (dryRun' = dryRun \/ dryRun' = call[p].row)
    BY <1>2 DEF DryRunInserts
  <2>3. CASE dryRun' = call[p].row
    BY <2>1, <2>2, <2>3 DEF DryRunOK, Requested, None
  <2>4. QED
    BY <1>1, <2>2, <2>3
<1>3. QED
  <2>1. ASSUME NEW p \in Callers, Begins(p) PROVE UNCHANGED dryRun
    BY <2>1 DEF Begins, DirectReads, CancelReads, DryRunReads, ExecuteReadsResult,
                executionVars
  <2>2. ASSUME NEW p \in Callers, Continues(p) PROVE DryRunInserts(p) \/ UNCHANGED dryRun
    BY <2>2
       DEF Continues, CreateReads, CreateLooks, CreateInserts, DirectInserts, CancelWrites,
           DryRunSimulates, DryRunUpdates, ExecuteReadsRequest, ExecuteReadsReadiness,
           ExecuteReadsDryRun, ExecuteReadsRecommendation, ExecuteStarts, PassesTo,
           ExecuteActs, ExecuteRecords, ExecuteUpdatesState, ExecuteUpdatesReadiness,
           executionVars
  <2>3. ASSUME RecommendationChanges \/ Environment PROVE UNCHANGED dryRun
    BY <2>3 DEF RecommendationChanges, Environment, RequestOverdue, executionVars
  <2>4. QED
    BY <1>1, <1>2, <2>1, <2>2, <2>3 DEF Next

\* Only execute acts, and where it acts the request names an approved workflow.
LEMMA ActsKept ==
  ASSUME Typed, CallsOK, RequestOK, ActsAreApproved, Grows, Next
  PROVE  ActsAreApproved'
<1>1. request \in Request \cup {NoRequest}
  BY DEF Typed, TypeOK
<1>2. ASSUME Requested, request.workflow # None, Granted(request.workflow),
             dryRun # NoDryRun
      PROVE  ActsAreApproved'
  <2>1. request.workflow \in WorkflowIds
    BY <1>1, <1>2 DEF Requested, Request
  <2>2. (/\ Requested
         /\ request.workflow # None
         /\ granted[request.workflow] # Missing
         /\ dryRun # NoDryRun)'
    BY <1>2, <2>1 DEF Grows, Granted, Requested, None, NoDryRun
  <2>3. QED
    BY <2>2 DEF ActsAreApproved
<1>3. ASSUME UNCHANGED acts PROVE ActsAreApproved'
  <2>1. CASE acts > 0
    BY <1>2, <2>1 DEF ActsAreApproved, Granted
  <2>2. CASE ~(acts > 0)
    BY <1>3, <2>2 DEF ActsAreApproved
  <2>3. QED
    BY <2>1, <2>2
<1>4. ASSUME NEW p \in Callers, ExecuteActs(p) PROVE ActsAreApproved'
  <2>1. Requested /\ dryRun # NoDryRun /\ request.workflow # None
    BY <1>4 DEF CallsOK, CallOK, UsesRequest, Cleared, ExecuteActs, IsAt
  <2>2. Granted(request.workflow)
    BY <2>1 DEF RequestOK
  <2>3. QED
    BY <1>2, <2>1, <2>2
<1>5. QED
  <2>1. ASSUME NEW p \in Callers, Begins(p) PROVE UNCHANGED acts
    BY <2>1 DEF Begins, DirectReads, CancelReads, DryRunReads, ExecuteReadsResult,
                executionVars
  <2>2. ASSUME NEW p \in Callers, Continues(p) PROVE ExecuteActs(p) \/ UNCHANGED acts
    BY <2>2
       DEF Continues, CreateReads, CreateLooks, CreateInserts, DirectInserts, CancelWrites,
           DryRunSimulates, DryRunInserts, DryRunUpdates, ExecuteReadsRequest,
           ExecuteReadsReadiness, ExecuteReadsDryRun, ExecuteReadsRecommendation,
           ExecuteStarts, PassesTo, ExecuteRecords, ExecuteUpdatesState,
           ExecuteUpdatesReadiness, executionVars
  <2>3. ASSUME RecommendationChanges \/ Environment PROVE UNCHANGED acts
    BY <2>3 DEF RecommendationChanges, Environment, RequestOverdue, executionVars
  <2>4. QED
    BY <1>3, <1>4, <2>1, <2>2, <2>3 DEF Next

-----------------------------------------------------------------------------
(* The invariant holds, and what follows from it.                          *)

\* Every step leaves every variable typed: where the request is taken for granted
\* it is there.
LEMMA NextTyped ==
  ASSUME Typed, CallsOK, Next
  PROVE  Typed'
<1>1. ASSUME NEW p \in Callers, Begins(p) PROVE Typed'
  <2>1. CASE DirectReads(p) \/ CancelReads(p)
    BY <2>1, RequestTyped
  <2>2. CASE DryRunReads(p)
    BY <2>2, DryRunTyped DEF DryRunReads
  <2>3. CASE ExecuteReadsResult(p)
    BY <2>3, ExecutionTyped DEF ExecuteReadsResult, ExecuteReads
  <2>4. CASE /\ \/ SubmitValidates(p)
                \/ \E w \in WorkflowIds : Reject(p, w)
                \/ \E w \in WorkflowIds, a \in Actors, role \in Roles :
                     Approve(p, w, a, role)
             /\ UNCHANGED executionVars
    BY <2>4, SubmissionTyped, DecisionTyped
  <2>5. QED
    BY <1>1, <2>1, <2>2, <2>3, <2>4 DEF Begins
<1>2. ASSUME NEW p \in Callers, Continues(p) PROVE Typed'
  <2>1. CASE call[p].at \in UsesRequest
    <3>1. Requested
      BY <2>1 DEF CallsOK, CallOK
    <3>2. \/ CancelWrites(p)
          \/ DryRunSimulates(p) \/ DryRunInserts(p) \/ DryRunUpdates(p)
          \/ ExecuteReads(p) \/ ExecuteActs(p) \/ ExecuteRecords(p)
          \/ ExecuteUpdatesState(p) \/ ExecuteUpdatesReadiness(p)
      BY <1>2, <2>1
         DEF Continues, SubmitChecks, SubmitSaves, Link, CreateReads, CreateLooks,
             CreateInserts, DirectInserts, IsAt, UsesRequest, ExecuteReads
    <3>3. QED
      BY <3>1, <3>2, RequestTyped, DryRunTyped, ExecutionTyped
  <2>2. CASE call[p].at \notin UsesRequest
    <3>1. \/ /\ SubmitChecks(p) \/ (\E risk \in Submitted : SubmitSaves(p, risk)) \/ Link(p)
             /\ UNCHANGED executionVars
          \/ CreateReads(p) \/ CreateLooks(p) \/ CreateInserts(p) \/ DirectInserts(p)
      BY <1>2, <2>2
         DEF Continues, CancelWrites, DryRunSimulates, DryRunInserts, DryRunUpdates,
             ExecuteReadsRequest, ExecuteReadsReadiness, ExecuteReadsDryRun,
             ExecuteReadsRecommendation, ExecuteStarts, ExecuteActs, ExecuteRecords,
             ExecuteUpdatesState, ExecuteUpdatesReadiness, IsAt, UsesRequest
    <3>2. QED
      BY <3>1, SubmissionTyped, DecisionTyped, RequestTyped
  <2>3. QED
    BY <2>1, <2>2
<1>3. ASSUME RecommendationChanges \/ Environment PROVE Typed'
  BY <1>3, EnvironmentTyped
<1>4. QED
  BY <1>1, <1>2, <1>3 DEF Next

\* What the calls in flight rely on stays so.
LEMMA NextCallsOK ==
  ASSUME Typed, CallsOK, WorkflowsOK, DryRunOK, Grows, Next
  PROVE  CallsOK'
<1>1. ASSUME NEW p \in Callers, Begins(p) PROVE CallsOK'
  BY <1>1, AuthorityCallsOK, RequestCallsOK, DryRunCallsOK, ExecutionCallsOK
     DEF Begins, ExecuteReads
<1>2. ASSUME NEW p \in Callers, Continues(p) PROVE CallsOK'
  BY <1>2, AuthorityCallsOK, RequestCallsOK, DryRunCallsOK, ExecutionCallsOK
     DEF Continues, ExecuteReads
<1>3. ASSUME RecommendationChanges \/ Environment PROVE CallsOK'
  BY <1>3, EnvironmentCallsOK
<1>4. QED
  BY <1>1, <1>2, <1>3 DEF Next

\* A step that changes nothing changes nothing.
LEMMA StutterKeeps ==
  ASSUME IInv, UNCHANGED vars
  PROVE  IInv'
<1>1. Typed'
  BY DEF IInv, vars, Typed, TypeOK, SubmitBound, Submitting
<1>2. CallsOK'
  BY DEF IInv, vars, CallsOK, CallOK, Granted, Requested
<1>3. WorkflowsOK' /\ GrantsOK'
  BY DEF IInv, vars, WorkflowsOK, GrantsOK, Granted
<1>4. LinkIsTruthful' /\ RequestOK' /\ DryRunOK' /\ ActsAreApproved'
  BY DEF IInv, vars, LinkIsTruthful, RequestOK, DryRunOK, ActsAreApproved, Granted, Requested
<1>5. QED
  BY <1>1, <1>2, <1>3, <1>4 DEF IInv

\* In the first state nothing was granted, requested or done.
LEMMA InitInvariant == Init => IInv
<1> SUFFICES ASSUME Init PROVE IInv
  OBVIOUS
<1>1. Typed
  BY InitTyped
<1>2. /\ rec.approvalState = "NOT_SUBMITTED"
      /\ workflows = [w \in WorkflowIds |-> Missing]
      /\ granted = [w \in WorkflowIds |-> Missing]
      /\ call = [p \in Callers |-> Idle]
      /\ ~Requested /\ dryRun = NoDryRun /\ acts = 0
  BY DEF Init, AuthorityInit, RecommendationInit, Requested
<1>3. CallsOK
  <2>1. \A p \in Callers : call[p].at = "idle"
    BY <1>2 DEF Idle
  <2>2. QED
    BY <2>1 DEF CallsOK, CallOK, Creating, UsesRequest, Cleared
<1>4. WorkflowsOK /\ GrantsOK
  BY <1>2 DEF WorkflowsOK, GrantsOK, Granted
<1>5. LinkIsTruthful /\ RequestOK /\ DryRunOK /\ ActsAreApproved
  BY <1>2 DEF LinkIsTruthful, RequestOK, DryRunOK, ActsAreApproved
<1>6. QED
  BY <1>1, <1>3, <1>4, <1>5 DEF IInv

\* The invariant is inductive.
LEMMA NextInvariant ==
  ASSUME IInv, [Next]_vars
  PROVE  IInv'
<1>1. CASE Next
  <2>1. /\ Typed /\ CallsOK /\ WorkflowsOK /\ GrantsOK
        /\ LinkIsTruthful /\ RequestOK /\ DryRunOK /\ ActsAreApproved
    BY DEF IInv
  <2>2. Grows
    BY <1>1, <2>1, NextGrows
  <2>3. Typed' /\ CallsOK'
    BY <1>1, <2>1, <2>2, NextTyped, NextCallsOK
  <2>4. WorkflowsOK' /\ GrantsOK'
    BY <1>1, <2>1, <2>2, WorkflowsKept
  <2>5. LinkIsTruthful' /\ RequestOK' /\ DryRunOK' /\ ActsAreApproved'
    BY <1>1, <2>1, <2>2, LinkKept, RequestKept, DryRunKept, ActsKept
  <2>6. QED
    BY <2>3, <2>4, <2>5 DEF IInv
<1>2. CASE UNCHANGED vars
  BY <1>2, StutterKeeps
<1>3. QED
  BY <1>1, <1>2

\* In every behaviour, whatever requests run at once, queries fail and restarts
\* occur, the invariant holds in every state.
THEOREM Invariant == Spec => []IInv
<1>1. Init => IInv
  BY InitInvariant
<1>2. IInv /\ [Next]_vars => IInv'
  BY NextInvariant
<1>3. QED
  BY <1>1, <1>2, PTL DEF Spec

\* Every variable keeps its type; in particular readinessState never holds a
\* state of a simulation (nextReadiness), and no call carries more than it took.
THEOREM Typing == Spec => []TypeOK
<1>1. IInv => TypeOK
  BY DEF IInv, Typed
<1>2. QED
  BY <1>1, Invariant, PTL

\* execute acts on the provider only for a request that names a workflow which was
\* approved, after a dry run of that request.
THEOREM ApprovedActs == Spec => []ActsAreApproved
<1>1. IInv => ActsAreApproved
  BY DEF IInv
<1>2. QED
  BY <1>1, Invariant, PTL

\* A recommendation row that says APPROVED names an approved workflow, however the
\* calls of linkApprovalWorkflow are delayed and reordered.
THEOREM TruthfulLink == Spec => []LinkIsTruthful
<1>1. IInv => LinkIsTruthful
  BY DEF IInv
<1>2. QED
  BY <1>1, Invariant, PTL

\* Approvers who are all different are as many as their approvals.
LEMMA SeparateCount ==
  ASSUME NEW s \in Seq(Actors), Separate(s)
  PROVE  Cardinality(Approvers(s)) = Len(s)
<1>1. Len(s) \in Nat /\ DOMAIN s = 1..Len(s)
  OBVIOUS
<1>2. [i \in 1..Len(s) |-> s[i]] \in Bijection(1..Len(s), Approvers(s))
  <2> DEFINE f == [i \in 1..Len(s) |-> s[i]]
  <2>1. f \in [1..Len(s) -> Approvers(s)]
    BY DEF Approvers
  <2>2. \A i, j \in 1..Len(s) : f[i] = f[j] => i = j
    BY DEF Separate
  <2>3. \A a \in Approvers(s) : \E i \in 1..Len(s) : f[i] = a
    BY DEF Approvers
  <2> HIDE DEF f
  <2>4. QED
    BY <2>1, <2>2, <2>3 DEF Bijection, Injection, Surjection, IsInjective, f
<1>3. QED
  BY <1>1, <1>2, FS_CountingElements, FS_CardinalityType DEF ExistsBijection

\* approveWorkflow approves a workflow only with the approval of every stage of its
\* risk class, each by another actor (canActorApprove, separationOfDutiesRequired).
THEOREM SeparateApprovals == Spec => []ApprovalsAreSeparate
<1>1. IInv => ApprovalsAreSeparate
  <2> SUFFICES ASSUME IInv, NEW w \in WorkflowIds, granted[w] # Missing
               PROVE  /\ Len(granted[w].approvals) = Stages(granted[w].risk)
                      /\ Cardinality(Approvers(granted[w].approvals))
                           = Len(granted[w].approvals)
    BY DEF ApprovalsAreSeparate
  <2>1. granted[w].approvals \in Seq(Actors)
    BY DEF IInv, Typed, TypeOK, Workflow
  <2>2. /\ Separate(granted[w].approvals)
        /\ Len(granted[w].approvals) = Stages(granted[w].risk)
    BY DEF IInv, GrantsOK, Granted
  <2>3. QED
    BY <2>1, <2>2, SeparateCount
<1>2. QED
  BY <1>1, Invariant, PTL

\* A request created directly stays, and the provider is never acted on for it: it
\* can pass no dry run, whatever is approved later (createFromApprovedWorkflow,
\* runPreflight).
THEOREM DirectRequest == Spec => DirectRequestStays
<1>1. ASSUME IInv, [Next]_vars
      PROVE  Requested /\ request.workflow = None =>
               Requested' /\ request'.workflow = None /\ acts' = acts
  <2>1. CASE UNCHANGED vars
    BY <2>1 DEF vars, Requested
  <2>2. CASE Next
    <3>1. Grows
      BY <1>1, <2>2, NextGrows DEF IInv
    <3>2. IInv'
      BY <1>1, NextInvariant
    <3>3. acts \in Nat /\ acts' \in Nat
      BY <1>1, <3>2 DEF IInv, Typed, TypeOK
    <3>4. Requested /\ request.workflow = None => Requested' /\ request'.workflow = None
      BY <3>1 DEF Grows, Requested
    <3>5. Requested /\ request.workflow = None => ~(acts > 0) /\ ~(acts' > 0)
      BY <1>1, <3>2, <3>4 DEF IInv, ActsAreApproved
    <3>6. QED
      BY <3>3, <3>4, <3>5
  <2>3. QED
    BY <1>1, <2>1, <2>2
<1>2. QED
  BY <1>1, Invariant, PTL DEF Spec, DirectRequestStays

=============================================================================
