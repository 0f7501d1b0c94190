# TLA+ models and proofs of CostOps

CostOps is an "AI Outcome Control Plane": a pnpm monorepo in TypeScript whose API
server (`src/artifacts/api-server`) takes cost recommendations through
*Detect → Trust → Recommend → Approve → Execute → Verify*. This directory holds
TLA+ modules of the parts of that server where order, concurrency and failure
matter, the TLC runs that check them on small instances, and TLAPS proofs for
every value of the constants. Paths below are relative to
`src/artifacts/api-server/src` unless they start with `src/`.

Contents: [inventory](#1-inventory-of-the-system), [modules](#2-modules-and-code),
[runs](#3-runs-bounds-and-fairness), [proofs](#4-proofs),
[disagreements found](#5-disagreements-between-code-and-its-documents),
[limits](#6-not-modelled), [plan](#7-plan), [how to run](#8-how-to-run).

## 1. Inventory of the system

The server is one Node process (Express, Drizzle on PostgreSQL). JavaScript runs
to the next `await` without interruption; at an `await` any other request may run.
What lives in a `Map` is lost on restart; what lives in a table is not. Those three
facts decide the grain of every action here.

### Modelled

| Component | State | Operations | Interacts with | Hard because |
|---|---|---|---|---|
| Job scheduler (`lib/economic-operations-job-scheduler.ts`) | `Map` of job records | enqueue, markRunning, markSucceeded, markFailed, markCancelled, expireStaleJobs, getQueuedJobs | runners, clients | lease of 30 s that nothing renews; late answers written without looking; find-first deduplication |
| Job runner (`lib/economic-operations-job-runner.ts`) | `Set` of running job ids per runner | poll, runJob, runWithLock | scheduler, lock service, handlers | handlers settle in any order; two invocations of a job share one slot |
| In-memory lock service (`lib/distributed-lock-service.ts`) | `Map` from key to holder and expiry | acquireLock, releaseLock, expiry sweep (renewLock and withLock are called by tests only) | runWithLock | a TTL that passes while the holder works; late release |
| Governed recommendations (`lib/recommendations/`) | table `governed_recommendations` | upsert, recalculate, approve, block, linkApprovalWorkflow | playbooks, approval authority, execution | a row written back from a stale copy; a link that counts as an approval |
| Approval authority (`lib/approvals/`) | `Map` of workflows | submitForApproval, approve, reject, expiry | the recommendation row, execution requests | decisions in memory, their consequences in the database after an `await`; restart loses the Map only |
| Execution requests, dry runs, runtime (`lib/execution/`) | tables `execution_requests`, `execution_request_dry_runs`, `execution_results` | createFromApprovedWorkflow, create, cancel, run (dry run), execute | recommendation, approval authority, the provider | a dozen queries in one call, each read stale by the time it is used; an effect outside the database that no transaction covers |
| Database-scheduled jobs (`lib/jobs/scheduler.ts`, `job-runner.ts`, `routes/jobs.ts`) | tables `scheduled_jobs`, `job_runs`; a `Map` of failure counts (`lib/security/runtime-controls.ts`) | run-due, run-now | the handlers of jobs, among them the execution queue | a look for a running run some awaits before one is inserted; a run nobody settles after a crash; a limit compared with a count that lags |
| Execution approvals (`lib/governance/execution-approval-service.ts`) | a row of `execution_approvals` with a hash over it | approve, reject (`routes/governance.ts`); requestApproval and expire are called by tests only | operators | a list of approvers and a hash written from a row read some awaits before; a `jsonb` column that reorders what was hashed |
| Execution orchestration queue (`lib/execution-orchestration/`, its job) | tables of plans, queue items, dependencies, escalations | one pass of the queue; resume, retry, cancel, escalate, resolve or fail a dependency | job runner, execution engine, operators | a row lock of 60 s that nothing renews or looks at again; statuses written unconditionally after an await |

What makes them correct:

- **Jobs**: a job runs twice at a time only if its lease was lost; a RUNNING job has
  somebody who will answer for it; the retry budget is neither exceeded nor left
  unspent at dead-lettering; a settled job stays settled; the job that is first in line is
  taken; a runner exceeds its limit by lost leases only.
- **Locks**: only time takes a lock from its holder, and every lock granted is given back.
- **Approval**: every stage of the risk class has an approval, each by a different
  actor; the row never says APPROVED of a workflow that was not approved.
- **Execution**: the provider is acted on only in the name of an approved workflow and
  after a dry run; every action leaves a result; a recorded result ends execution and is
  true of the call that recorded it.
- **Queue**: two passes work on one item only if a lock was lost; an item is executed again
  only after something made it READY again; what ran is not undone except in a race;
  an escalation is on record; a held lock has a pass that will give it back.
- **Execution approvals**: a row lists only approvals that were given and counts as many as
  required before it says APPROVED; a hash that does not verify has a cause to name.
- **Scheduled jobs**: duplicate runs need a race; a storm of failures stops at its limit but
  for runs already admitted; a run that says RUNNING is settled, and locks are given back.

### Not modelled

| Component | Code | Why |
|---|---|---|
| Database lock rows, dead-letter replay, job metrics | `lib/jobs/distributed-lock.ts`, `dead-letter-service.ts`, ... | nothing in the server calls them |
| Retired approval workflow | `lib/governance/approval-workflow.ts` | `routes/approvals.ts` answers 410 |
| Older execution engine, rollback, M365 executor | `lib/execution/execution-engine.ts`, `rollback-engine.ts`, ... | the queue calls the engine, whose answer is a choice there; rollback and the M365 service are called by tests only |
| Governed actions, approval facade | `lib/actions/`, `lib/approval-authority/` | sequential registers in memory; a later state machine |
| Decision authority; outcomes, ledger, drift | `lib/decision-authority/`, `lib/outcomes/`, ... | record what the modelled parts did and decide nothing for them |
| Connectors and sync | `lib/connectors/`, `lib/sync/` | input and normalisation |
| Playbooks, trust, economics | some 250 directories | pure functions from evidence to scores; they enter as `trusted`, `Risk`, `Confident` |
| Audit, events, evidence | `lib/audit/`, `lib/events/`, ... | append-only; the one event that is read is a field of the row; the middleware that writes the audit chain is mounted nowhere |
| API server, authentication, rate limits | `app.ts`, `routes/` | each route of a modelled service is a caller of its action |
| Runtime support, schema, front end, generated clients | | no logic the models need |

`PROJECT.json` lists every component with its status, and under `hazards` every place
where this code is exposed to something hard to test, with the properties that would
catch it.

## 2. Modules and code

```
JobScheduler ── JobRunner ──┬── MCJobRunner              GovernedRecommendation
                            ├── JobRunnerProofs                   │
DistributedLockService ─────┴── JobRuntime ── MCJobRuntime ApprovalAuthority
                                                                  │
        GovernedAction  ◄──── INSTANCE ──────────────── GovernedExecution
                                                          │            │
                                          MCGovernedExecution   GovernedExecutionProofs
                                                                        │
                                                              GovernedResultProofs

LeasedWork  ◄── INSTANCE ── JobRuntime ── JobRuntimeProofs (and JobRunnerProofs)
            ExecutionOrchestration ──────────────────┬── MCExecutionOrchestration
                                  │                  └── ExecutionOrchestrationProofs
ScheduledJobs ──────────── ScheduledOrchestration ───┬── MCScheduledOrchestration  │
                                                     └── ScheduledOrchestrationProofs
ExecutionApproval ───────────────────────────────────┬── MCExecutionApproval
                                                     └── ExecutionApprovalProofs
```

### The job runtime

**JobScheduler** is the table. A *key* stands for the (tenantId, jobKey, jobType)
triple; ids are numbers in insertion order, because `enqueue` looks for the *first*
record of a key and a Map never reorders. Dates are reduced to the two comparisons the
code makes: `due` (scheduledAt has passed) and `lease = "lapsed"` (lockExpiresAt has
passed). The operations are functions on one record (`Started` is markRunning,
`Failed` markFailed, `Recovered` one turn of expireStaleJobs), because `poll` applies
several of them in one synchronous stretch. `lapses` is a history variable.

**JobRunner** adds runners. `poll` runs up to the call of each handler without an
`await`, so `Poll(w)` is one action: expire, pick a batch, start it. A handler's promise
settles later: `calls` holds the invocations in flight, named by job and attempt, and
`Settle` is the continuation with its `finally`. A job whose type has no handler is
failed whatever its status, as `runJob` does.

**DistributedLockService** is the Map of locks; a TTL passes by `LockExpires`, and the
record stays until some call sweeps it. **JobRuntime** composes it with the runners:
a *task* is one call of `runWithLock`, with a step between any two of its awaits.

In the repository at this commit the scheduler is read by `routes/economic-operations.ts`
but no server loop calls `poll`, and `runWithLock` has no caller: these
models describe the runtime as `src/RUNTIME_OPERATIONS.md` says it is operated.
`stop()` sets a flag that nothing reads and is no action.

**LeasedWork** is what the lock service promises in the abstract: a resource is granted while
nobody holds it and refused only while somebody does, time alone takes it from its holder
(whose work goes on), and whoever leaves gives back his own lock and no other's.
`JobRuntime!ImplementsLeasedWork` maps `working` to the tasks granted a lock key and not done
with it, `holding` to the one of them whose lock is still good, and `refused` to the tasks
turned away. What it adds to LockedTasksExclude is the other direction: neither a lock whose TTL
has passed (`Swept`) nor one that was forgotten turns anybody away. The locks of the execution
queue are not shown to keep it: there a pass or an operator may clear a lock that is another's.

### Governed execution

**GovernedRecommendation** is one row. executionReadiness and recommendationState change
together and are one field; `trusted` stands for the lifecycle TRUSTED with evidence.
`Upserted` has the guard that keeps a BLOCKED row blocked. `RecommendationStep` is
whatever generators and operators do: regenerate, recalculate, approve, block.

**ApprovalAuthority** is the Map of workflows and the requests in flight. The record
`call[p]` says where request `p` waits and what it took with it: `approve` makes its
transition in memory at once (`Approve`), then waits for the row to be linked (`Link`)
*with the state it took along*, then, if it made the final transition, creates the
execution request. `QueryFails` ends a call where it stands; `Restart` forgets the Map
and the calls, and keeps the rows.

**GovernedExecution** adds requests, dry runs and execution. Each query is a step of
its own. `ExecuteReadsResult`, `ExecuteReadsRequest`, ... are the reads of `execute` in
their order; a failing precondition sends the call to record BLOCKED, as in the code.
`ExecuteActs` is the effect on the provider, `ExecuteRecords` the insert that the
unique index guards, and the two updates of `recordResult` are two more steps.
Where the code has two inserts meet on a unique index the second fails
(`CreateInserts`, `DirectInserts`, `ExecuteRecords`).

**GovernedAction** is the abstract specification: workflows are approved; execution is
asked for once, in the name of an approved workflow or of none; an execution begins only while
there is no outcome, acts at most once, and only in the name of an approved workflow, and ends
without an answer only if something failed. The outcome is final, and true of the execution that
recorded it: EXECUTED if that one acted, BLOCKED if it did not. It is *not* always true of
the recommendation: in the code a call that blocks may record BLOCKED after an overlapping
call has acted, and the abstract specification says so. `ImplementsGovernedAction` maps
`approved` to the workflows that ever became APPROVED, `subject` to the workflow the request
names, `begun` and `acted` to the calls of `execute` past their look for a result, before and
after their act, `performed` to the actions and `outcome` to the recorded result.
(`lib/actions` has an unrelated type of
the same name.)

### The execution queue and its scheduler

**ExecutionOrchestration** is the queue by itself. A *pass* is one run of the job
(`jobs/process-execution-orchestration-queue.ts`): release expired locks, escalate what is
past its SLA, select READY items, process them one at a time. An operator's *call* resumes a
plan, retries or cancels an item, cancels a plan, escalates, fails or resolves a dependency.
Each statement of the database is a step; what a pass or call has read is kept in its
record and may be stale when it is used, as in `WriteReadiness` (a verdict written over
whatever the item has become). A lock is `free`, `held` or `stale` (older than 60 s, by
`LockAges`); `lost`, `raced` and `reopened` are history. The gates of the processor that ask
for `blastRadiusBand`, `connectorStatus` or `recentRollbackRate` are dead: no row of the
queue has these columns, so only the runtime controls and the approval of class B can stop
an item. `markFailed` writes attemptCount = 1 on every failure, and the model does too:
an item with more than one attempt is never given up (section 6).

**ScheduledJobs** is run-due and run-now over `scheduled_jobs` and `job_runs`, for any
handler. A *caller* is a request; the look for a RUNNING run (`FindNoDuplicate`), the storm
control (`AdmitRun`), the insert (`StartJobRun`), the handler and the row's end are steps.
A schedule pinned to an hour of the day stays due, as its nextRunAt is computed into the
past (`Pinned`). **ScheduledOrchestration** composes the two: the handler of a run is a pass
of the queue, an error of the pass is the handler's, a crash takes both and keeps the rows.

### Execution approvals

**ExecutionApproval** is a row of `execution_approvals` by itself: no operation touches two
rows, and nothing else that is modelled reads one. `requestApproval` is Init. Each decision
is two steps: `ApproveReads` takes the row along in `call[p]`, and `ApproveWrites` writes
what `Approved` makes of *that* row over the row as it is by then. `approve` and `reject`
look at no status, and `approve` at no earlier approval; `expire` alone asks for a row still
PENDING. The hash is what was hashed, with one bit: the evidence is hashed in the order in
which its keys were merged, and stored in a `jsonb` column, which returns keys in an order of
its own (`inOrder`). `given`, `refused`, `stale` and `overlapped` are history.

Abstractions worth knowing: one recommendation (no operation touches two); every stage
needs one approval (`approval-policy-engine.ts`); ESCALATED is PENDING_APPROVAL, as no
decision tells them apart; delegation only adds to assignments that `canActorApprove`
does not read; a read and the write of one upsert of the row by an operator are one step;
writes no step reads (links, events, evidence) are left out; tables are those of
production, with no fallback to memory.

Operators introduced by "A bug the checks must notice" are mutated forms of the definition
after them. Nothing uses them; they are there to show that each property can fail.

## 3. Runs, bounds and fairness

| Run | Checks | States | Shows |
|---|---|---|---|
| `job_runner` | TypeOK, OverlapNeedsLostLease, RunningIsExecuted, SlotsAreUsed, OnlyLostLeasesGoUncounted, RetryBudget, SettledIsFinal, QueuedJobsAreTaken | 82,179 | two unequal runners, clients, lapsing leases and late handlers keep the table sound, and the job that is first in line of a runner does not stay there |
| `job_runtime` | RuntimeTypeOK, LockedTasksExclude, LocksHaveTasks, LocksAreReleased, SettledUnlessRevived, ImplementsLeasedWork | 104,240 | tasks under one lock exclude each other until a TTL passes, every path gives the lock back, a settled job changes only where the code ignores its status, and the lock service keeps the promise of LeasedWork |
| `governed_execution` | TypeOK, ActsAreApproved, ApprovalsAreSeparate, ActLeavesResult, ActsAreBounded, ResultIsFinal, DirectRequestStays, ImplementsGovernedAction | 1,689,342 | governed execution implements GovernedAction, a result ends execution and tells what its own call did, and repeats of an action are bounded |
| `governed_progress` | LinkIsTruthful, ApprovedGetsRequest | 2,078,877 | overlapping submissions and decisions on two workflows; an approval leads to a request, unless the row is blocked at some moment or something fails |
| `orchestration` | TypeOK, WorkersExclude, HeldLocksHavePasses, EscalatedItemsAreOnRecord, TakenOncePerReadiness, RunsAreUndoneInARace | 1,595,185 | two overlapping passes and two operators' calls on one item, with ageing locks, an SLA and a fault |
| `scheduled_orchestration` | ScheduledTypeOK, StormsAreBounded, RunningRowsAreAwaited, TicksDuplicateInARace, RunsAreSettled, LocksAreGivenBack | 515,352 | two requests to the scheduler drive passes of the queue |
| `execution_approval` | ApprovalsAreGiven, DecisionsAreKept | 1,021,335 | overlapping decisions on one row lose approvals and invent none; when a row verifies |
| `job_retries`, `job_duplicates`, `job_duplicate_execution`, `governed_repeats`, `governed_cancellation` | one property each | | violated: section 5 |

Deadlock is checked in all passing runs but the two of the queue, which really may stop, when
no request comes and no item is READY, and whose bounds on passes, calls and runs end every
history.

**Bounds, and why they are enough.** *job_runner*: two runners (one with two slots, one
with a single slot and a handler missing), two keys (one with a single attempt, one with
two, of different priority), two jobs, one lost lease each. Interference needs two
runners, batches and deduplication need two jobs, a retry needs two attempts, overlap
needs one lapse. *job_runtime*: two tasks contending for one lock, one job of either of
two types, two lock ids, so that a lock can outlive its TTL and be granted again.
*governed_execution*: two calls in flight (every race here is between two), one
workflow, risk class B (two stages) with submissions naming A or B, two actors, one
change of the recommendation, one fault, two dry runs, up to five actions: ActsAreBounded
allows four of two calls and one fault, so the bound never cuts off a fifth.
*governed_progress*: two workflows, for the races of two submissions and of the links of two
decisions, with one actor and one stage, since liveness is checked without symmetry; two
changes of the recommendation, so that a block can be lifted again;
execution is bounded to nothing, as *governed_execution* is there for it.
*orchestration*: two passes (every race of workers is between two), two
calls (a call that overtakes another), one fault, and one item that is enqueued in any of three
ways: ready with one attempt, ready but unapproved, waiting with three attempts for a
dependency that must succeed. No statement relates two items but the selection, which takes
them one after the other.
*scheduled_orchestration*: two requests, one pinned schedule of the queue's job, two runs, one
item and one fault, a storm limit of one failure; operators and the SLA are left to
*orchestration*, since a call does not know what started a pass. One schedule is enough for
a duplicate, because the look is by job type, and run-now is a second way to start it.
*execution_approval*: two calls (a decision that overlaps another), two actors, two approvals
required, four decisions, so that a lost approval can be given again, and two keys of
evidence, the least that can come in two orders. Symmetry (calls, actors) is used only where every
checked property is one of safety and does not tell them apart. Every bound is a constant
of its module with "bound:" in its comment, and the theorems of
section 4 hold for any value of it.

**Fairness.** Jobs (`Fairness`): runners keep polling, scheduledAt arrives, handlers
settle, per runner and job; clients and slow leases owe nothing.
`QueuedJobsAreTaken` promises something only to the job that is first in line: `poll` sorts by
priority and slices, so jobs that others of a higher (or its own) priority keep overtaking may
starve, and two jobs are enough to see one overtaken. Nor does it promise anything where other
callers of `runJob` keep taking the slots. Runtime
(`RuntimeFairness`): the promises of the lock service resolve, so a task takes its next
step. Governed execution (`FairSpec`): a query in flight is answered, possibly by
failing; nobody is obliged to make a request, to decide, or to retry. Hence
`ApprovedGetsRequest` excepts a fault and a recommendation that is BLOCKED at some moment after
the final approval: the code makes one attempt, and when the block is lifted again there is still no
request. Scheduler and queue (`FairScheduledSpec`): a request that has begun
goes on (`RequestStep`) and so does the pass it awaits (`QueueStep`), for each request and
pass, because the statements, the handler and the engine answer, if only by an error; nobody
is obliged to tick, to run a job or to call as an operator. `RunsAreSettled` and
`LocksAreGivenBack` except a fault: a crash leaves a run RUNNING, and every later tick takes
it for a duplicate.

**What the history properties say.** `RunsAreUndoneInARace` and `TakenOncePerReadiness` are
the truth behind two promises: cancelling a running item is "not supported safely yet"
(`tests/execution-orchestration-operator-actions.test.ts`), and "No duplicate queue execution"
(`src/docs/releases/execution-orchestration-v2-runtime-smoke-handoff.md`). A running item *can*
be cancelled and a finished one *can* be executed again; the properties say exactly when: if
a cancellation or a resumption had read the item before a pass took it and writes
afterwards, or if a lock grew old. Without such a race neither happens.

## 4. Proofs

Seven modules prove, for every value of the constants:

| Theorem | States |
|---|---|
| `JobRunnerProofs!Typing` | TypeOK |
| `OverlapTheorem` | OverlapNeedsLostLease |
| `RunningTheorem` | RunningIsExecuted |
| `SlotsTheorem` | SlotsAreUsed |
| `UncountedTheorem` | OnlyLostLeasesGoUncounted |
| `RetryBudgetTheorem` | RetryBudget |
| `SettledTheorem` | SettledIsFinal |
| `GovernedExecutionProofs!Typing` | TypeOK |
| `ApprovedActs` | ActsAreApproved |
| `TruthfulLink` | LinkIsTruthful |
| `SeparateApprovals` | ApprovalsAreSeparate |
| `DirectRequest` | DirectRequestStays |
| `GovernedResultProofs!Refinement` | ImplementsGovernedAction |
| `ActsLeaveResults` | ActLeavesResult |
| `FinalResult` | ResultIsFinal |
| `BoundedActs` | ActsAreBounded |
| `ExecutedInTurn` | what ExecutedOnce (section 5, 4) needs to hold |
| `CancelledInTurn` | what CancelledIsNotExecuted (section 5, 5) needs to hold |
| `BlockedInTurn` | what a recorded BLOCKED needs to mean that the provider was never acted on |
| `JobRuntimeProofs!RuntimeTyping` | RuntimeTypeOK |
| `LocksExclude` | LockedTasksExclude |
| `LocksAreOwned` | LocksHaveTasks |
| `RuntimeRefinement` | ImplementsLeasedWork |
| `RuntimeRunning`, `RuntimeSlots`, `RuntimeBudget` | RunningIsExecuted, SlotsAreUsed, RetryBudget under runWithLock |
| `RuntimeSettled` | SettledUnlessRevived |
| `ExecutionOrchestrationProofs!OrchestrationTyping` | TypeOK |
| `Exclusion` | WorkersExclude |
| `HeldLocks` | HeldLocksHavePasses |
| `TakenOnce` | TakenOncePerReadiness |
| `EscalationsRecorded` | EscalatedItemsAreOnRecord |
| `UndoneInARace` | RunsAreUndoneInARace |
| `ScheduledOrchestrationProofs!ScheduledTyping` | ScheduledTypeOK |
| `BoundedStorms` | StormsAreBounded |
| `AwaitedRuns` | RunningRowsAreAwaited |
| `DuplicatesRace` | TicksDuplicateInARace |
| `ScheduledExclusion` | WorkersExclude, HeldLocksHavePasses, EscalatedItemsAreOnRecord under the scheduler |
| `ScheduledTakenOnce` | TakenOncePerReadiness under the scheduler |
| `ExecutionApprovalProofs!ApprovalTyping` | TypeOK |
| `GivenApprovals` | ApprovalsAreGiven |
| `KeptDecisions` | DecisionsAreKept |

**Assumptions.** For jobs `SchedulerAssumption` (attempt budgets are positive, priorities
and bounds natural, no worker is called "no worker") and `RunnerAssumption`. For governed
execution `RecommendationAssumption`, `AuthorityAssumption` (finitely many requests in
flight; the classes submissions name are risk classes) and `ExecutionAssumption`. For the
runtime `RuntimeAssumption`; for the queue `OrchestrationAssumption` (finitely many items, enqueued in
the states `enqueueItem` computes); for the scheduler `ScheduleAssumption` (finitely many
requests at a time, a positive storm limit) and `QueueAssumption` (as many passes as runs); for
execution approvals `ApprovalAssumption` (the key that reject adds is a key of evidence). TLC
evaluates all of them.

**Jobs.** The invariant is `TypeOK /\ JobsOK /\ CallsKnown /\ SlotsAreUsed`, and JobsOK says
of one job at a time what its record, its lost leases and its invocations in flight have
to do with one another. Two parts strengthen the checked properties: a QUEUED job has an
attempt left once those of its lost leases are discounted, and a RETRY_SCHEDULED one has an
attempt left outright, without which the budget could not be shown to survive markRunning; and the
invocations in flight are counted against the leases lost, so that a late answer of an
invocation that lost its lease pays for the overlap it ends. UncountedTheorem is a consequence:
invocations in flight are bounded by the lost leases plus one, and a job that no id in a Set
stands for has one less. Every operation is shown on
one record (`StartedOK`, `RecoveredOK`, `WaitingFailedOK`, `SettledOK`), and the actions
are compositions.

**Governed execution.** No state that `execute` reads shows that a workflow was approved:
it looks at the request's readiness, at the dry run, and at whether the request *names* a
workflow. The invariant says what the earlier calls must have seen for these to stand
for an approval:

- `CallsOK`: what each call in flight carries is still so (a link that carries APPROVED
  names a granted workflow; a call that creates a request carries one; a call past the dry
  run check has a request that names a workflow; EXECUTED is carried only after an action);
- `RequestOK`, `DryRunOK`: a request names no workflow or a granted one; a dry run that
  found the request ready saw it name one;
- `WorkflowsOK`, `GrantsOK`: approvers differ, an open workflow lacks an approval, a granted
  one lacks none.

It is inductive because nothing is ever taken back (`Grows`, lemma `NextGrows`): a grant,
a request and its workflow, a dry run, an action. That is what makes stale reads harmless
here: `WaitingCallOK` carries every call through every step of the others, and each
action then only needs a look at where its own call goes. Restarts fit in, because
they forget workflows and calls but no row. `GovernedResultProofs` adds where the calls of `execute` stand: without a fault, a
call that acted and did not record yet is about to (`ActRecorded`); with a result
recorded and nothing executing, no call gets past the first look-up (`ConcludedKept`).

`Refinement` shows each step to be one of GovernedAction's. Few steps are visible
(`VisibleSteps`): an approval, an insert of a request, a call past its look for a result
(Begin), its act (Perform), its record (End, whether or not its insert succeeds), and a fault,
after which calls may end unanswered (`FaultsTake`). All others leave the executing calls where
they are (`ExecutionsStay`).

*How often the provider is acted on* is shown by counting (`RepeatsOK`): before a result, each
action belongs to a call about to record it or was lost with a fault; from the first result
on, no call passes the look-up any more, so the actions and the calls that may still act
together fit the bound. The step from one to the other needs that no call is on both sides
(`CallersCount`).

*What the two violated properties of execution need.* `InTurn` says that no two calls of
`execute` are between their look for a result and its record. `ExecutedInTurn` and
`CancelledInTurn` take it as a hypothesis on the behaviour, which the code does not enforce
(a lock around `execute`, or a claim of the request before the act, would), and prove what
the test and the block REQUEST_CANCELLED promise. So overlap *there* is all the counterexamples
of section 5 use: any other overlap is harmless, for ExecutedOnce in the absence of faults, for the
cancelled request even with them. TLC searched the instance of `governed_execution` restricted
to such behaviours for the invariants (`ActedOnce`, `CancelledOK`) before they were proved.
`BlockedInTurn` does the same for what BLOCKED means: by the steps of GovernedAction alone, if no
two executions overlap and nothing failed, the one that records BLOCKED is the only one there
is, and no earlier one acted, or there would be an outcome.

**The runtime with locks.** What excludes two tasks is a lock *id*, as a key may be granted
again once its TTL has passed. The invariant says that ids are fresh and no two tasks were
granted one (`LockIdsOK`), that a task at work finds its own lock on record unless it was
outlived (`LocksKept`), and that every lock has its task (LocksHaveTasks). What the tasks need
of the job table is small (`JobsGrow`: jobs are only added, keep their key and lose no
attempt), so the steps of the runners are one lemma, and of the invariant of JobRunnerProofs only `CallsKnown` is needed.

*Which promises of the runners survive runWithLock.* `runWithLock` marks jobs failed that its
worker does not hold, and so revives a settled job or frees one that is RUNNING. The bound
on overlaps and the finality of an outcome, which JobRunnerProofs proves of runners that poll,
do not survive that (finding 3 of section 5). What does is `Accounted`, the part of JobsOK that
no such failure disturbs: a RUNNING job has its counted invocation, attempts are within the
budget plus the lost leases. Hence RuntimeRunning, RuntimeSlots and RuntimeBudget for the whole
composition, and of finality what is left of it: SettledUnlessRevived names the only two
kinds of call that can revive a job. (The first three are proved of the composition without a
run that repeats them there; `job_runner` checks them of the runners.)

**The execution queue.** Nothing after `lockQueueItem` looks at the lock again, so exclusion
rests on what every *other* statement does to a lock somebody holds. `LocksOK` says that a
pass at work that has not lost its lock finds it held; a statement that unlocks marks
those it takes a lock from. HeldLocksHavePasses is its converse: a held lock has a
pass that works on the item or is about to settle it, so only a fault leaves an item locked for
60 s. The other parts: `ReadyOK` (a READY item that can be
locked was reopened since it was last locked), `RecordsOK` (whoever is about to escalate an
item has written its row, or acts on a dependency whose failure put it on record), `RacesOK`
(a call that has read an item which has since been taken knows itself overtaken). The
invariant is shown once for the statements on a row (`WriteTypes`, `RowSteps`) and once for
each action.

**Scheduler and queue.** `ScheduledIInv` is the queue's own invariant, of which every step of
the composition is a step or a stutter (`QueueMoves`, from which the queue's action properties carry
over too), with what rows and requests know of each other: a
request at its run has the row, and no other request has the same (`RowsOK`); a RUNNING row
has its request while there was no fault (`RowsAwaited`); a tick that found no run where
there is one now was overtaken (`TicksOK`); a pass that has begun has its handler
(`HandlesOK`). The storm bound is inductive as stated, by counting: a request that is admitted
joins the requests that may still fail while the count is under the limit, and a failure that
is counted leaves them.

**Execution approvals.** What a stale read can do is said of every row a call holds (`ReadsOK`):
its list of approvers is picked, in order, from the approvals given by now. It stays so
because the history only grows (`PickedGrows`), and a write appends to both (`PickedAppends`).
So overlapping calls forget approvals but never count one that was not given, nor one
twice. For the hash (`HashOK`, `HashKept`): if the row was what the call had read, the
columns written make it the row that was hashed, and it verifies up to the order of keys.

**Only model-checked.** Liveness (QueuedJobsAreTaken, LocksAreReleased, ApprovedGetsRequest,
RunsAreSettled, LocksAreGivenBack): the installed provers do not reason about fairness and
ENABLED. Every safety and action property of a passing run is proved. No module
here uses a RECURSIVE operator.

## 5. Disagreements between code and its documents

Each is a run that TLC must find violated; `PROJECT.json` quotes the lines.

1. `job_retries`: `getQueuedJobs` asks for QUEUED only, so a RETRY_SCHEDULED job is never
   polled, against the life cycle in `src/RUNTIME_OPERATIONS.md`. The instance gives every worker
   a handler for every job; the trace is enqueue, poll, a handler that throws, the retry's time
   arriving, and polls that never return it.
2. `job_duplicates`: `enqueue` tests only the first record of a key; once it is settled,
   every enqueue adds another active job (`src/JOB_RUNTIME_VALIDATION.md` says the second
   is deduplicated).
3. `job_duplicate_execution`: `runWithLock`, refused a lock, fails the job another worker is
   running under that lock, and so makes it runnable (`src/RUNTIME_OPERATIONS.md`:
   "Duplicate execution is prevented").
4. `governed_repeats`: two overlapping calls of `execute` find no result and both act; the
   unique index stops the second *record*, not the second *action*
   (`tests/execution-runtime.test.ts`: "idempotency prevents duplicate execution").
5. `governed_cancellation`: `recordResult` replaces CANCELLED by BLOCKED one update before
   it takes readiness away; a second call that reads in between executes a request that
   was cancelled long before.

## 6. Not modelled

Besides the components of section 1: the text of events and evidence, the arithmetic of
scores and savings, authentication and tenancy checks of routes, retry delays (a
scheduled retry becomes due at any later time), and the in-memory fallbacks of
repositories used in tests.

*Of the queue*: batches beyond the escalation of a plan, automation candidates and
verification records, which change no item; `pausePlan`, which asks for a RUNNING plan that
nothing writes. *Of the scheduler*: the routes that create and edit schedules, dead letters
written for a quarantined run, and the handlers of other jobs, which share no state with the
queue. *Of execution approvals*: the routes that show the hash to a reader, identities of
deciders, and the events and evidence recorded after a decision, which none reads.

*Of the hazards listed*, three that lie in modelled code have no property: a workflow rejected
after approval leaves its request executable; a mere link counts as an approval in the guard
of upsert; and an item of the queue with more than one attempt is never given up, as
`markFailed` never counts past one. The models have all three; nothing in the repository promises
otherwise, so nothing is claimed of them. Likewise the models show, and no property denies, that
two overlapping submissions save two workflows, that a row stays PENDING after a restart lost its
workflow, and that a call which acted may find its EXECUTED refused by the index after another
recorded BLOCKED.

*Limits of the execution approvals.* DecisionsAreKept says when a row verifies, and so what a row that
does not verify may mean: besides a change out of band, an overlap of two decisions, or
evidence with two keys or more that the request and the decisions brought in another order than
`jsonb` keeps. Approvals may be lost in an overlap and one actor may approve twice; the
service promises neither, and the model shows both.

*Share of the code.* The server has some 110,000 lines, nearly all of them
pure functions from evidence to scores, classes and texts, React pages, and clients generated
from the OpenAPI description. The state that outlives a call, shared by calls that overlap,
is kept in the few thousand lines of the components above; that is what these modules model,
and it is the smaller part of the code by far.

## 7. Plan

Done: the job runtime and its locks, governed execution, the execution queue, its scheduler,
execution approvals, and the proofs of all their safety properties. In order of importance, what is left:

- (a) Batches of a plan as a second kind of queue item, and operators' calls in the composition
  with the scheduler, if a larger instance than section 3's becomes affordable.
- (b) Escalation, delegation and the manual-only readiness classes in ApprovalAuthority and
  GovernedRecommendation.
- (c) The decision authority bridge and the registers of `lib/actions`, which are sequential.
- (d) Rollback and the M365 service against the same abstract effect as GovernedAction, once a
  route calls them.

## 8. How to run

```
tlc -workers 2 -config JobRunner.cfg MCJobRunner.tla
tlc -workers 2 -config GovernedExecution.cfg MCGovernedExecution.tla
tlapm JobRunnerProofs.tla
tlapm GovernedExecutionProofs.tla
tlapm GovernedResultProofs.tla
tlapm JobRuntimeProofs.tla
tlapm ExecutionOrchestrationProofs.tla
tlapm ScheduledOrchestrationProofs.tla
tlapm ExecutionApprovalProofs.tla
```

`PROJECT.json` lists all runs with their module and configuration, the lines of code each
definition translates (`map`), and for every property of a passing run a mutated
definition under which TLC must find it violated (`mutants`).
