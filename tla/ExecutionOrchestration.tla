----------------------- MODULE ExecutionOrchestration -----------------------
(***************************************************************************)
(* The execution orchestration queue:                                      *)
(* lib/execution-orchestration/execution-orchestration-service.ts, its     *)
(* repository and the job that drives it,                                  *)
(* jobs/process-execution-orchestration-queue.ts.                          *)
(*                                                                         *)
(* A pass is one run of the job.  It releases old locks, escalates items   *)
(* past their SLA, selects READY items and processes them one by one.  An  *)
(* operator's call resumes a plan, retries or cancels an item, fails a     *)
(* dependency or cancels a plan.  Every await of either is a statement of  *)
(* the database, and a step of its own: what a pass or a call has read is  *)
(* kept in its record and may be stale when it is used.                    *)
(*                                                                         *)
(* A row of the queue has no blastRadiusBand, no connectorStatus and no    *)
(* recentRollbackRate, so of the processor's gates only the cool-down of   *)
(* the runtime controls and the approval of class B can stop an item.      *)
(***************************************************************************)
EXTENDS Naturals, FiniteSets

CONSTANTS
  Items,          \* queue items, all of one plan
  Deps,           \* rows of the dependency table
  DependencyOf,   \* [Deps -> Items], the item that waits
  MustSucceed,    \* the dependencies of type MUST_SUCCEED
  Enqueued,       \* rows as they are enqueued: status, maxAttempts, and whether
                  \*  class B holds the item until its approvalStatus is APPROVED
  CreatedAs,      \* the status the plan was created with
  NoItem,
  Limit,          \* rows one pass selects
  MaxPasses, MaxCalls, MaxFaults  \* bounds on the histories TLC explores

\* Passes and operators' calls are numbered in the order in which they begin.
Passes == 1..MaxPasses
Calls  == 1..MaxCalls

ItemStatuses ==
  {"PENDING", "WAITING_APPROVAL", "WAITING_DEPENDENCIES", "READY", "RUNNING",
   "SUCCEEDED", "FAILED", "RETRY_SCHEDULED", "PAUSED", "ESCALATED", "BLOCKED",
   "QUARANTINED", "CANCELLED"}

ASSUME OrchestrationAssumption ==
  /\ IsFiniteSet(Items)
  /\ DependencyOf \in [Deps -> Items]
  /\ MustSucceed \subseteq Deps
  /\ Enqueued \subseteq
       [status: {"PENDING", "WAITING_APPROVAL", "READY", "WAITING_DEPENDENCIES",
                 "PAUSED", "BLOCKED"},
        maxAttempts: Nat \ {0}, unapproved: BOOLEAN]
  /\ CreatedAs \in {"DRAFT", "QUEUED", "READY", "WAITING_DEPENDENCIES", "PAUSED"}
  /\ NoItem \notin Items
  /\ Limit \in Nat \ {0}
  /\ MaxPasses \in Nat /\ MaxCalls \in Nat /\ MaxFaults \in Nat

VARIABLES
  item,         \* [Items -> the row as enqueued, with its lock and attemptCount]
  plan,         \* the status of the plan
  dependency,   \* [Deps -> status]
  escalations,  \* items with a row in the escalations table
  overdue,      \* items more than 30 minutes old
  pass,         \* [Passes -> where the pass stands and what it has read]
  call,         \* [Calls -> where the call stands and what it has read]
  \* History:
  reopened,     \* items made READY, or whose lock aged, since they were last locked
  passes,       \* passes begun
  calls,        \* calls begun
  faults        \* restarts of the server and statements that failed

itemVars == <<item, reopened>>
counters == <<passes, calls, faults>>
vars == <<item, plan, dependency, escalations, overdue, pass, call, reopened, counters>>

\* "lost" and "raced" are history: the lock the pass took was aged out or cleared
\* by another; the items that were started or succeeded since the call read them.
Waiting == [pc |-> "idle", todo |-> {}, at |-> NoItem, lost |-> FALSE]
Silent  == [pc |-> "idle", todo |-> {}, at |-> NoItem, becomes |-> "READY",
            raced |-> {}]

\* The pass has locked the item and has no outcome of it yet.
AtWork(p, i) ==
  pass[p].at = i /\ pass[p].pc \in {"taken", "running", "executed"}

-----------------------------------------------------------------------------
(* Statements of the repository.                                           *)

\* listActiveQueueItems
Active == {i \in Items : item[i].status \in
             {"QUEUED", "WAITING_APPROVAL", "WAITING_DEPENDENCIES", "READY",
              "RUNNING", "PAUSED", "ESCALATED"}}

\* getReadyQueueItems, and the condition of lockQueueItem: READY, and not locked
\* within the last 60 seconds.
Lockable == {i \in Items : item[i].status = "READY" /\ item[i].lock # "held"}

\* updateItem with a status alone; the lock stays as it is.
SetStatus(i, status) ==
  /\ item' = [item EXCEPT ![i].status = status]
  /\ reopened' = IF status = "READY" THEN reopened \cup {i} ELSE reopened

\* A bug the checks must notice: a settled item keeps its lock.
SetStatusOnly(i, status) ==
  /\ item' = [item EXCEPT ![i].status = status]
  /\ UNCHANGED reopened

\* updateItem with a status and lockedAt null, whoever holds the lock.
SetStatusAndUnlock(i, status) ==
  /\ item' = [item EXCEPT ![i].status = status, ![i].lock = "free"]
  /\ UNCHANGED reopened

\* A bug the checks must notice: the update asks for READY alone.
LockItemUnseen(i) ==
  /\ item[i].status = "READY"
  /\ item' = [item EXCEPT ![i].lock = "held"]
  /\ reopened' = reopened \ {i}

\* lockQueueItem: one conditional update.
LockItem(i) ==
  /\ i \in Lockable
  /\ item' = [item EXCEPT ![i].lock = "held"]
  /\ reopened' = reopened \ {i}

\* The passes, once a lock of i that is held is no more; p is the pass that gives
\* it up of its own accord.
WithoutLock(i, p) ==
  [q \in Passes |-> IF q # p /\ AtWork(q, i) /\ item[i].lock = "held"
                    THEN [pass[q] EXCEPT !.lost = TRUE] ELSE pass[q]]

\* The calls, once a pass has started or finished i under their eyes.
Overtaken(i) ==
  [c \in Calls |-> IF call[c].at = i \/ i \in call[c].todo
                   THEN [call[c] EXCEPT !.raced = @ \cup {i}] ELSE call[c]]

\* createEscalation
RecordEscalation(i) == escalations' = escalations \cup {i}

-----------------------------------------------------------------------------
(* The pass up to its selection.                                           *)

PassGoes(p, from, to) ==
  /\ pass[p].pc = from
  /\ pass' = [pass EXCEPT ![p].pc = to]

\* The pass is done with its item.
PassLeaves(p, from, to) ==
  /\ pass[p].pc = from
  /\ pass' = [pass EXCEPT ![p].pc = to, ![p].at = NoItem, ![p].lost = FALSE]

\* The same, as the pass writes the item's status and unlocks it.
PassSettles(p, from, to, status) ==
  LET i == pass[p].at IN
  /\ pass[p].pc = from
  /\ SetStatusAndUnlock(i, status)
  /\ pass' = [WithoutLock(i, p) EXCEPT ![p].pc = to, ![p].lost = FALSE,
                ![p].at = IF to = "working" THEN NoItem ELSE i]

\* A bug the checks must notice: every lock counts as expired.
StartPassReleasingAll(p) ==
  /\ PassGoes(p, "idle", "listing")
  /\ p = passes + 1
  /\ passes' = p
  /\ item' = [i \in Items |-> [item[i] EXCEPT !.lock = "free"]]
  /\ UNCHANGED <<plan, dependency, escalations, overdue, call, reopened, calls,
                 faults>>

\* releaseExpiredLocks, the first statement: every lock of more than 60 seconds.
StartPass(p) ==
  /\ PassGoes(p, "idle", "listing")
  /\ p = passes + 1
  /\ passes' = p
  /\ item' = [i \in Items |-> IF item[i].lock = "stale"
                              THEN [item[i] EXCEPT !.lock = "free"] ELSE item[i]]
  /\ UNCHANGED <<plan, dependency, escalations, overdue, call, reopened, calls,
                 faults>>

\* checkSlaBreaches selects the active items ...
ListActive(p) ==
  /\ pass[p].pc = "listing"
  /\ pass' = [pass EXCEPT ![p].pc = "sla", ![p].todo = Active]
  /\ UNCHANGED <<itemVars, plan, dependency, escalations, overdue, call, counters>>

\* ... leaves alone those that are young enough ...
WithinSla(p) ==
  /\ pass[p].pc = "sla"
  /\ \E i \in pass[p].todo \ overdue :
       pass' = [pass EXCEPT ![p].todo = @ \ {i}]
  /\ UNCHANGED <<itemVars, plan, dependency, escalations, overdue, call, counters>>

\* ... and escalates the others: a row first, then the status of the item,
\* whatever it has become.
RecordBreach(p) ==
  /\ pass[p].pc = "sla"
  /\ \E i \in pass[p].todo \cap overdue :
       /\ RecordEscalation(i)
       /\ pass' = [pass EXCEPT ![p].pc = "breached", ![p].at = i,
                               ![p].todo = @ \ {i}]
  /\ UNCHANGED <<itemVars, plan, dependency, overdue, call, counters>>

EscalateBreached(p) ==
  /\ PassLeaves(p, "breached", "sla")
  /\ SetStatus(pass[p].at, "ESCALATED")
  /\ UNCHANGED <<plan, dependency, escalations, overdue, call, counters>>

SelectReady(p) ==
  /\ pass[p].pc = "sla" /\ pass[p].todo = {}
  /\ \E rows \in SUBSET Lockable :
       /\ Cardinality(rows) = IF Cardinality(Lockable) < Limit
                              THEN Cardinality(Lockable) ELSE Limit
       /\ pass' = [pass EXCEPT ![p].pc = "working", ![p].todo = rows]
  /\ UNCHANGED <<itemVars, plan, dependency, escalations, overdue, call, counters>>

EndPass(p) ==
  /\ pass[p].todo = {}
  /\ PassLeaves(p, "working", "idle")
  /\ UNCHANGED <<itemVars, plan, dependency, escalations, overdue, call, counters>>

-----------------------------------------------------------------------------
(* processReadyItem.                                                       *)

\* The lock is granted, or the item is skipped.
TakeItem(p) ==
  /\ pass[p].pc = "working"
  /\ \E i \in pass[p].todo :
       \/ /\ LockItem(i)
          /\ pass' = [pass EXCEPT ![p].pc = "taken", ![p].at = i,
                                  ![p].todo = @ \ {i}]
       \/ /\ i \notin Lockable
          /\ pass' = [pass EXCEPT ![p].todo = @ \ {i}]
          /\ UNCHANGED itemVars
  /\ UNCHANGED <<plan, dependency, escalations, overdue, call, counters>>

\* The runtime controls answer BLOCK while the action's cool-down runs.
BlockByControls(p) ==
  /\ PassSettles(p, "taken", "blocked", "BLOCKED")
  /\ UNCHANGED <<plan, dependency, escalations, overdue, call, counters>>

\* A bug the checks must notice: a blocked item is escalated without a row.
RecordBlockNowhere(p) ==
  /\ PassGoes(p, "blocked", "recorded")
  /\ UNCHANGED <<itemVars, plan, dependency, escalations, overdue, call, counters>>

\* escalateQueueItem, called by the processor: the row ...
RecordBlock(p) ==
  /\ PassGoes(p, "blocked", "recorded")
  /\ RecordEscalation(pass[p].at)
  /\ UNCHANGED <<itemVars, plan, dependency, overdue, call, counters>>

\* ... and the status.
EscalateBlocked(p) ==
  /\ PassLeaves(p, "recorded", "working")
  /\ SetStatus(pass[p].at, "ESCALATED")
  /\ UNCHANGED <<plan, dependency, escalations, overdue, call, counters>>

BlockForApproval(p) ==
  /\ PassSettles(p, "taken", "working", "BLOCKED")
  /\ item[pass[p].at].unapproved
  /\ UNCHANGED <<plan, dependency, escalations, overdue, call, counters>>

MarkRunning(p) ==
  /\ PassGoes(p, "taken", "running")
  /\ ~item[pass[p].at].unapproved
  /\ SetStatus(pass[p].at, "RUNNING")
  /\ call' = Overtaken(pass[p].at)
  /\ UNCHANGED <<plan, dependency, escalations, overdue, counters>>

\* The try block: runExecutionEngine executes the action, or refuses it or throws;
EngineAnswers(p) ==
  /\ \/ PassGoes(p, "running", "executed")
     \/ PassGoes(p, "running", "failed")
  /\ UNCHANGED <<itemVars, plan, dependency, escalations, overdue, call, counters>>

\* an action that was executed is marked, unless that statement fails;
MarkSucceeded(p) ==
  /\ \/ /\ PassSettles(p, "executed", "verifying", "SUCCEEDED")
        /\ call' = Overtaken(pass[p].at)
     \/ PassGoes(p, "executed", "failed") /\ UNCHANGED <<itemVars, call>>
  /\ UNCHANGED <<plan, dependency, escalations, overdue, counters>>

\* createVerificationTask: if it throws, the succeeded item is marked failed.
CreateVerificationTask(p) ==
  /\ \/ PassLeaves(p, "verifying", "working")
     \/ PassGoes(p, "verifying", "failed")
  /\ UNCHANGED <<itemVars, plan, dependency, escalations, overdue, call, counters>>

\* markFailed: the first update sets attemptCount to 1, whatever it was ...
CountAttempt(p) ==
  /\ PassGoes(p, "failed", "counted")
  /\ item' = [item EXCEPT ![pass[p].at].attempts = 1]
  /\ UNCHANGED <<plan, dependency, escalations, overdue, call, reopened, counters>>

\* ... and the second gives the item up or schedules a retry.
MarkFailed(p) ==
  LET row == item[pass[p].at] IN
  /\ \/ PassSettles(p, "counted", "working", "FAILED")
        /\ row.attempts >= row.maxAttempts
     \/ PassSettles(p, "counted", "working", "RETRY_SCHEDULED")
        /\ row.attempts < row.maxAttempts
  /\ UNCHANGED <<plan, dependency, escalations, overdue, call, counters>>

-----------------------------------------------------------------------------
(* Operators' calls.                                                       *)

\* A call reads what it is about, and goes on from there.
Begin(c, pc, i) ==
  /\ c = calls + 1
  /\ calls' = c
  /\ call' = [call EXCEPT ![c].pc = pc, ![c].at = i]

CallEnds(c, from) ==
  /\ call[c].pc = from
  /\ call' = [call EXCEPT ![c] = Silent]

\* resumePlan: the route has read the plan, and resumePlan checks what it read.
RequestResume(c) ==
  /\ plan \in {"PAUSED", "ESCALATED"}
  /\ Begin(c, "resume", NoItem)
  /\ UNCHANGED <<itemVars, plan, dependency, escalations, overdue, pass, passes, faults>>

ResumePlan(c) ==
  /\ call[c].pc = "resume"
  /\ plan' = "READY"
  /\ call' = [call EXCEPT ![c].pc = "selecting"]
  /\ UNCHANGED <<itemVars, dependency, escalations, overdue, pass, counters>>

SelectWaiting(c) ==
  /\ call[c].pc = "selecting"
  /\ call' = [call EXCEPT ![c].pc = "readying", ![c].todo =
                {i \in Items : item[i].status \in {"PAUSED", "WAITING_DEPENDENCIES"}}]
  /\ UNCHANGED <<itemVars, plan, dependency, escalations, overdue, pass, counters>>

\* evaluateItemDependencyReadiness reads the dependencies of an item ...
EvaluateReadiness(c) ==
  /\ call[c].pc = "readying"
  /\ \E i \in call[c].todo :
       LET of(status) == {d \in Deps : DependencyOf[d] = i /\ dependency[d] = status} IN
       call' = [call EXCEPT
         ![c].pc = "judged", ![c].at = i, ![c].todo = @ \ {i},
         ![c].becomes = IF of("FAILED") \cap MustSucceed # {} THEN "ESCALATED"
                        ELSE IF of("PENDING") # {} THEN "WAITING_DEPENDENCIES"
                        ELSE "READY"]
  /\ UNCHANGED <<itemVars, plan, dependency, escalations, overdue, pass, counters>>

\* ... and writes its verdict over whatever the item has become.
WriteReadiness(c) ==
  /\ call[c].pc = "judged"
  /\ SetStatus(call[c].at, call[c].becomes)
  /\ call' = [call EXCEPT ![c].pc = "readying", ![c].at = NoItem,
                          ![c].becomes = "READY", ![c].raced = @ \ {call[c].at}]
  /\ UNCHANGED <<plan, dependency, escalations, overdue, pass, counters>>

EndResume(c) ==
  /\ call[c].todo = {}
  /\ CallEnds(c, "readying")
  /\ UNCHANGED <<itemVars, plan, dependency, escalations, overdue, pass, counters>>

\* retryQueueItem
RequestRetry(c, i) ==
  /\ item[i].status \in {"FAILED", "RETRY_SCHEDULED"}
  /\ Begin(c, "retry", i)
  /\ UNCHANGED <<itemVars, plan, dependency, escalations, overdue, pass, passes, faults>>

RetryItem(c) ==
  /\ CallEnds(c, "retry")
  /\ SetStatusAndUnlock(call[c].at, "RETRY_SCHEDULED")
  /\ pass' = WithoutLock(call[c].at, 0)
  /\ UNCHANGED <<plan, dependency, escalations, overdue, counters>>

\* A bug the checks must notice: running items are cancelled like the others.
CancellableAndRunning == {"PENDING", "READY", "RUNNING", "WAITING_APPROVAL",
                          "WAITING_DEPENDENCIES", "RETRY_SCHEDULED"}

\* cancelQueueItem: a RUNNING item is refused, and so is one that is over.
Cancellable == {"PENDING", "READY", "WAITING_APPROVAL", "WAITING_DEPENDENCIES",
                "RETRY_SCHEDULED"}

RequestCancel(c, i) ==
  /\ item[i].status \in Cancellable
  /\ Begin(c, "cancel", i)
  /\ UNCHANGED <<itemVars, plan, dependency, escalations, overdue, pass, passes, faults>>

CancelItem(c) ==
  /\ CallEnds(c, "cancel")
  /\ SetStatusAndUnlock(call[c].at, "CANCELLED")
  /\ pass' = WithoutLock(call[c].at, 0)
  /\ UNCHANGED <<plan, dependency, escalations, overdue, counters>>

\* failDependency: the dependency first, then the escalation of its item.
FailDependency(c, d) ==
  /\ c = calls + 1
  /\ calls' = c
  /\ dependency' = [dependency EXCEPT ![d] = "FAILED"]
  /\ IF d \in MustSucceed
     THEN call' = [call EXCEPT ![c].pc = "record", ![c].at = DependencyOf[d]]
     ELSE UNCHANGED call
  /\ UNCHANGED <<itemVars, plan, escalations, overdue, pass, passes, faults>>

RecordFailedDependency(c) ==
  /\ call[c].pc = "record"
  /\ RecordEscalation(call[c].at)
  /\ call' = [call EXCEPT ![c].pc = "escalate"]
  /\ UNCHANGED <<itemVars, plan, dependency, overdue, pass, counters>>

EscalateDependent(c) ==
  /\ CallEnds(c, "escalate")
  /\ SetStatus(call[c].at, "ESCALATED")
  /\ UNCHANGED <<plan, dependency, escalations, overdue, pass, counters>>

\* A bug the checks must notice: a status the table of dependencies has not.
ResolveDependencyAsMet(c, d) ==
  /\ c = calls + 1
  /\ calls' = c
  /\ dependency' = [dependency EXCEPT ![d] = "SUCCEEDED"]
  /\ UNCHANGED <<itemVars, plan, escalations, overdue, pass, call, passes,
                 faults>>

\* resolveDependency asks nothing of the dependency.
ResolveDependency(c, d) ==
  /\ c = calls + 1
  /\ calls' = c
  /\ dependency' = [dependency EXCEPT ![d] = "RESOLVED"]
  /\ UNCHANGED <<itemVars, plan, escalations, overdue, pass, call, passes,
                 faults>>

\* evaluateBatchFailurePolicy ends in escalatePlan.
EscalatePlan(c) ==
  /\ c = calls + 1
  /\ calls' = c
  /\ plan' = "ESCALATED"
  /\ UNCHANGED <<itemVars, dependency, escalations, overdue, pass, call, passes,
                 faults>>

\* cancelPlan: the plan, then those of its items that are still pending.
CancelPlan(c) ==
  /\ Begin(c, "cancelPlan", NoItem)
  /\ plan' = "CANCELLED"
  /\ UNCHANGED <<itemVars, dependency, escalations, overdue, pass, passes, faults>>

CancelPendingItems(c) ==
  /\ CallEnds(c, "cancelPlan")
  /\ item' = [i \in Items |->
                IF item[i].status \in Cancellable \cup {"PAUSED"}
                THEN [item[i] EXCEPT !.status = "CANCELLED"] ELSE item[i]]
  /\ UNCHANGED <<plan, dependency, escalations, overdue, pass, reopened, counters>>

-----------------------------------------------------------------------------
(* Time and faults.                                                       *)

\* 60 seconds pass after a lock was taken.
LockAges(i) ==
  /\ item[i].lock = "held"
  /\ item' = [item EXCEPT ![i].lock = "stale"]
  /\ reopened' = reopened \cup {i}
  /\ pass' = WithoutLock(i, 0)
  /\ UNCHANGED <<plan, dependency, escalations, overdue, call, counters>>

\* 30 minutes pass after an item was created.
ItemAges(i) ==
  /\ overdue' = overdue \cup {i}
  /\ overdue' # overdue
  /\ UNCHANGED <<itemVars, plan, dependency, escalations, pass, call, counters>>

FaultOccurs == faults < MaxFaults /\ faults' = faults + 1

\* A statement fails outside the try block of processReadyItem: the pass ends
\* there, with its item as it is.
AbortPass(p) ==
  /\ pass[p].pc \notin {"idle", "running", "executed", "verifying"}
  /\ FaultOccurs
  /\ pass' = [pass EXCEPT ![p] = Waiting]
  /\ UNCHANGED <<itemVars, plan, dependency, escalations, overdue, call, passes, calls>>

\* A statement of a call fails.
AbortCall(c) ==
  /\ call[c].pc # "idle"
  /\ FaultOccurs
  /\ call' = [call EXCEPT ![c] = Silent]
  /\ UNCHANGED <<itemVars, plan, dependency, escalations, overdue, pass, passes, calls>>

\* The server restarts: the rows stay, passes and calls are gone.
Crash ==
  /\ FaultOccurs
  /\ pass' = [p \in Passes |-> Waiting]
  /\ call' = [c \in Calls |-> Silent]
  /\ UNCHANGED <<itemVars, plan, dependency, escalations, overdue, passes, calls>>

-----------------------------------------------------------------------------
Init ==
  /\ \E row \in [Items -> Enqueued] :
       item = [i \in Items |->
                 [status |-> row[i].status, lock |-> "free", attempts |-> 0,
                  maxAttempts |-> row[i].maxAttempts, unapproved |-> row[i].unapproved]]
  /\ plan = CreatedAs
  /\ dependency = [d \in Deps |-> "PENDING"]
  /\ escalations = {}
  /\ overdue = {}
  /\ pass = [p \in Passes |-> Waiting]
  /\ call = [c \in Calls |-> Silent]
  /\ reopened = {i \in Items : item[i].status = "READY"}
  /\ passes = 0 /\ calls = 0 /\ faults = 0

\* The steps of a pass that has begun ...
PassStep(p) ==
  \/ ListActive(p) \/ WithinSla(p) \/ RecordBreach(p) \/ EscalateBreached(p)
  \/ SelectReady(p) \/ TakeItem(p) \/ EndPass(p)
  \/ BlockByControls(p) \/ RecordBlock(p) \/ EscalateBlocked(p)
  \/ BlockForApproval(p) \/ MarkRunning(p) \/ EngineAnswers(p)
  \/ MarkSucceeded(p) \/ CreateVerificationTask(p)
  \/ CountAttempt(p) \/ MarkFailed(p)

\* ... and of a call that has begun.
CallStep(c) ==
  \/ ResumePlan(c) \/ SelectWaiting(c) \/ EvaluateReadiness(c)
  \/ WriteReadiness(c) \/ EndResume(c)
  \/ RetryItem(c) \/ CancelItem(c)
  \/ RecordFailedDependency(c) \/ EscalateDependent(c) \/ CancelPendingItems(c)

Request(c) ==
  \/ RequestResume(c) \/ EscalatePlan(c) \/ CancelPlan(c)
  \/ \E i \in Items : RequestRetry(c, i) \/ RequestCancel(c, i)
  \/ \E d \in Deps : FailDependency(c, d) \/ ResolveDependency(c, d)

Next ==
  \/ \E p \in Passes : StartPass(p) \/ PassStep(p)
  \/ \E c \in Calls : Request(c) \/ CallStep(c)
  \/ \E i \in Items : LockAges(i) \/ ItemAges(i)
  \/ \E p \in Passes : AbortPass(p)
  \/ \E c \in Calls : AbortCall(c)
  \/ Crash

Spec == Init /\ [][Next]_vars

-----------------------------------------------------------------------------
(* Properties.                                                             *)

ItemRecord ==
  [status: ItemStatuses, lock: {"free", "held", "stale"}, attempts: {0, 1},
   maxAttempts: Nat \ {0}, unapproved: BOOLEAN]

PassRecord ==
  [pc: {"idle", "listing", "sla", "breached", "working", "taken", "blocked",
        "recorded", "running", "executed", "verifying", "failed", "counted"},
   todo: SUBSET Items, at: Items \cup {NoItem}, lost: BOOLEAN]

CallRecord ==
  [pc: {"idle", "resume", "selecting", "readying", "judged", "retry", "cancel",
        "record", "escalate", "cancelPlan"},
   todo: SUBSET Items, at: Items \cup {NoItem},
   becomes: {"READY", "WAITING_DEPENDENCIES", "ESCALATED"}, raced: SUBSET Items]

TypeOK ==
  /\ item \in [Items -> ItemRecord]
  /\ plan \in {CreatedAs, "READY", "ESCALATED", "CANCELLED"}
  /\ dependency \in [Deps -> {"PENDING", "RESOLVED", "FAILED"}]
  /\ escalations \subseteq Items
  /\ overdue \subseteq Items
  /\ pass \in [Passes -> PassRecord]
  /\ call \in [Calls -> CallRecord]
  /\ reopened \subseteq Items
  /\ passes \in 0..MaxPasses /\ calls \in 0..MaxCalls /\ faults \in 0..MaxFaults

\* Two passes are at work on one item only if one of them has lost its lock: to
\* the 60 seconds, to an operator's call, or to a pass that had lost its own.
\* Overlapping passes select the same rows, so only lockQueueItem keeps them
\* apart; nothing after it looks at the lock again.
WorkersExclude ==
  \A p, q \in Passes, i \in Items :
    p # q /\ AtWork(p, i) /\ AtWork(q, i) => pass[p].lost \/ pass[q].lost

\* The handoff asks for "No duplicate queue execution": an item is locked, and so
\* executed, again only after it was made READY again or its lock grew old.  No
\* pass, retry, cancellation or restart brings it back by itself.
TakenOncePerReadiness ==
  [][\A i \in Items :
       item[i].lock # "held" /\ item'[i].lock = "held" => i \in reopened]_vars

\* markFailed is about to settle the item.
WritesFailure(p, i) == pass[p].at = i /\ pass[p].pc \in {"failed", "counted"}

\* A lock that is held has a pass behind it that will give it back: every way out of
\* processReadyItem unlocks the item, and nobody takes a lock for an item it then
\* passes over.  Only a fault leaves an item to wait out its 60 seconds.
HeldLocksHavePasses ==
  faults = 0 =>
    \A i \in Items :
      item[i].lock = "held" =>
        \E p \in Passes : AtWork(p, i) \/ WritesFailure(p, i)

\* What an operator is shown: an ESCALATED item has its row in the escalations
\* table.  The resumption of a plan escalates an item without a row, but only for
\* a failed dependency, and the call that failed it is about to write one, unless
\* a crash came between.
EscalatedItemsAreOnRecord ==
  \A i \in Items :
    item[i].status = "ESCALATED" =>
      \/ i \in escalations
      \/ \E c \in Calls : call[c].pc = "record" /\ call[c].at = i
      \/ faults > 0

\* cancelQueueItem refuses a RUNNING item ("not supported safely yet"), cancelPlan
\* passes it over, and a resumption touches waiting items only: an item that is
\* RUNNING or SUCCEEDED is cancelled, or made READY and so executed again, only by
\* a call that had read it before a pass started or finished it.
RunsAreUndoneInARace ==
  [][\A i \in Items :
       /\ item[i].status \in {"RUNNING", "SUCCEEDED"}
       /\ item'[i].status \in {"READY", "CANCELLED"}
       => \E c \in Calls : /\ call[c].pc \in {"cancel", "judged"}
                           /\ call[c].at = i /\ i \in call[c].raced]_vars
=============================================================================
