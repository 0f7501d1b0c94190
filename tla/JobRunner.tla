----------------------------- MODULE JobRunner ------------------------------
(***************************************************************************)
(* Job runners over the shared job table                                   *)
(* (lib/economic-operations-job-runner.ts): one runner per worker id, each *)
(* with its Set of running job ids.  poll and runJob run without an await  *)
(* up to the call of the handler, so taking jobs is one atomic step; the   *)
(* handler's promise settles later, in any order, and its continuation     *)
(* (markSucceeded or markFailed, then the finally block) is one step too.  *)
(*                                                                         *)
(* A handler invocation is identified by its job and the attempt number    *)
(* markRunning gave it: attemptCount only grows.                           *)
(***************************************************************************)
EXTENDS JobScheduler, FiniteSets

CONSTANTS
  MaxConcurrent,  \* [Workers -> Nat], tenantMaxConcurrentJobs of each runner
  Serves,         \* [Workers -> SUBSET Keys], what config.tenantId lets a runner poll
  Handles         \* [Workers -> SUBSET Keys], the job types it has handlers for

ASSUME RunnerAssumption ==
  /\ MaxConcurrent \in [Workers -> Nat]
  /\ Serves \in [Workers -> SUBSET Keys]
  /\ Handles \in [Workers -> SUBSET Keys]

VARIABLES
  running,  \* the running Set of every runner
  calls     \* the handler invocations whose promise has not settled

vars == <<jobs, lapses, running, calls>>

Call == [job: JobIds, attempt: Nat, by: Workers]

CallsOf(j) == {c \in calls : c.job = j}

-----------------------------------------------------------------------------
(* Taking jobs.                                                            *)

\* A bug the checks must notice: scheduledAt is compared the wrong way round.
QueuedBeforeTheirTime(t, w) ==
  {j \in JobIds : /\ t[j] # Absent
                  /\ t[j].status = "QUEUED"
                  /\ ~t[j].due
                  /\ t[j].key \in Serves[w]}

\* What getQueuedJobs returns to runner w from table t.
Queued(t, w) ==
  {j \in JobIds : /\ t[j] # Absent
                  /\ t[j].status = "QUEUED"
                  /\ t[j].due
                  /\ t[j].key \in Serves[w]}

FreeSlots(w) == MaxConcurrent[w] - Cardinality(running[w])

\* The slice of a list sorted by priority that fits the free slots.  Equal
\* priorities are ordered by scheduledAt, which is not modelled: any order.
IsBatch(B, Q, t, w) ==
  /\ Cardinality(B) <= FreeSlots(w)
  /\ B = Q \/ Cardinality(B) = FreeSlots(w)
  /\ \A j \in B, m \in Q \ B : Priority[t[j].key] <= Priority[t[m].key]

\* The invocations that start when runner w takes the jobs of S from table t.
NewCalls(S, t, w) == {[job |-> j, attempt |-> t[j].attempts + 1, by |-> w] : j \in S}

\* poll: expire stale leases everywhere, then take a batch and call runJob on
\* each job of it.  runJob fails a job whose type has no handler here.
Poll(w) ==
  LET table == [j \in JobIds |-> Recovered(jobs[j])] IN
  \E B \in SUBSET Queued(table, w) :
    LET taken == {j \in B : table[j].key \in Handles[w]} IN
    /\ IsBatch(B, Queued(table, w), table, w)
    /\ jobs' = [j \in JobIds |->
                  IF j \in taken THEN Started(table[j], w)
                  ELSE IF j \in B THEN Failed(table[j], "NO_HANDLER")
                  ELSE table[j]]
    /\ lapses' = LapsesAfterExpiry
    /\ running' = [running EXCEPT ![w] = @ \cup taken]
    /\ calls' = calls \cup NewCalls(taken, table, w)

\* runJob on a record the caller holds, which may have changed since it was
\* read; neither scheduledAt nor the tenant is looked at.  Without a handler the
\* job is failed whatever its status; without a slot nothing happens.
RunJob(w, j) ==
  /\ j \in Created
  /\ \/ /\ jobs[j].key \notin Handles[w]
        /\ jobs' = [jobs EXCEPT ![j] = Failed(@, "NO_HANDLER")]
        /\ UNCHANGED <<running, calls>>
     \/ /\ jobs[j].key \in Handles[w]
        /\ FreeSlots(w) > 0
        /\ CanStart(jobs[j])
        /\ jobs' = [jobs EXCEPT ![j] = Started(@, w)]
        /\ running' = [running EXCEPT ![w] = @ \cup {j}]
        /\ calls' = calls \cup NewCalls({j}, jobs, w)
  /\ UNCHANGED lapses

\* A caller of runJob other than poll: it has just read the job from the table.
\* (JobRuntime has the caller whose record is stale.)
RunWaitingJob(w, j) ==
  /\ j \in Created
  /\ jobs[j].status \in Runnable
  /\ RunJob(w, j)

-----------------------------------------------------------------------------
(* A handler settles.                                                      *)

\* A bug the checks must notice: no finally block.
LeaksSlot(c) == calls' = calls \ {c} /\ UNCHANGED running

\* A bug the checks must notice: one invocation gives back every slot of its runner.
LeavesWithAll(c) ==
  /\ calls' = calls \ {c}
  /\ running' = [running EXCEPT ![c.by] = {}]

\* The finally block of runJob: the id leaves the Set even if a later
\* invocation of the same job is still in flight here.
Leaves(c) ==
  /\ calls' = calls \ {c}
  /\ running' = [running EXCEPT ![c.by] = @ \ {c.job}]

HandlerReturns(c) ==
  /\ c \in calls
  /\ jobs' = [jobs EXCEPT ![c.job] = Succeeded(jobs[c.job])]
  /\ Leaves(c)
  /\ UNCHANGED lapses

\* The decision of evaluateRetry goes to telemetry only.
HandlerThrows(c, e) ==
  /\ c \in calls
  /\ jobs' = [jobs EXCEPT ![c.job] = Failed(jobs[c.job], e)]
  /\ Leaves(c)
  /\ UNCHANGED lapses

Settle(c) ==
  \/ HandlerReturns(c)
  \/ \E e \in {"RETRYABLE", "NON_RETRYABLE"} : HandlerThrows(c, e)

-----------------------------------------------------------------------------
Init ==
  /\ SchedulerInit
  /\ running = [w \in Workers |-> {}]
  /\ calls = {}

\* What clients, operators and the clock do to the table.
TableStep ==
  /\ \/ \E k \in Keys, d \in BOOLEAN : \E i \in {k} \cup CustomKeys : Enqueue(k, i, d)
     \/ \E j \in JobIds : Cancel(j) \/ LeaseLapses(j) \/ BecomesDue(j)
     \/ ExpireStaleJobs
  /\ UNCHANGED <<running, calls>>

RunnerStep ==
  \/ \E w \in Workers : Poll(w)
  \/ \E w \in Workers, j \in JobIds : RunWaitingJob(w, j)
  \/ \E c \in calls : Settle(c)

Next == TableStep \/ RunnerStep

Spec == Init /\ [][Next]_vars

\* Runners poll for ever, scheduledAt arrives, handlers settle.  Clients, direct
\* calls of runJob and slow handlers owe nothing.
Fairness ==
  /\ \A w \in Workers : WF_vars(Poll(w))
  /\ \A j \in JobIds : WF_vars(BecomesDue(j) /\ UNCHANGED <<running, calls>>)
  /\ \A w \in Workers, j \in JobIds :
       WF_vars(\E c \in calls : c.by = w /\ c.job = j /\ Settle(c))

FairSpec == Spec /\ Fairness

-----------------------------------------------------------------------------
(* Properties.                                                             *)

TypeOK ==
  /\ SchedulerTypeOK
  /\ running \in [Workers -> SUBSET JobIds]
  /\ calls \in SUBSET Call

\* A job runs twice at the same time only if its lease was lost: the handler
\* invocations of a job in flight never outnumber its lost leases by more than
\* the one that may hold the lease.  (markRunning's status test, the lease and
\* the unconditional writes of late answers, together.)
OverlapNeedsLostLease ==
  \A j \in Created :
    Cardinality(CallsOf(j)) <=
      lapses[j] + (IF jobs[j].status \in {"RUNNING", "CANCELLED"} THEN 1 ELSE 0)

\* A RUNNING job is executed: the runner that holds its lease has the very
\* invocation markRunning counted last in flight, so no job is left RUNNING
\* with nobody to answer for it.
RunningIsExecuted ==
  \A j \in Created :
    jobs[j].status = "RUNNING" =>
      /\ jobs[j].lease # "none"
      /\ \E c \in CallsOf(j) : c.by = jobs[j].lockedBy /\ c.attempt = jobs[j].attempts

\* A runner's Set never exceeds its limit, and every id in it stands for an
\* invocation still in flight here: no slot leaks.
SlotsAreUsed ==
  \A w \in Workers :
    /\ Cardinality(running[w]) <= MaxConcurrent[w]
    /\ \A j \in running[w] : \E c \in CallsOf(j) : c.by = w

\* The limit is exceeded by lost leases only: a runner has an invocation in flight
\* that no id in its Set stands for (the first of two invocations of a job to settle
\* frees the slot of both) no more often than leases of that job were lost.
OnlyLostLeasesGoUncounted ==
  \A w \in Workers, j \in JobIds :
    Cardinality({c \in CallsOf(j) : c.by = w}) <=
      lapses[j] + (IF j \in running[w] THEN 1 ELSE 0)

\* Dead-lettering spends the whole retry budget, a retry leaves some of it, and
\* only lost leases buy attempts beyond maxAttempts.
RetryBudget ==
  \A j \in Created :
    LET job == jobs[j]  max == MaxAttempts[jobs[j].key] IN
    /\ job.status = "FAILED" => job.attempts >= max
    /\ job.status = "RETRY_SCHEDULED" => job.attempts < max
    /\ job.attempts <= max + lapses[j]

\* Once a job is settled and no invocation of it is in flight, its outcome is
\* final: nothing late can revive it.
SettledIsFinal ==
  [][\A j \in Created :
       jobs[j].status \in Settled /\ CallsOf(j) = {} =>
         /\ jobs'[j].status = jobs[j].status
         /\ jobs'[j].attempts = jobs[j].attempts]_vars

\* j is the first job of the queue w polls: whatever else is due there has a
\* lower priority.
IsFirstInLine(j, w) ==
  /\ j \in Created
  /\ jobs[j].status = "QUEUED"
  /\ jobs[j].key \in Serves[w]
  /\ \A m \in Queued(jobs, w) \ {j} : Priority[jobs[j].key] < Priority[jobs[m].key]

\* A caller of runJob other than poll takes a slot of w.
SlotIsTaken(w) == \E j \in JobIds : RunWaitingJob(w, j) /\ running'[w] # running[w]

\* The first job in line of a runner does not stay there: it is taken, failed,
\* cancelled or overtaken, however many jobs hold the slots, because handlers that
\* settle free them.  Nothing is promised to a job that jobs of its own or a
\* higher priority keep overtaking (poll sorts and slices), nor while other
\* callers of runJob keep taking the slots.
QueuedJobsAreTaken ==
  \A j \in JobIds, w \in Workers :
    \/ MaxConcurrent[w] = 0
    \/ []<>~IsFirstInLine(j, w)
    \/ []<><<SlotIsTaken(w)>>_vars

\* RUNTIME_OPERATIONS.md gives QUEUED -> RUNNING -> RETRY_SCHEDULED -> RUNNING as
\* the life of a job that fails: a scheduled retry is run, or cancelled, in the end.
\* (The instance gives every worker a handler for every job, so that only a
\* handler that throws schedules a retry.)
RetriesAreRun ==
  \A j \in JobIds :
    (j \in Created /\ jobs[j].status = "RETRY_SCHEDULED")
      ~> (jobs[j].status # "RETRY_SCHEDULED")

\* JOB_RUNTIME_VALIDATION.md, scenario 2: enqueueing the same job again while it
\* is queued, running or awaiting its retry is deduplicated, so no two active
\* jobs carry the same idempotency key.
NoDuplicateActiveJob ==
  \A j, m \in Created :
    j # m /\ jobs[j].idem = jobs[m].idem
      => ~(jobs[j].status \in Active /\ jobs[m].status \in Active)
=============================================================================
