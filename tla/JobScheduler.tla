---------------------------- MODULE JobScheduler ----------------------------
(***************************************************************************)
(* The in-memory job table of the economic-operations runtime              *)
(* (lib/economic-operations-job-scheduler.ts).  One process owns the table *)
(* and every method body runs without an await, so each operation is one   *)
(* atomic step.  This module holds the table, the operations as functions  *)
(* on one job record, and the steps clients and the clock take on it.      *)
(*                                                                         *)
(* A key stands for the (tenantId, jobKey, jobType) triple of a job.  Job  *)
(* ids are 1, 2, ... in the insertion order of the Map: a Map keeps the    *)
(* position of an entry that is set again, so the order never changes.     *)
(* Dates are abstracted to the two comparisons the code makes on them:     *)
(* whether scheduledAt has passed (due), and whether lockExpiresAt has     *)
(* passed (lease = "lapsed").                                              *)
(***************************************************************************)
EXTENDS Integers

CONSTANTS
  Keys,         \* the (tenantId, jobKey, jobType) triples clients enqueue
  CustomKeys,   \* idempotency keys a client may pass instead of the default
  Workers,      \* worker ids, one per job runner
  MaxAttempts,  \* [Keys -> Nat \ {0}], defaultMaxAttempts of the job type
  Priority,     \* [Keys -> Nat], defaultPriority of the job type
  MaxJobs,      \* bound: jobs ever created
  MaxLapses     \* bound: times the lease of one job may be lost

NoWorker == "no worker"

ASSUME SchedulerAssumption ==
  /\ MaxAttempts \in [Keys -> Nat \ {0}]
  /\ Priority \in [Keys -> Nat]
  /\ MaxJobs \in Nat
  /\ MaxLapses \in Nat
  /\ NoWorker \notin Workers

VARIABLES
  jobs,   \* the Map of job records
  lapses  \* history: how often expireStaleJobs took each job from its worker

JobIds   == 1..MaxJobs
IdemKeys == Keys \cup CustomKeys

Runnable == {"QUEUED", "RETRY_SCHEDULED"}
Active   == {"QUEUED", "RUNNING", "RETRY_SCHEDULED"}
Settled  == {"SUCCEEDED", "FAILED", "CANCELLED"}
Statuses == Active \cup Settled
Errors   == {"RETRYABLE", "NON_RETRYABLE", "NO_HANDLER", "LOCK_UNAVAILABLE"}

JobRecord == [key: Keys, idem: IdemKeys, status: Statuses, attempts: Nat,
              lockedBy: Workers \cup {NoWorker},
              lease: {"none", "held", "lapsed"},
              due: BOOLEAN, lastError: Errors \cup {"none"}]

\* An id no job has been created with yet.
Absent == [status |-> "ABSENT"]

Created == {j \in JobIds : jobs[j] # Absent}

-----------------------------------------------------------------------------
(* The operations, as functions on one job record.                         *)

NewJob(k, i, d) ==
  [key |-> k, idem |-> i, status |-> "QUEUED", attempts |-> 0,
   lockedBy |-> NoWorker, lease |-> "none", due |-> d, lastError |-> "none"]

\* A bug the checks must notice: whatever does not run may be started.
CanStartUnlessRunning(job) == job.status # "RUNNING"

\* The guard of markRunning.
CanStart(job) == job.status \in Runnable

\* A bug the checks must notice: the job that runs can still be taken.
StartedStillWaiting(job, w) ==
  [job EXCEPT !.lockedBy = w, !.lease = "held", !.attempts = @ + 1]

\* markRunning, once its guard holds.
Started(job, w) ==
  [job EXCEPT !.status = "RUNNING", !.lockedBy = w, !.lease = "held",
              !.attempts = @ + 1]

\* markSucceeded: whatever the status is, and whoever calls.
Succeeded(job) ==
  [job EXCEPT !.status = "SUCCEEDED", !.lockedBy = NoWorker, !.lease = "none"]

\* A bug the checks must notice: one retry too many.
HasAttemptLeftInclusive(job) == job.attempts <= MaxAttempts[job.key]

HasAttemptLeft(job) == job.attempts < MaxAttempts[job.key]

\* A bug the checks must notice: the dead-letter branch forgets the status.
FailedButLeftRunning(job, e) ==
  IF HasAttemptLeft(job)
  THEN [job EXCEPT !.status = "RETRY_SCHEDULED", !.due = FALSE,
                   !.lastError = e, !.lockedBy = NoWorker, !.lease = "none"]
  ELSE [job EXCEPT !.lastError = e]

\* A bug the checks must notice: a status for dead letters that no operation knows.
FailedAsDeadLetter(job, e) ==
  IF HasAttemptLeft(job)
  THEN [job EXCEPT !.status = "RETRY_SCHEDULED", !.due = FALSE,
                   !.lastError = e, !.lockedBy = NoWorker, !.lease = "none"]
  ELSE [job EXCEPT !.status = "DEAD_LETTER",
                   !.lastError = e, !.lockedBy = NoWorker, !.lease = "none"]

\* markFailed: whatever the status is, and whoever calls.  A retry is put off by
\* a positive delay, so it is not due yet.
Failed(job, e) ==
  IF HasAttemptLeft(job)
  THEN [job EXCEPT !.status = "RETRY_SCHEDULED", !.due = FALSE,
                   !.lastError = e, !.lockedBy = NoWorker, !.lease = "none"]
  ELSE [job EXCEPT !.status = "FAILED",
                   !.lastError = e, !.lockedBy = NoWorker, !.lease = "none"]

\* The condition of expireStaleJobs on one record.
Stale(job) == job # Absent /\ job.status = "RUNNING" /\ job.lease = "lapsed"

\* expireStaleJobs on one record.
Recovered(job) ==
  IF Stale(job)
  THEN [job EXCEPT !.status = "QUEUED", !.lockedBy = NoWorker, !.lease = "none"]
  ELSE job

\* expireStaleJobs counted: a history of the leases lost.
LapsesAfterExpiry ==
  [j \in JobIds |-> IF Stale(jobs[j]) THEN lapses[j] + 1 ELSE lapses[j]]

-----------------------------------------------------------------------------
(* enqueue.                                                                *)

WithIdem(i) == {j \in Created : jobs[j].idem = i}
WithKey(k)  == {j \in Created : jobs[j].key = k}

\* Both look-ups walk the Map and stop at the first match, active or not.
IsFirst(j, S) == j \in S /\ \A m \in S : j <= m

\* The two early returns of enqueue.
Deduplicated(k, i) ==
  \E j \in Created :
    /\ jobs[j].status \in Active
    /\ IsFirst(j, WithIdem(i)) \/ IsFirst(j, WithKey(k))

\* enqueue creates a job, due now or later.  A deduplicated call changes nothing.
Enqueue(k, i, d) ==
  /\ ~Deduplicated(k, i)
  /\ \E j \in JobIds \ Created :
       /\ \A m \in 1..(j - 1) : m \in Created
       /\ jobs' = [jobs EXCEPT ![j] = NewJob(k, i, d)]
  /\ UNCHANGED lapses

\* A bug the checks must notice: a settled job can be cancelled.
CancelWhateverStatus(j) ==
  /\ j \in Created
  /\ jobs' = [jobs EXCEPT ![j].status = "CANCELLED"]
  /\ UNCHANGED lapses

\* markCancelled: also from RUNNING, and the worker is not told.
Cancel(j) ==
  /\ j \in Created
  /\ jobs[j].status \notin Settled
  /\ jobs' = [jobs EXCEPT ![j].status = "CANCELLED"]
  /\ UNCHANGED lapses

\* expireStaleJobs, called by an operator; a poll makes the same step first.
ExpireStaleJobs ==
  /\ \E j \in JobIds : Stale(jobs[j])
  /\ jobs' = [j \in JobIds |-> Recovered(jobs[j])]
  /\ lapses' = LapsesAfterExpiry

-----------------------------------------------------------------------------
(* The clock.                                                              *)

\* Thirty seconds pass on a lease: nothing renews it while the handler runs.
LeaseLapses(j) ==
  /\ j \in Created
  /\ jobs[j].lease = "held"
  /\ lapses[j] < MaxLapses
  /\ jobs' = [jobs EXCEPT ![j].lease = "lapsed"]
  /\ UNCHANGED lapses

\* scheduledAt passes.
BecomesDue(j) ==
  /\ j \in Created
  /\ ~jobs[j].due
  /\ jobs' = [jobs EXCEPT ![j].due = TRUE]
  /\ UNCHANGED lapses

SchedulerInit ==
  /\ jobs = [j \in JobIds |-> Absent]
  /\ lapses = [j \in JobIds |-> 0]

SchedulerTypeOK ==
  /\ jobs \in [JobIds -> JobRecord \cup {Absent}]
  /\ lapses \in [JobIds -> Nat]
=============================================================================
