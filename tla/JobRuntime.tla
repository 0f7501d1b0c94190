----------------------------- MODULE JobRuntime -----------------------------
(***************************************************************************)
(* Job runners that also run jobs under the lock service: runWithLock of   *)
(* lib/economic-operations-job-runner.ts, composed with JobRunner and      *)
(* DistributedLockService.                                                 *)
(*                                                                         *)
(* A task is one call of runWithLock.  It awaits the lock, runs the job    *)
(* (runJob, whose handler settles as in JobRunner) and releases the lock;  *)
(* between two awaits any other step may happen.  The lock names the       *)
(* tenant and the job key, not the job type or the job id.                 *)
(***************************************************************************)
EXTENDS JobRunner, DistributedLockService

CONSTANTS
  Tasks,      \* concurrent calls of runWithLock
  LockKeyOf   \* [Keys -> LockKeys], the lock of a job's tenant and job key

ASSUME RuntimeAssumption ==
  /\ LockKeyOf \in [Keys -> LockKeys]
  /\ Holders = Workers

VARIABLE task  \* where each call stands

allVars == <<vars, lockVars, task>>

Idle == [pc |-> "idle"]
TaskRecord ==
  [pc: {"denied", "granted", "running", "releasing"},
   by: Workers, job: JobIds, lock: Nat, attempt: Nat]

LockOf(j) == LockKeyOf[jobs[j].key]

\* The invocation a task waits for.
CallOf(t) == [job |-> task[t].job, attempt |-> task[t].attempt, by |-> task[t].by]

-----------------------------------------------------------------------------
\* runWithLock up to its first await: acquireLock grants or refuses the lock.
RequestLock(t, w, j) ==
  /\ task[t] = Idle
  /\ j \in Created
  /\ \/ /\ AcquireLock(LockOf(j), w)
        /\ task' = [task EXCEPT ![t] = [pc |-> "granted", by |-> w, job |-> j,
                                        lock |-> nextLockId, attempt |-> 0]]
     \/ /\ LockHeld(LockOf(j))
        /\ task' = [task EXCEPT ![t] = [pc |-> "denied", by |-> w, job |-> j,
                                        lock |-> 0, attempt |-> 0]]
  /\ UNCHANGED vars

\* The lock was refused: the job is marked failed, whoever runs it.
FailsForWantOfLock(t) ==
  /\ task[t].pc = "denied"
  /\ jobs' = [jobs EXCEPT ![task[t].job] = Failed(@, "LOCK_UNAVAILABLE")]
  /\ task' = [task EXCEPT ![t] = Idle]
  /\ UNCHANGED <<lapses, running, calls, lockVars>>

\* runJob under the lock: it starts the job, fails it for want of a handler, or
\* leaves it alone when no slot is free or the table refuses.
StartUnderLock(t) ==
  LET w == task[t].by  j == task[t].job  served == jobs[j].key \in Handles[w] IN
  /\ task[t].pc = "granted"
  /\ \/ /\ RunJob(w, j)
        /\ task' = [task EXCEPT ![t] =
                      IF served THEN [@ EXCEPT !.pc = "running", !.attempt = jobs[j].attempts + 1]
                                ELSE [@ EXCEPT !.pc = "releasing"]]
     \/ /\ served
        /\ FreeSlots(w) <= 0 \/ ~CanStart(jobs[j])
        /\ task' = [task EXCEPT ![t].pc = "releasing"]
        /\ UNCHANGED vars
  /\ UNCHANGED lockVars

\* The finally block of runWithLock, once runJob is over.
FinishTask(t) ==
  /\ \/ task[t].pc = "releasing"
     \/ task[t].pc = "running" /\ CallOf(t) \notin calls
  /\ ReleaseLock(task[t].lock, task[t].by)
  /\ task' = [task EXCEPT ![t] = Idle]
  /\ UNCHANGED vars

RuntimeInit ==
  /\ Init
  /\ LockInit
  /\ task = [t \in Tasks |-> Idle]

TaskStep(t) == StartUnderLock(t) \/ FailsForWantOfLock(t) \/ FinishTask(t)

\* runJob has two callers: poll and a task.
RuntimeNext ==
  \/ TableStep /\ UNCHANGED <<lockVars, task>>
  \/ \E w \in Workers : Poll(w) /\ UNCHANGED <<lockVars, task>>
  \/ \E c \in calls : Settle(c) /\ UNCHANGED <<lockVars, task>>
  \/ \E t \in Tasks, w \in Workers, j \in JobIds : RequestLock(t, w, j)
  \/ \E t \in Tasks : TaskStep(t)
  \/ \E k \in LockKeys : LockExpires(k) /\ UNCHANGED <<vars, task>>

RuntimeSpec == RuntimeInit /\ [][RuntimeNext]_allVars

\* The promises of the lock service resolve, so a task always takes its next
\* step; handlers settle.
RuntimeFairness ==
  /\ \A t \in Tasks : WF_allVars(TaskStep(t))
  /\ \A w \in Workers, j \in JobIds :
       WF_allVars(/\ \E c \in calls : c.by = w /\ c.job = j /\ Settle(c)
                  /\ UNCHANGED <<lockVars, task>>)

FairRuntimeSpec == RuntimeSpec /\ RuntimeFairness

-----------------------------------------------------------------------------
(* Properties.                                                             *)

RuntimeTypeOK ==
  /\ TypeOK
  /\ LockTypeOK
  /\ task \in [Tasks -> TaskRecord \cup {Idle}]

\* Two tasks are at work under one lock only after a TTL has passed: nothing but
\* time takes a lock from its task, neither another's acquire nor a late release.
LockedTasksExclude ==
  \A s, t \in Tasks :
    /\ s # t
    /\ task[s].pc \in {"granted", "running"}
    /\ task[t].pc \in {"granted", "running"}
    /\ LockOf(task[s].job) = LockOf(task[t].job)
    => task[s].lock \in outlived \/ task[t].lock \in outlived

\* No lock leaks: every lock record has a task that will release it, and it is
\* a lock of the worker that was granted it.
LocksHaveTasks ==
  \A k \in LockKeys :
    locks[k] # Unlocked =>
      \E t \in Tasks :
        /\ task[t].pc \in {"granted", "running", "releasing"}
        /\ task[t].lock = locks[k].id
        /\ task[t].by = locks[k].by
        /\ LockOf(task[t].job) = k

\* The lock service under runWithLock implements the lease: a call is granted a lock
\* that nobody holds and refused only one that another call still holds, whichever
\* records have outlived their TTL unswept; and a late release frees only its own.
Served(t, k) == task[t].pc \in {"granted", "running", "releasing"} /\ LockOf(task[t].job) = k
Owns(t, k) ==
  /\ Served(t, k)
  /\ locks[k] # Unlocked
  /\ locks[k].id = task[t].lock
  /\ ~locks[k].expired
TurnedAway(t, k) == task[t].pc = "denied" /\ LockOf(task[t].job) = k

Lease == INSTANCE LeasedWork WITH
  Resources <- LockKeys,
  Holders <- Tasks,
  working <- [k \in LockKeys |-> {t \in Tasks : Served(t, k)}],
  holding <- [k \in LockKeys |-> {t \in Tasks : Owns(t, k)}],
  refused <- [k \in LockKeys |-> {t \in Tasks : TurnedAway(t, k)}]

ImplementsLeasedWork == Lease!Spec

\* The calls of runWithLock that mark a job failed whatever its status: those that were
\* refused the lock, or run under a worker without a handler for it.
Revives(t, j) ==
  /\ task[t] # Idle /\ task[t].job = j
  /\ \/ task[t].pc = "denied"
     \/ task[t].pc = "granted" /\ jobs[j].key \notin Handles[task[t].by]

\* A settled job that no invocation is in flight for keeps its outcome and its attempts
\* unless such a call revives it: neither a poll nor an expiry nor a late answer does
\* (markRunning, expireStaleJobs and markFailed against a SUCCEEDED or CANCELLED job).
SettledUnlessRevived ==
  [][\A j \in Created :
       /\ jobs[j].status \in Settled /\ CallsOf(j) = {}
       /\ \A t \in Tasks : ~Revives(t, j)
       => /\ jobs'[j].status = jobs[j].status
          /\ jobs'[j].attempts = jobs[j].attempts]_allVars

\* RUNTIME_OPERATIONS.md says of workers that compete for jobs via distributed
\* locks: duplicate execution is prevented.  No two invocations of a job are in
\* flight unless its lease was lost.
DuplicateExecutionPrevented ==
  \A j \in Created : Cardinality(CallsOf(j)) <= 1 + lapses[j]

\* A lock that is held is given back, whether its task ran the job, was turned
\* away by the job table, or outlived its lock.
LocksAreReleased ==
  \A k \in LockKeys, i \in 1..MaxLockIds :
    (locks[k] # Unlocked /\ locks[k].id = i) ~> (locks[k] = Unlocked \/ locks[k].id # i)
=============================================================================
