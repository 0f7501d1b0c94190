--------------------------- MODULE JobRuntimeProofs ---------------------------
(***************************************************************************)
(* Proofs about JobRuntime: the lock service, the job table and the calls  *)
(* of runWithLock together, for any jobs, workers, tasks and bounds.       *)
(***************************************************************************)
EXTENDS JobRuntime, JobRunnerProofs

-----------------------------------------------------------------------------
(* The job table under every caller of runJob.                             *)

\* No job is deleted, changes its key or takes an attempt back.
JobsGrow ==
  \A j \in Created :
    /\ j \in Created'
    /\ jobs'[j].key = jobs[j].key
    /\ jobs'[j].attempts >= jobs[j].attempts

\* The operations on a record keep its key, and only markRunning counts.
LEMMA OperationsKeep ==
  ASSUME NEW job \in JobRecord, NEW w, NEW e
  PROVE  /\ Started(job, w).key = job.key /\ Started(job, w).attempts = job.attempts + 1
         /\ Succeeded(job).key = job.key /\ Succeeded(job).attempts = job.attempts
         /\ Failed(job, e).key = job.key /\ Failed(job, e).attempts = job.attempts
         /\ Recovered(job).key = job.key /\ Recovered(job).attempts = job.attempts
         /\ job.attempts \in Nat
BY DEF JobRecord, Started, Succeeded, Failed, Recovered

\* A record of the table is replaced by one with its key and no fewer attempts.
LEMMA ReplacementGrows ==
  ASSUME TypeOK, NEW i \in Created, NEW job \in JobRecord,
         jobs' = [jobs EXCEPT ![i] = job],
         job.key = jobs[i].key, job.attempts >= jobs[i].attempts
  PROVE  JobsGrow
<1>1. SUFFICES ASSUME NEW j \in Created
               PROVE  /\ jobs'[j] # Absent
                      /\ jobs'[j].key = jobs[j].key
                      /\ jobs'[j].attempts >= jobs[j].attempts
  BY DEF JobsGrow, Created
<1>2. j \in JobIds /\ jobs[j] \in JobRecord /\ jobs[j].attempts \in Nat
  BY CreatedIsRecord DEF Created, JobRecord
<1>3. jobs'[j] = IF j = i THEN job ELSE jobs[j]
  BY <1>2 DEF TypeOK, SchedulerTypeOK
<1>4. job # Absent /\ jobs[j] # Absent
  BY <1>2, RecordIsNotAbsent DEF JobRecord
<1>5. QED
  BY <1>2, <1>3, <1>4

\* expireStaleJobs keeps keys and attempts.
LEMMA RecoveryGrows ==
  ASSUME TypeOK, NEW j \in Created
  PROVE  /\ Recovery[j] \in JobRecord
         /\ Recovery[j].key = jobs[j].key
         /\ Recovery[j].attempts = jobs[j].attempts
         /\ jobs[j].attempts \in Nat
<1>1. j \in JobIds /\ jobs[j] \in JobRecord
  BY CreatedIsRecord DEF Created
<1>2. QED
  BY <1>1, RecoveryType, OperationsKeep DEF Recovery

\* Clients, operators and the clock take nothing back.
LEMMA TableGrows ==
  ASSUME TypeOK, TableStep
  PROVE  JobsGrow
<1>1. ASSUME NEW k \in Keys, NEW d \in BOOLEAN, NEW i \in {k} \cup CustomKeys, Enqueue(k, i, d)
      PROVE  JobsGrow
  <2>1. PICK m \in JobIds \ Created : jobs' = [jobs EXCEPT ![m] = NewJob(k, i, d)]
    BY <1>1 DEF Enqueue
  <2>2. \A j \in Created : jobs'[j] = jobs[j] /\ jobs[j].attempts \in Nat
    BY <2>1, CreatedIsRecord DEF TypeOK, SchedulerTypeOK, Created, JobRecord
  <2>3. QED
    BY <1>1, <2>2, TableStepForgetsNothing DEF JobsGrow
<1>2. ASSUME NEW i \in JobIds, Cancel(i) \/ LeaseLapses(i) \/ BecomesDue(i)
      PROVE  JobsGrow
  <2>1. i \in Created /\ jobs[i] \in JobRecord
    BY <1>2, CreatedIsRecord DEF Cancel, LeaseLapses, BecomesDue
  <2>2. PICK job \in JobRecord : /\ jobs' = [jobs EXCEPT ![i] = job]
                                /\ job.key = jobs[i].key /\ job.attempts = jobs[i].attempts
    <3> DEFINE Replaced(job) == job \in JobRecord /\ jobs' = [jobs EXCEPT ![i] = job]
                                /\ job.key = jobs[i].key /\ job.attempts = jobs[i].attempts
    <3>1. CASE Cancel(i)
      <4>1. Replaced([jobs[i] EXCEPT !.status = "CANCELLED"])
        BY <2>1, <3>1 DEF Cancel, JobRecord, Statuses, Settled
      <4>2. QED
        BY <4>1
    <3>2. CASE LeaseLapses(i)
      <4>1. Replaced([jobs[i] EXCEPT !.lease = "lapsed"])
        BY <2>1, <3>2 DEF LeaseLapses, JobRecord
      <4>2. QED
        BY <4>1
    <3>3. CASE BecomesDue(i)
      <4>1. Replaced([jobs[i] EXCEPT !.due = TRUE])
        BY <2>1, <3>3 DEF BecomesDue, JobRecord
      <4>2. QED
        BY <4>1
    <3>4. QED
      BY <1>2, <3>1, <3>2, <3>3
  <2>3. job.attempts >= jobs[i].attempts
    BY <2>1, <2>2 DEF JobRecord
  <2>4. QED
    BY <2>1, <2>2, <2>3, ReplacementGrows
<1>3. CASE ExpireStaleJobs
  <2>1. \A j \in Created : j \in JobIds /\ jobs'[j] = Recovery[j]
    BY <1>3 DEF ExpireStaleJobs, Recovery, Created
  <2>2. QED
    BY <2>1, RecoveryGrows, TableStepForgetsNothing DEF JobsGrow
<1>4. QED
  BY <1>1, <1>2, <1>3 DEF TableStep

\* Neither does a poll ...
LEMMA PollGrows ==
  ASSUME TypeOK, CallsKnown, NEW w \in Workers, Poll(w)
  PROVE  JobsGrow
<1>1. SUFFICES ASSUME NEW j \in Created
               PROVE  /\ jobs'[j].key = jobs[j].key
                      /\ jobs'[j].attempts >= jobs[j].attempts
  BY RunnerStepForgetsNothing DEF JobsGrow, RunnerStep
<1>2. j \in JobIds
  BY DEF Created
<1>3. jobs'[j] \in {Recovery[j], Failed(Recovery[j], "NO_HANDLER"), Started(Recovery[j], w)}
  BY <1>2, PollOnOneJob
<1>4. QED
  BY <1>3, RecoveryGrows, OperationsKeep

\* ... nor a handler that settles.
LEMMA SettleGrows ==
  ASSUME TypeOK, CallsKnown, NEW c \in calls, Settle(c)
  PROVE  JobsGrow
<1>1. c.job \in Created /\ c.by \in Workers /\ jobs[c.job] \in JobRecord
  BY CreatedIsRecord DEF CallsKnown, TypeOK, Call, Created
<1>2. PICK job \in {Succeeded(jobs[c.job]), Failed(jobs[c.job], "RETRYABLE"),
                    Failed(jobs[c.job], "NON_RETRYABLE")} :
        jobs' = [jobs EXCEPT ![c.job] = job]
  BY DEF Settle, HandlerReturns, HandlerThrows
<1>3. job \in JobRecord
  BY <1>1, RecordTypes DEF Errors
<1>4. job.key = jobs[c.job].key /\ job.attempts >= jobs[c.job].attempts
  BY <1>1, OperationsKeep
<1>5. QED
  BY <1>1, <1>2, <1>3, <1>4, ReplacementGrows

\* A job is failed whatever its status, with no invocation settled.
LEMMA FailureKeeps ==
  ASSUME TypeOK, CallsKnown, NEW j \in Created, NEW e \in Errors, NEW w \in Workers,
         jobs' = [jobs EXCEPT ![j] = Failed(@, e)], UNCHANGED <<lapses, running, calls>>
  PROVE  TypeOK' /\ CallsKnown' /\ JobsGrow
<1>1. j \in JobIds /\ jobs[j] \in JobRecord
  BY CreatedIsRecord DEF Created
<1>2. Failed(jobs[j], e) \in JobRecord
  BY <1>1, RecordTypes
<1>3. JobsGrow
  <2>1. /\ Failed(jobs[j], e).key = jobs[j].key
        /\ Failed(jobs[j], e).attempts >= jobs[j].attempts
    BY <1>1, OperationsKeep
  <2>2. QED
    BY <1>2, <2>1, ReplacementGrows
<1>4. TypeOK'
  BY <1>1, <1>2 DEF TypeOK, SchedulerTypeOK
<1>5. QED
  BY <1>3, <1>4 DEF CallsKnown, JobsGrow

\* runJob on a record that may be stale.
LEMMA RunJobKeeps ==
  ASSUME TypeOK, CallsKnown, NEW w \in Workers, NEW j \in JobIds, RunJob(w, j)
  PROVE  /\ TypeOK' /\ CallsKnown' /\ JobsGrow
         /\ jobs[j].key \in Handles[w] => jobs'[j].attempts = jobs[j].attempts + 1
<1>1. j \in Created /\ jobs[j] \in JobRecord
  BY CreatedIsRecord DEF RunJob
<1>2. CASE jobs[j].key \notin Handles[w]
  <2>1. jobs' = [jobs EXCEPT ![j] = Failed(@, "NO_HANDLER")]
        /\ UNCHANGED <<lapses, running, calls>>
    BY <1>2 DEF RunJob
  <2>2. QED
    BY <1>1, <1>2, <2>1, FailureKeeps DEF Errors
<1>3. CASE jobs[j].key \in Handles[w]
  <2>1. /\ CanStart(jobs[j])
        /\ jobs' = [jobs EXCEPT ![j] = Started(jobs[j], w)]
    BY <1>3 DEF RunJob
  <2>2. RunnerStep
    BY <1>1, <2>1 DEF RunnerStep, RunWaitingJob, CanStart
  <2>3. Started(jobs[j], w) \in JobRecord
    BY <1>1, RecordTypes DEF Errors
  <2>4. /\ Started(jobs[j], w).key = jobs[j].key
        /\ Started(jobs[j], w).attempts = jobs[j].attempts + 1
        /\ jobs[j].attempts \in Nat
    BY <1>1, OperationsKeep
  <2>5. JobsGrow
    <3>1. Started(jobs[j], w).attempts >= jobs[j].attempts
      BY <2>4
    <3>2. QED
      BY <1>1, <2>1, <2>3, <2>4, <3>1, ReplacementGrows
  <2>6. jobs'[j] = Started(jobs[j], w)
    BY <2>1 DEF TypeOK, SchedulerTypeOK
  <2>7. QED
    BY <2>2, <2>4, <2>5, <2>6, RunnerStepTyping, CallsKnownStep
<1>4. QED
  BY <1>2, <1>3

-----------------------------------------------------------------------------
(* The inductive invariant of the runtime.                                 *)

\* The task has a lock to give back, and works under it.
HoldsLock(t) == task[t].pc \in {"granted", "running", "releasing"}
Works(t)     == task[t].pc \in {"granted", "running"}

TasksKnown == \A t \in Tasks : task[t].pc # "idle" => task[t].job \in Created

\* Lock ids are fresh: a lock is outlived once it expires, and no two tasks have
\* been granted the same one.
LockIdsOK ==
  /\ \A k \in LockKeys : locks[k] # Unlocked =>
       /\ locks[k].id < nextLockId
       /\ locks[k].expired <=> locks[k].id \in outlived
  /\ \A n \in outlived : n < nextLockId
  /\ \A t \in Tasks : HoldsLock(t) => task[t].lock < nextLockId
  /\ \A s, t \in Tasks : s # t /\ HoldsLock(s) /\ HoldsLock(t) => task[s].lock # task[t].lock

\* A task at work has its lock on record, unless the lock was outlived.
LocksKept ==
  \A t \in Tasks :
    Works(t) /\ task[t].lock \notin outlived =>
      /\ locks[LockOf(task[t].job)] # Unlocked
      /\ locks[LockOf(task[t].job)].id = task[t].lock

RuntimeIInv ==
  /\ RuntimeTypeOK /\ CallsKnown /\ TasksKnown
  /\ LockIdsOK /\ LocksKept
  /\ LocksHaveTasks

\* A task that is not idle has a record.
LEMMA TaskIsRecord ==
  ASSUME RuntimeTypeOK, NEW t \in Tasks, task[t].pc # "idle"
  PROVE  task[t] \in TaskRecord
BY DEF RuntimeTypeOK, Idle

\* The lock of a job never changes.
LEMMA SameLock ==
  ASSUME JobsGrow, NEW j \in Created
  PROVE  LockOf(j)' = LockOf(j)
BY DEF JobsGrow, LockOf

\* The lock of a job is a lock key.
LEMMA LockOfType ==
  ASSUME TypeOK, NEW j \in Created
  PROVE  LockOf(j) \in LockKeys
<1>1. jobs[j] \in JobRecord
  BY CreatedIsRecord DEF Created
<1>2. QED
  BY <1>1, RuntimeAssumption DEF LockOf, JobRecord

\* A task steps under the lock it has, or gives up for want of one.
Proceeds(t) ==
  \/ task'[t] = task[t]
  \/ task[t].pc = "denied" /\ task'[t] = Idle
  \/ task[t].pc = "granted" /\ task'[t] = [task[t] EXCEPT !.pc = "releasing"]
  \/ /\ task[t].pc = "granted"
     /\ task'[t] = [task[t] EXCEPT !.pc = "running",
                                   !.attempt = jobs[task[t].job].attempts + 1]
     /\ jobs'[task[t].job].attempts = jobs[task[t].job].attempts + 1

\* Jobs move, and at most one task, and the locks stay.
LEMMA JobsMove ==
  ASSUME RuntimeIInv, JobsGrow, TypeOK', CallsKnown', UNCHANGED lockVars,
         task' \in [Tasks -> TaskRecord \cup {Idle}],
         NEW t, \A u \in Tasks \ {t} : task'[u] = task[u], t \in Tasks => Proceeds(t)
  PROVE  RuntimeIInv'
<1>1. RuntimeTypeOK'
  BY DEF RuntimeIInv, RuntimeTypeOK, LockTypeOK, lockVars
<1>2. /\ \A u \in Tasks : task[u].pc # "idle" => task[u] \in TaskRecord
      /\ Idle.pc = "idle"
  BY TaskIsRecord DEF RuntimeIInv, Idle
<1>3. \A u \in Tasks : task'[u].pc # "idle" =>
        /\ task[u].pc # "idle"
        /\ task'[u].lock = task[u].lock /\ task'[u].by = task[u].by
        /\ task'[u].job = task[u].job
        /\ task'[u].pc \in {task[u].pc, "running", "releasing"}
        /\ task'[u].pc # task[u].pc => task[u].pc = "granted"
  <2>1. ASSUME NEW u \in Tasks, task'[u].pc # "idle", Proceeds(u)
        PROVE  /\ task[u].pc # "idle"
               /\ task'[u].lock = task[u].lock /\ task'[u].by = task[u].by
               /\ task'[u].job = task[u].job
               /\ task'[u].pc \in {task[u].pc, "running", "releasing"}
               /\ task'[u].pc # task[u].pc => task[u].pc = "granted"
    BY <1>2, <2>1 DEF Proceeds, TaskRecord
  <2>2. QED
    BY <2>1 DEF Proceeds
<1>4. \A u \in Tasks : task'[u].pc # "idle" => task[u].job \in Created /\ task[u].job \in Created'
  BY <1>3 DEF RuntimeIInv, TasksKnown, JobsGrow
<1>5. \A u \in Tasks : task'[u].pc # "idle" =>
        LockKeyOf[jobs'[task'[u].job].key] = LockOf(task[u].job)
  BY <1>3, <1>4 DEF JobsGrow, LockOf
<1>6. \A u \in Tasks : HoldsLock(u) => HoldsLock(u)'
  <2>1. ASSUME NEW u \in Tasks, HoldsLock(u), Proceeds(u)
        PROVE  HoldsLock(u)'
    BY <1>2, <2>1 DEF Proceeds, TaskRecord, HoldsLock
  <2>2. QED
    BY <2>1 DEF Proceeds
<1>7. TasksKnown'
  BY <1>3, <1>4 DEF TasksKnown
<1>8. LockIdsOK'
  <2>1. \A u \in Tasks : HoldsLock(u)' => HoldsLock(u) /\ task'[u].lock = task[u].lock
    BY <1>3 DEF HoldsLock
  <2>2. QED
    BY <2>1 DEF RuntimeIInv, LockIdsOK, lockVars
<1>9. \A u \in Tasks : Works(u)' => Works(u) /\ task'[u].lock = task[u].lock
  BY <1>3 DEF Works
<1>10. LocksKept'
  <2>1. SUFFICES ASSUME NEW u \in Tasks, Works(u)', task'[u].lock \notin outlived
                 PROVE  /\ locks[LockKeyOf[jobs'[task'[u].job].key]] # Unlocked
                        /\ locks[LockKeyOf[jobs'[task'[u].job].key]].id = task'[u].lock
    BY DEF LocksKept, LockOf, lockVars
  <2>2. QED
    BY <1>5, <1>9, <2>1 DEF RuntimeIInv, LocksKept, Works
<1>11. LocksHaveTasks'
  <2>1. SUFFICES ASSUME NEW k \in LockKeys, locks[k] # Unlocked
                 PROVE  \E u \in Tasks :
                          /\ HoldsLock(u)'
                          /\ task'[u].lock = locks[k].id
                          /\ task'[u].by = locks[k].by
                          /\ LockKeyOf[jobs'[task'[u].job].key] = k
    BY DEF LocksHaveTasks, HoldsLock, LockOf, lockVars
  <2>2. PICK u \in Tasks : /\ HoldsLock(u)
                           /\ task[u].lock = locks[k].id
                           /\ task[u].by = locks[k].by
                           /\ LockOf(task[u].job) = k
    BY <2>1 DEF RuntimeIInv, LocksHaveTasks, HoldsLock
  <2>3. HoldsLock(u)' /\ task'[u].pc # "idle"
    BY <1>6, <2>2 DEF HoldsLock
  <2>4. QED
    BY <1>3, <1>5, <2>2, <2>3
<1>12. QED
  BY <1>1, <1>7, <1>8, <1>10, <1>11 DEF RuntimeIInv

-----------------------------------------------------------------------------
(* The steps of the lock service.                                          *)

\* What the sweep leaves: every lock that was not outlived.
LEMMA Sweep ==
  ASSUME LockTypeOK, LockIdsOK, NEW k \in LockKeys
  PROVE  /\ Swept(k) \in LockRecord \cup {Unlocked}
         /\ Swept(k) # Unlocked => Swept(k) = locks[k]
         /\ locks[k] # Unlocked /\ locks[k].id \notin outlived => Swept(k) = locks[k]
         /\ locks[k] # Unlocked /\ locks[k].id \in outlived => Swept(k) = Unlocked
BY DEF Swept, LockTypeOK, LockIdsOK

\* A lock is granted: the id is fresh, and nobody else is at work under it unless
\* its own lock was outlived.
LEMMA GrantStep ==
  ASSUME RuntimeIInv, NEW t \in Tasks, NEW w \in Workers, NEW j \in Created, task[t] = Idle,
         AcquireLock(LockOf(j), w), UNCHANGED vars,
         task' = [task EXCEPT ![t] = [pc |-> "granted", by |-> w, job |-> j,
                                      lock |-> nextLockId, attempt |-> 0]]
  PROVE  RuntimeIInv'
<1> DEFINE k0 == LockOf(j)
           new == [pc |-> "granted", by |-> w, job |-> j, lock |-> nextLockId, attempt |-> 0]
<1>1. k0 \in LockKeys /\ j \in JobIds
  BY LockOfType DEF RuntimeIInv, RuntimeTypeOK, Created
<1>2. /\ nextLockId \in Nat /\ nextLockId' = nextLockId + 1 /\ outlived' = outlived
      /\ Swept(k0) = Unlocked
      /\ locks'[k0] = [id |-> nextLockId, by |-> w, expired |-> FALSE]
      /\ \A m \in LockKeys \ {k0} : locks'[m] = Swept(m)
      /\ DOMAIN locks' = LockKeys
  BY <1>1 DEF AcquireLock, RuntimeIInv, RuntimeTypeOK, LockTypeOK
<1>3. /\ task \in [Tasks -> TaskRecord \cup {Idle}]
      /\ task'[t] = new /\ \A u \in Tasks \ {t} : task'[u] = task[u]
      /\ task[t].pc = "idle"
  BY DEF RuntimeIInv, RuntimeTypeOK, Idle
<1>4. new \in TaskRecord
  BY <1>1, <1>2 DEF TaskRecord
<1>5. \A m \in LockKeys : /\ Swept(m) \in LockRecord \cup {Unlocked}
                          /\ Swept(m) # Unlocked => Swept(m) = locks[m]
                          /\ locks[m] # Unlocked /\ locks[m].id \notin outlived
                               => Swept(m) = locks[m]
  BY Sweep DEF RuntimeIInv, RuntimeTypeOK
<1>6. jobs' = jobs /\ \A i \in Created : i \in Created'
  BY DEF vars, Created
<1>7. \A u \in Tasks : task[u].pc # "idle" => task[u].job \in Created
  BY DEF RuntimeIInv, TasksKnown
<1>8. [id |-> nextLockId, by |-> w, expired |-> FALSE] \in LockRecord \ {Unlocked}
  BY <1>2, RuntimeAssumption DEF LockRecord, Unlocked
<1>9. RuntimeTypeOK'
  <2>1. TypeOK'
    BY DEF RuntimeIInv, RuntimeTypeOK, vars, TypeOK, SchedulerTypeOK
  <2>2. locks' \in [LockKeys -> LockRecord \cup {Unlocked}]
    BY <1>1, <1>2, <1>5, <1>8 DEF AcquireLock
  <2>3. LockTypeOK'
    BY <1>2, <2>2 DEF LockTypeOK, RuntimeIInv, RuntimeTypeOK
  <2>4. task' \in [Tasks -> TaskRecord \cup {Idle}]
    BY <1>3, <1>4
  <2>5. QED
    BY <2>1, <2>3, <2>4 DEF RuntimeTypeOK
<1>10. CallsKnown' /\ TasksKnown'
  BY <1>3, <1>6, <1>7 DEF RuntimeIInv, CallsKnown, TasksKnown, vars
<1>11. \A m \in LockKeys : locks[m] # Unlocked => locks[m] \in LockRecord /\ locks[m].id \in Nat
  BY DEF RuntimeIInv, RuntimeTypeOK, LockTypeOK, LockRecord
<1>12. \A u \in Tasks : HoldsLock(u) => task[u].lock \in Nat /\ task[u].lock < nextLockId
  BY TaskIsRecord DEF RuntimeIInv, LockIdsOK, HoldsLock, TaskRecord
<1>13. \A n \in outlived : n \in Nat /\ n < nextLockId
  BY DEF RuntimeIInv, RuntimeTypeOK, LockTypeOK, LockIdsOK
<1>14. LockIdsOK'
  <2>1. \A m \in LockKeys : locks'[m] # Unlocked =>
          locks'[m].id < nextLockId' /\ (locks'[m].expired <=> locks'[m].id \in outlived')
    <3>1. ASSUME NEW m \in LockKeys \ {k0}, locks'[m] # Unlocked
          PROVE  locks'[m].id < nextLockId' /\ (locks'[m].expired <=> locks'[m].id \in outlived')
      <4>1. locks'[m] = locks[m] /\ locks[m] # Unlocked
        BY <1>2, <1>5, <3>1
      <4>2. QED
        BY <1>2, <1>11, <4>1 DEF RuntimeIInv, LockIdsOK
    <3>2. locks'[k0].id < nextLockId' /\ (locks'[k0].expired <=> locks'[k0].id \in outlived')
      BY <1>2, <1>13
    <3>3. QED
      BY <3>1, <3>2
  <2>2. \A n \in outlived' : n < nextLockId'
    BY <1>2, <1>13
  <2>3. \A u \in Tasks : HoldsLock(u)' => task'[u].lock < nextLockId'
    BY <1>2, <1>3, <1>12 DEF HoldsLock
  <2>4. \A u, v \in Tasks : u # v /\ HoldsLock(u)' /\ HoldsLock(v)' => task'[u].lock # task'[v].lock
    BY <1>2, <1>3, <1>12 DEF HoldsLock, RuntimeIInv, LockIdsOK
  <2>5. QED
    BY <2>1, <2>2, <2>3, <2>4 DEF LockIdsOK
<1>15. \A u \in Tasks : Works(u) /\ LockOf(task[u].job) = k0 => task[u].lock \in outlived
  BY <1>1, <1>2, <1>5 DEF RuntimeIInv, LocksKept
<1>16. LocksKept'
  <2>1. SUFFICES ASSUME NEW u \in Tasks, Works(u)', task'[u].lock \notin outlived
                 PROVE  /\ locks'[LockOf(task'[u].job)] # Unlocked
                        /\ locks'[LockOf(task'[u].job)].id = task'[u].lock
    BY <1>2, <1>6 DEF LocksKept, LockOf
  <2>2. CASE u = t
    BY <1>2, <1>3, <1>6, <1>8, <2>2
  <2>3. CASE u # t
    <3>1. /\ task'[u] = task[u] /\ Works(u) /\ task[u].job \in Created
          /\ LockOf(task[u].job) \in LockKeys
      BY <1>3, <1>7, <2>1, <2>3, LockOfType DEF Works, RuntimeIInv, RuntimeTypeOK
    <3>2. LockOf(task[u].job) # k0
      BY <1>15, <2>1, <3>1
    <3>3. /\ locks[LockOf(task[u].job)] # Unlocked
          /\ locks[LockOf(task[u].job)].id = task[u].lock
      BY <2>1, <3>1 DEF RuntimeIInv, LocksKept
    <3>4. QED
      BY <1>2, <1>5, <1>6, <2>1, <3>1, <3>2, <3>3
  <2>4. QED
    BY <2>2, <2>3
<1>17. LocksHaveTasks'
  <2>1. SUFFICES ASSUME NEW k \in LockKeys, locks'[k] # Unlocked
                 PROVE  \E u \in Tasks :
                          /\ task'[u].pc \in {"granted", "running", "releasing"}
                          /\ task'[u].lock = locks'[k].id
                          /\ task'[u].by = locks'[k].by
                          /\ LockOf(task'[u].job) = k
    BY <1>6 DEF LocksHaveTasks, LockOf
  <2>2. CASE k = k0
    BY <1>2, <1>3, <1>6, <2>2
  <2>3. CASE k # k0
    <3>1. locks'[k] = locks[k] /\ locks[k] # Unlocked
      BY <1>2, <1>5, <2>1, <2>3
    <3>2. PICK u \in Tasks : /\ task[u].pc \in {"granted", "running", "releasing"}
                             /\ task[u].lock = locks[k].id
                             /\ task[u].by = locks[k].by
                             /\ LockOf(task[u].job) = k
      BY <3>1 DEF RuntimeIInv, LocksHaveTasks
    <3>3. task'[u] = task[u] /\ task[u].job \in Created
      BY <1>3, <1>7, <3>2
    <3>4. QED
      BY <1>6, <3>1, <3>2, <3>3
  <2>4. QED
    BY <2>2, <2>3
<1>18. QED
  BY <1>9, <1>10, <1>14, <1>16, <1>17 DEF RuntimeIInv

\* A task has no lock any more, or is refused one, and every lock that goes with it
\* was its own or outlived.
LEMMA LocksGo ==
  ASSUME RuntimeIInv, UNCHANGED <<vars, nextLockId, outlived>>, NEW t \in Tasks,
         NEW r \in TaskRecord \cup {Idle}, task' = [task EXCEPT ![t] = r],
         r.pc \in {"idle", "denied"}, r.pc = "denied" => r.job \in Created,
         locks' \in [LockKeys -> LockRecord \cup {Unlocked}],
         \A m \in LockKeys :
           \/ locks'[m] = locks[m]
           \/ /\ locks'[m] = Unlocked
              /\ locks[m].id \in outlived \/ (HoldsLock(t) /\ locks[m].id = task[t].lock),
         \A m \in LockKeys : locks'[m] = locks[m] =>
           \/ locks[m] = Unlocked \/ ~HoldsLock(t)
           \/ locks[m].id # task[t].lock \/ locks[m].by # task[t].by
  PROVE  RuntimeIInv'
<1>1. task'[t] = r /\ \A u \in Tasks \ {t} : task'[u] = task[u]
  BY DEF RuntimeIInv, RuntimeTypeOK
<1>2. RuntimeTypeOK'
  <2>1. TypeOK'
    BY DEF RuntimeIInv, RuntimeTypeOK, vars, TypeOK, SchedulerTypeOK
  <2>2. QED
    BY <2>1 DEF RuntimeIInv, RuntimeTypeOK, LockTypeOK
<1>3. jobs' = jobs /\ calls' = calls /\ Created' = Created
  BY DEF vars, Created
<1>4. \A u \in Tasks : HoldsLock(u)' => u # t /\ task'[u] = task[u] /\ HoldsLock(u)
  BY <1>1 DEF HoldsLock
<1>5. \A u \in Tasks : Works(u)' => u # t /\ task'[u] = task[u] /\ Works(u) /\ HoldsLock(u)
  BY <1>1 DEF HoldsLock, Works
<1>6. CallsKnown' /\ TasksKnown'
  BY <1>1, <1>3 DEF RuntimeIInv, CallsKnown, TasksKnown
<1>7. LockIdsOK'
  BY <1>4 DEF RuntimeIInv, LockIdsOK
<1>8. LocksKept'
  <2>1. SUFFICES ASSUME NEW u \in Tasks, Works(u)', task'[u].lock \notin outlived
                 PROVE  /\ locks'[LockOf(task'[u].job)] # Unlocked
                        /\ locks'[LockOf(task'[u].job)].id = task'[u].lock
    BY <1>3 DEF LocksKept, LockOf
  <2>2. u # t /\ task'[u] = task[u] /\ Works(u) /\ HoldsLock(u)
    BY <1>5, <2>1
  <2>3. LockOf(task[u].job) \in LockKeys
    BY <2>2, LockOfType DEF RuntimeIInv, RuntimeTypeOK, TasksKnown, Works
  <2>4. locks[LockOf(task[u].job)] # Unlocked /\ locks[LockOf(task[u].job)].id = task[u].lock
    BY <2>1, <2>2 DEF RuntimeIInv, LocksKept
  <2>5. HoldsLock(t) => task[u].lock # task[t].lock
    BY <2>2 DEF RuntimeIInv, LockIdsOK
  <2>6. locks'[LockOf(task[u].job)] = locks[LockOf(task[u].job)]
    BY <2>1, <2>2, <2>3, <2>4, <2>5
  <2>7. QED
    BY <2>2, <2>4, <2>6
<1>9. LocksHaveTasks'
  <2>1. SUFFICES ASSUME NEW k \in LockKeys, locks'[k] # Unlocked
                 PROVE  \E u \in Tasks :
                          /\ HoldsLock(u)'
                          /\ task'[u].lock = locks'[k].id
                          /\ task'[u].by = locks'[k].by
                          /\ LockOf(task'[u].job) = k
    BY <1>3 DEF LocksHaveTasks, HoldsLock, LockOf
  <2>2. locks'[k] = locks[k] /\ locks[k] # Unlocked
    BY <2>1
  <2>3. PICK u \in Tasks : /\ HoldsLock(u)
                           /\ task[u].lock = locks[k].id
                           /\ task[u].by = locks[k].by
                           /\ LockOf(task[u].job) = k
    BY <2>2 DEF RuntimeIInv, LocksHaveTasks, HoldsLock
  <2>4. u # t
    BY <2>2, <2>3
  <2>5. task'[u] = task[u] /\ HoldsLock(u)'
    BY <1>1, <2>3, <2>4 DEF HoldsLock
  <2>6. QED
    BY <2>2, <2>3, <2>5
<1>10. QED
  BY <1>2, <1>6, <1>7, <1>8, <1>9 DEF RuntimeIInv

\* The TTL of a lock passes.
LEMMA ExpiryStep ==
  ASSUME RuntimeIInv, NEW k \in LockKeys, LockExpires(k), UNCHANGED <<vars, task>>
  PROVE  RuntimeIInv'
<1>1. /\ locks \in [LockKeys -> LockRecord \cup {Unlocked}] /\ locks[k] # Unlocked
      /\ locks' = [locks EXCEPT ![k].expired = TRUE]
      /\ outlived' = outlived \cup {locks[k].id} /\ nextLockId' = nextLockId
  BY DEF LockExpires, RuntimeIInv, RuntimeTypeOK, LockTypeOK
<1>2. locks[k] \in LockRecord /\ locks[k].id \in Nat /\ locks[k].id < nextLockId
  BY <1>1 DEF LockRecord, RuntimeIInv, LockIdsOK
<1>3. /\ locks'[k] = [locks[k] EXCEPT !.expired = TRUE]
      /\ locks'[k].id = locks[k].id /\ locks'[k].by = locks[k].by /\ locks'[k].expired
      /\ locks'[k] \in LockRecord /\ locks'[k] # Unlocked
      /\ \A m \in LockKeys \ {k} : locks'[m] = locks[m]
  BY <1>1, <1>2 DEF LockRecord, Unlocked
<1>4. RuntimeTypeOK'
  <2>1. TypeOK'
    BY DEF RuntimeIInv, RuntimeTypeOK, vars, TypeOK, SchedulerTypeOK
  <2>2. locks' \in [LockKeys -> LockRecord \cup {Unlocked}] /\ outlived' \subseteq Nat
    BY <1>1, <1>2, <1>3 DEF RuntimeIInv, RuntimeTypeOK, LockTypeOK
  <2>3. QED
    BY <1>1, <2>1, <2>2 DEF RuntimeIInv, RuntimeTypeOK, LockTypeOK
<1>5. jobs' = jobs /\ calls' = calls /\ Created' = Created
  BY DEF vars, Created
<1>6. CallsKnown' /\ TasksKnown'
  BY <1>5 DEF RuntimeIInv, CallsKnown, TasksKnown
<1>7. \A m \in LockKeys \ {k} : locks[m] # Unlocked => locks[m].id # locks[k].id
  <2>1. SUFFICES ASSUME NEW m \in LockKeys \ {k}, locks[m] # Unlocked,
                        locks[m].id = locks[k].id
                 PROVE  FALSE
    OBVIOUS
  <2>2. PICK u \in Tasks : HoldsLock(u) /\ task[u].lock = locks[m].id /\ LockOf(task[u].job) = m
    BY <2>1 DEF RuntimeIInv, LocksHaveTasks, HoldsLock
  <2>3. PICK v \in Tasks : HoldsLock(v) /\ task[v].lock = locks[k].id /\ LockOf(task[v].job) = k
    BY <1>1 DEF RuntimeIInv, LocksHaveTasks, HoldsLock
  <2>4. QED
    BY <2>1, <2>2, <2>3 DEF RuntimeIInv, LockIdsOK
<1>8. LockIdsOK'
  <2>1. \A m \in LockKeys : locks'[m] # Unlocked =>
          locks'[m].id < nextLockId' /\ (locks'[m].expired <=> locks'[m].id \in outlived')
    BY <1>1, <1>2, <1>3, <1>7 DEF RuntimeIInv, LockIdsOK
  <2>2. QED
    BY <1>1, <1>2, <2>1 DEF RuntimeIInv, LockIdsOK, HoldsLock
<1>9. LocksKept'
  BY <1>1, <1>3, <1>5 DEF RuntimeIInv, LocksKept, Works, LockOf
<1>10. LocksHaveTasks'
  <2>1. \A m \in LockKeys : locks'[m] # Unlocked =>
          /\ locks[m] # Unlocked
          /\ locks'[m].id = locks[m].id /\ locks'[m].by = locks[m].by
    BY <1>1, <1>3
  <2>2. QED
    BY <1>5, <2>1 DEF RuntimeIInv, LocksHaveTasks, LockOf
<1>11. QED
  BY <1>4, <1>6, <1>8, <1>9, <1>10 DEF RuntimeIInv

-----------------------------------------------------------------------------
(* Every step.                                                             *)

\* A task asks for the lock and is granted or refused it.
LEMMA RequestStep ==
  ASSUME RuntimeIInv, NEW t \in Tasks, NEW w \in Workers, NEW j \in JobIds, RequestLock(t, w, j)
  PROVE  RuntimeIInv'
<1>1. task[t] = Idle /\ j \in Created /\ UNCHANGED vars
  BY DEF RequestLock
<1>2. CASE /\ AcquireLock(LockOf(j), w)
           /\ task' = [task EXCEPT ![t] = [pc |-> "granted", by |-> w, job |-> j,
                                           lock |-> nextLockId, attempt |-> 0]]
  BY <1>1, <1>2, GrantStep
<1>3. CASE /\ LockHeld(LockOf(j))
           /\ task' = [task EXCEPT ![t] = [pc |-> "denied", by |-> w, job |-> j,
                                           lock |-> 0, attempt |-> 0]]
  <2> DEFINE r == [pc |-> "denied", by |-> w, job |-> j, lock |-> 0, attempt |-> 0]
  <2>1. r \in TaskRecord
    BY DEF TaskRecord
  <2>2. /\ \A m \in LockKeys : locks'[m] = Swept(m)
        /\ locks' = [m \in LockKeys |-> Swept(m)]
        /\ UNCHANGED <<nextLockId, outlived>>
    BY <1>3 DEF LockHeld
  <2>3. /\ locks' \in [LockKeys -> LockRecord \cup {Unlocked}]
        /\ \A m \in LockKeys : locks'[m] = locks[m]
                               \/ (locks'[m] = Unlocked /\ locks[m].id \in outlived)
    BY <2>2, Sweep DEF RuntimeIInv, RuntimeTypeOK
  <2>4. ~HoldsLock(t)
    BY <1>1 DEF HoldsLock, Idle
  <2> HIDE DEF r
  <2>5. task' = [task EXCEPT ![t] = r] /\ r.pc = "denied" /\ r.job = j
    BY <1>3 DEF r
  <2>6. QED
    BY <1>1, <2>1, <2>2, <2>3, <2>4, <2>5, LocksGo
<1>4. QED
  BY <1>2, <1>3 DEF RequestLock

\* A task takes its next step.
LEMMA TaskMoves ==
  ASSUME RuntimeIInv, NEW t \in Tasks, TaskStep(t)
  PROVE  RuntimeIInv'
<1>1. /\ TypeOK /\ CallsKnown
      /\ task \in [Tasks -> TaskRecord \cup {Idle}]
      /\ Idle \in TaskRecord \cup {Idle} /\ Idle.pc = "idle"
  BY DEF RuntimeIInv, RuntimeTypeOK, Idle
<1>2. ASSUME JobsGrow, TypeOK', CallsKnown', UNCHANGED lockVars, NEW r \in TaskRecord \cup {Idle},
             task' = [task EXCEPT ![t] = r], Proceeds(t)
      PROVE  RuntimeIInv'
  <2>1. /\ task' \in [Tasks -> TaskRecord \cup {Idle}]
        /\ \A u \in Tasks \ {t} : task'[u] = task[u]
    BY <1>1, <1>2
  <2>2. QED
    BY <1>2, <2>1, JobsMove DEF lockVars
<1>3. CASE FailsForWantOfLock(t)
  <2>1. task[t].pc = "denied" /\ task' = [task EXCEPT ![t] = Idle] /\ UNCHANGED lockVars
    BY <1>3 DEF FailsForWantOfLock
  <2>2. task[t] \in TaskRecord /\ task[t].job \in Created
    BY <2>1, TaskIsRecord DEF RuntimeIInv, TasksKnown
  <2>3. TypeOK' /\ CallsKnown' /\ JobsGrow
    <3>1. task[t].by \in Workers /\ "LOCK_UNAVAILABLE" \in Errors
      BY <2>2 DEF TaskRecord, Errors
    <3>2. /\ jobs' = [jobs EXCEPT ![task[t].job] = Failed(@, "LOCK_UNAVAILABLE")]
          /\ UNCHANGED <<lapses, running, calls>>
      BY <1>3 DEF FailsForWantOfLock
    <3>3. QED
      BY <1>1, <2>2, <3>1, <3>2, FailureKeeps
  <2>4. Proceeds(t)
    BY <1>1, <2>1 DEF Proceeds
  <2>5. QED
    BY <1>1, <1>2, <2>1, <2>3, <2>4
<1>4. CASE StartUnderLock(t)
  <2> DEFINE w == task[t].by
             j == task[t].job
  <2>1. task[t].pc = "granted" /\ UNCHANGED lockVars
    BY <1>4 DEF StartUnderLock
  <2>2. /\ task[t] \in TaskRecord /\ j \in Created /\ w \in Workers /\ j \in JobIds
        /\ jobs[j].attempts \in Nat
    <3>1. task[t] \in TaskRecord /\ j \in Created
      BY <2>1, TaskIsRecord DEF RuntimeIInv, TasksKnown
    <3>2. jobs[j] \in JobRecord
      BY <1>1, <3>1, CreatedIsRecord DEF Created
    <3>3. QED
      BY <3>1, <3>2 DEF TaskRecord, JobRecord
  <2>3. CASE task' = [task EXCEPT ![t].pc = "releasing"] /\ UNCHANGED vars
    <3>1. TypeOK' /\ CallsKnown' /\ JobsGrow
      <4>1. \A i \in Created : jobs[i].attempts \in Nat
        BY <1>1, CreatedIsRecord DEF Created, JobRecord
      <4>2. QED
        BY <1>1, <2>3, <4>1 DEF vars, TypeOK, SchedulerTypeOK, CallsKnown, Created, JobsGrow
    <3>2. /\ [task[t] EXCEPT !.pc = "releasing"] \in TaskRecord
          /\ task' = [task EXCEPT ![t] = [task[t] EXCEPT !.pc = "releasing"]]
      BY <2>2, <2>3 DEF TaskRecord
    <3>3. Proceeds(t)
      BY <1>1, <2>1, <3>2 DEF Proceeds
    <3>4. QED
      BY <1>2, <2>1, <3>1, <3>2, <3>3
  <2>4. CASE /\ RunJob(w, j) /\ jobs[j].key \notin Handles[w]
             /\ task' = [task EXCEPT ![t].pc = "releasing"]
    <3>1. TypeOK' /\ CallsKnown' /\ JobsGrow
      BY <1>1, <2>2, <2>4, RunJobKeeps
    <3>2. /\ [task[t] EXCEPT !.pc = "releasing"] \in TaskRecord
          /\ task' = [task EXCEPT ![t] = [task[t] EXCEPT !.pc = "releasing"]]
      BY <2>2, <2>4 DEF TaskRecord
    <3>3. Proceeds(t)
      BY <1>1, <2>1, <3>2 DEF Proceeds
    <3>4. QED
      BY <1>2, <2>1, <3>1, <3>2, <3>3
  <2>5. CASE /\ RunJob(w, j) /\ jobs[j].key \in Handles[w]
             /\ task' = [task EXCEPT ![t].pc = "running", ![t].attempt = jobs[j].attempts + 1]
    <3>1. TypeOK' /\ CallsKnown' /\ JobsGrow /\ jobs'[j].attempts = jobs[j].attempts + 1
      BY <1>1, <2>2, <2>5, RunJobKeeps
    <3> DEFINE r == [task[t] EXCEPT !.pc = "running", !.attempt = jobs[j].attempts + 1]
    <3>2. r \in TaskRecord /\ task' = [task EXCEPT ![t] = r]
      <4>1. r \in TaskRecord
        <5>1. PICK a \in Nat : a = jobs[j].attempts + 1
          BY <2>2
        <5>2. [task[t] EXCEPT !.pc = "running", !.attempt = a] \in TaskRecord
          BY <2>2 DEF TaskRecord
        <5>3. QED
          BY <5>1, <5>2
      <4>2. task' = [task EXCEPT ![t] = r]
        BY <2>5
      <4>3. QED
        BY <4>1, <4>2
    <3>3. Proceeds(t)
      BY <1>1, <2>1, <3>1, <3>2 DEF Proceeds
    <3>4. QED
      BY <1>2, <2>1, <3>1, <3>2, <3>3
  <2>6. QED
    BY <1>4, <2>3, <2>4, <2>5 DEF StartUnderLock
<1>5. CASE FinishTask(t)
  <2>1. /\ HoldsLock(t) /\ task' = [task EXCEPT ![t] = Idle] /\ UNCHANGED vars
        /\ ReleaseLock(task[t].lock, task[t].by)
    BY <1>5 DEF FinishTask, HoldsLock
  <2>2. /\ UNCHANGED <<nextLockId, outlived>>
        /\ locks' = [k \in LockKeys |->
                 IF locks[k] # Unlocked /\ locks[k].id = task[t].lock /\ locks[k].by = task[t].by
                 THEN Unlocked ELSE locks[k]]
    BY <2>1 DEF ReleaseLock
  <2>3. locks' \in [LockKeys -> LockRecord \cup {Unlocked}]
    BY <2>2 DEF RuntimeIInv, RuntimeTypeOK, LockTypeOK
  <2>4. \A m \in LockKeys :
           \/ locks'[m] = locks[m]
           \/ locks'[m] = Unlocked /\ locks[m].id = task[t].lock
    BY <2>2
  <2>5. \A m \in LockKeys : locks'[m] = locks[m] =>
           \/ locks[m] = Unlocked \/ ~HoldsLock(t)
           \/ locks[m].id # task[t].lock \/ locks[m].by # task[t].by
    BY <2>2
  <2>6. QED
    BY <1>1, <2>1, <2>2, <2>3, <2>4, <2>5, LocksGo
<1>6. QED
  BY <1>3, <1>4, <1>5 DEF TaskStep

\* Every step of the runtime keeps the invariant.
LEMMA RuntimeStep ==
  ASSUME RuntimeIInv, [RuntimeNext]_allVars
  PROVE  RuntimeIInv'
<1>1. TypeOK /\ CallsKnown /\ task \in [Tasks -> TaskRecord \cup {Idle}]
  BY DEF RuntimeIInv, RuntimeTypeOK
<1>2. ASSUME JobsGrow, TypeOK', CallsKnown', UNCHANGED <<lockVars, task>>
      PROVE  RuntimeIInv'
  <2>1. \A t : Proceeds(t)
    BY <1>2 DEF Proceeds
  <2>2. QED
    BY <1>1, <1>2, <2>1, JobsMove DEF lockVars
<1>3. CASE TableStep /\ UNCHANGED <<lockVars, task>>
  BY <1>1, <1>2, <1>3, TableStepTyping, CallsKnownStep, TableGrows
<1>4. ASSUME NEW w \in Workers, Poll(w), UNCHANGED <<lockVars, task>>
      PROVE  RuntimeIInv'
  <2>1. RunnerStep
    BY <1>4 DEF RunnerStep
  <2>2. QED
    BY <1>1, <1>2, <1>4, <2>1, RunnerStepTyping, CallsKnownStep, PollGrows
<1>5. ASSUME NEW c \in calls, Settle(c), UNCHANGED <<lockVars, task>>
      PROVE  RuntimeIInv'
  <2>1. RunnerStep
    BY <1>5 DEF RunnerStep
  <2>2. QED
    BY <1>1, <1>2, <1>5, <2>1, RunnerStepTyping, CallsKnownStep, SettleGrows
<1>6. ASSUME NEW k \in LockKeys, LockExpires(k), UNCHANGED <<vars, task>>
      PROVE  RuntimeIInv'
  BY <1>6, ExpiryStep
<1>7. CASE UNCHANGED allVars
  <2>1. TypeOK' /\ CallsKnown' /\ JobsGrow
    <3>1. \A i \in Created : jobs[i].attempts \in Nat
      BY <1>1, CreatedIsRecord DEF Created, JobRecord
    <3>2. QED
      BY <1>1, <1>7, <3>1 DEF allVars, vars, TypeOK, SchedulerTypeOK, CallsKnown, Created, JobsGrow
  <2>2. QED
    BY <1>2, <1>7, <2>1 DEF allVars
<1>8. QED
  BY <1>3, <1>4, <1>5, <1>6, <1>7, RequestStep, TaskMoves DEF RuntimeNext

\* The invariant holds from the start, and for ever.
LEMMA RuntimeInvariance ==
  RuntimeSpec => []RuntimeIInv
<1>1. RuntimeInit => RuntimeIInv
  <2> SUFFICES ASSUME RuntimeInit
               PROVE  RuntimeIInv
    OBVIOUS
  <2>1. TypeOK /\ CallsKnown
    BY IInvInit DEF RuntimeInit, IInv
  <2>2. /\ \A t \in Tasks : task[t].pc = "idle"
        /\ \A k \in LockKeys : locks[k] = Unlocked
        /\ outlived = {}
    BY DEF RuntimeInit, LockInit, Idle
  <2>3. RuntimeTypeOK
    BY <2>1 DEF RuntimeInit, LockInit, RuntimeTypeOK, LockTypeOK
  <2>4. QED
    BY <2>1, <2>2, <2>3 DEF RuntimeIInv, TasksKnown, LockIdsOK, HoldsLock, LocksKept, Works,
       LocksHaveTasks
<1>2. RuntimeIInv /\ [RuntimeNext]_allVars => RuntimeIInv'
  BY RuntimeStep
<1>3. QED
  BY <1>1, <1>2, PTL DEF RuntimeSpec

-----------------------------------------------------------------------------
(* The lease.                                                              *)

\* What the lease sees of one task.
Unseen(u) ==
  \A k \in LockKeys : /\ Served(u, k)' <=> Served(u, k)
                      /\ Owns(u, k)' <=> Owns(u, k)
                      /\ TurnedAway(u, k)' <=> TurnedAway(u, k)

Gone(u) == \A k \in LockKeys : ~Served(u, k)' /\ ~Owns(u, k)' /\ ~TurnedAway(u, k)'

\* Who is done or stays where it was granted its lock shows nothing, if jobs keep
\* their keys and the lock on record under its key stays, or was and is not its own.
LEMMA PlaceKept ==
  ASSUME RuntimeIInv, JobsGrow, NEW u \in Tasks,
         \/ task'[u] = task[u]
         \/ /\ task[u].pc = "granted" /\ task'[u].pc \in {"running", "releasing"}
            /\ task'[u].job = task[u].job /\ task'[u].lock = task[u].lock,
         HoldsLock(u) => \A k \in LockKeys :
           \/ locks'[k] = locks[k]
           \/ /\ locks[k] = Unlocked \/ locks[k].id # task[u].lock \/ locks[k].expired
              /\ locks'[k] = Unlocked \/ locks'[k].id # task[u].lock \/ locks'[k].expired
  PROVE  Unseen(u)
<1>1. task[u].pc # "idle" => LockKeyOf[jobs'[task'[u].job].key] = LockOf(task[u].job)
  BY DEF RuntimeIInv, TasksKnown, JobsGrow, LockOf
<1>2. \A k \in LockKeys : Served(u, k)' <=> Served(u, k)
  BY <1>1 DEF Served, LockOf
<1>3. \A k \in LockKeys : TurnedAway(u, k)' <=> TurnedAway(u, k)
  BY <1>1 DEF TurnedAway, LockOf
<1>4. \A k \in LockKeys : Owns(u, k)' <=> Owns(u, k)
  <2>1. ASSUME NEW k \in LockKeys, Served(u, k)
        PROVE  Owns(u, k)' <=> Owns(u, k)
    <3>1. HoldsLock(u) /\ task'[u].lock = task[u].lock
      BY <2>1 DEF Served, HoldsLock
    <3>2. QED
      BY <1>2, <2>1, <3>1 DEF Owns
  <2>2. QED
    BY <1>2, <2>1 DEF Owns
<1>5. QED
  BY <1>2, <1>3, <1>4 DEF Unseen

\* An idle task shows nothing.
LEMMA IdleIsGone ==
  ASSUME NEW u \in Tasks, task'[u] = Idle
  PROVE  Gone(u)
BY DEF Gone, Served, Owns, TurnedAway, Idle

\* A step the lease does not see.
LEMMA LeaseStutters ==
  ASSUME \A u \in Tasks : Unseen(u)
  PROVE  UNCHANGED Lease!leaseVars
<1>1. /\ \A k \in LockKeys : {u \in Tasks : Served(u, k)'} = {u \in Tasks : Served(u, k)}
      /\ \A k \in LockKeys : {u \in Tasks : Owns(u, k)'} = {u \in Tasks : Owns(u, k)}
      /\ \A k \in LockKeys : {u \in Tasks : TurnedAway(u, k)'} = {u \in Tasks : TurnedAway(u, k)}
  BY DEF Unseen
<1>2. QED
  BY <1>1 DEF Lease!leaseVars

\* One task leaves, and the others stay.
LEMMA LeaseLeaves ==
  ASSUME NEW t \in Tasks, NEW r \in LockKeys, Served(t, r) \/ TurnedAway(t, r),
         Gone(t), \A u \in Tasks \ {t} : Unseen(u)
  PROVE  Lease!Leave(r, t)
<1>1. \A k \in LockKeys : Served(t, k) \/ Owns(t, k) \/ TurnedAway(t, k) => k = r
  BY DEF Served, Owns, TurnedAway
<1>2. \A k \in LockKeys :
        /\ {u \in Tasks : Served(u, k)'}
             = IF k = r THEN {u \in Tasks : Served(u, k)} \ {t} ELSE {u \in Tasks : Served(u, k)}
        /\ {u \in Tasks : Owns(u, k)'}
             = IF k = r THEN {u \in Tasks : Owns(u, k)} \ {t} ELSE {u \in Tasks : Owns(u, k)}
        /\ {u \in Tasks : TurnedAway(u, k)'}
             = IF k = r THEN {u \in Tasks : TurnedAway(u, k)} \ {t}
                        ELSE {u \in Tasks : TurnedAway(u, k)}
  BY <1>1 DEF Unseen, Gone
<1> DEFINE working == [k \in LockKeys |-> {u \in Tasks : Served(u, k)}]
           holding == [k \in LockKeys |-> {u \in Tasks : Owns(u, k)}]
           refused == [k \in LockKeys |-> {u \in Tasks : TurnedAway(u, k)}]
<1>3. working' = [working EXCEPT ![r] = working[r] \ {t}]
  BY <1>2
<1>4. holding' = [holding EXCEPT ![r] = holding[r] \ {t}]
  BY <1>2
<1>5. refused' = [refused EXCEPT ![r] = refused[r] \ {t}]
  BY <1>2
<1>6. t \in working[r] \cup refused[r]
  OBVIOUS
<1>7. QED
  BY <1>3, <1>4, <1>5, <1>6 DEF Lease!Leave

\* What the sweep does to the owners of locks: nothing.
LEMMA SweepUnseen ==
  ASSUME NEW k \in LockKeys
  PROVE  \/ Swept(k) = locks[k]
         \/ Swept(k) = Unlocked /\ locks[k].expired
BY DEF Swept

\* A call is granted a lock nobody owns.
LEMMA LeaseBegins ==
  ASSUME RuntimeIInv, NEW t \in Tasks, NEW w \in Workers, NEW j \in Created, task[t] = Idle,
         AcquireLock(LockOf(j), w), UNCHANGED vars,
         task' = [task EXCEPT ![t] = [pc |-> "granted", by |-> w, job |-> j,
                                      lock |-> nextLockId, attempt |-> 0]]
  PROVE  Lease!Begin(LockOf(j), t)
<1> DEFINE r == LockOf(j)
<1>1. r \in LockKeys
  BY LockOfType DEF RuntimeIInv, RuntimeTypeOK
<1>2. /\ Swept(r) = Unlocked
      /\ locks'[r] = [id |-> nextLockId, by |-> w, expired |-> FALSE]
      /\ \A m \in LockKeys \ {r} : locks'[m] = Swept(m)
      /\ nextLockId \in Nat
  BY <1>1 DEF AcquireLock, RuntimeIInv, RuntimeTypeOK, LockTypeOK
<1>3. /\ task'[t] = [pc |-> "granted", by |-> w, job |-> j, lock |-> nextLockId, attempt |-> 0]
      /\ \A u \in Tasks \ {t} : task'[u] = task[u]
      /\ jobs' = jobs /\ JobsGrow
  <2>1. TypeOK /\ task \in [Tasks -> TaskRecord \cup {Idle}]
    BY DEF RuntimeIInv, RuntimeTypeOK
  <2>2. \A i \in Created : jobs[i].attempts \in Nat
    BY <2>1, CreatedIsRecord DEF Created, JobRecord
  <2>3. QED
    BY <2>1, <2>2 DEF JobsGrow, Created, vars
<1>4. locks[r] = Unlocked \/ locks[r].expired
  BY <1>2 DEF Swept
<1>5. \A u \in Tasks \ {t} : Unseen(u)
  <2>1. SUFFICES ASSUME NEW u \in Tasks \ {t}, HoldsLock(u), NEW k \in LockKeys
                 PROVE  \/ locks'[k] = locks[k]
                        \/ /\ locks[k] = Unlocked \/ locks[k].id # task[u].lock \/ locks[k].expired
                           /\ locks'[k] = Unlocked \/ locks'[k].id # task[u].lock \/ locks'[k].expired
    BY <1>3, PlaceKept
  <2>2. task[u].lock # nextLockId
    BY <1>2, <2>1, TaskIsRecord DEF RuntimeIInv, LockIdsOK, HoldsLock, TaskRecord
  <2>3. QED
    BY <1>2, <1>4, <2>1, <2>2, SweepUnseen
<1>6. \A k \in LockKeys : /\ Served(t, k)' <=> k = r
                          /\ Owns(t, k)' <=> k = r
                          /\ ~TurnedAway(t, k)'
  <2>1. \A k \in LockKeys : (Served(t, k)' <=> k = r) /\ ~TurnedAway(t, k)'
    BY <1>3 DEF Served, TurnedAway, LockOf
  <2>2. locks'[r] # Unlocked
    BY <1>2 DEF Unlocked
  <2>3. QED
    BY <1>2, <1>3, <2>1, <2>2 DEF Owns
<1>7. \A k \in LockKeys : ~Served(t, k) /\ ~Owns(t, k) /\ ~TurnedAway(t, k)
  BY DEF Served, Owns, TurnedAway, Idle
<1>8. \A u \in Tasks : ~Owns(u, r)
  BY <1>4 DEF Owns
<1>9. \A k \in LockKeys :
        /\ {u \in Tasks : Served(u, k)'}
             = IF k = r THEN {u \in Tasks : Served(u, k)} \cup {t}
                        ELSE {u \in Tasks : Served(u, k)}
        /\ {u \in Tasks : Owns(u, k)'} = IF k = r THEN {t} ELSE {u \in Tasks : Owns(u, k)}
        /\ {u \in Tasks : TurnedAway(u, k)'} = {u \in Tasks : TurnedAway(u, k)}
  BY <1>5, <1>6, <1>7, <1>8 DEF Unseen
<1>10. /\ {u \in Tasks : Owns(u, r)} = {}
       /\ t \notin {u \in Tasks : Served(u, r)}
  BY <1>1, <1>7, <1>8
<1> HIDE DEF r
<1> DEFINE working == [k \in LockKeys |-> {u \in Tasks : Served(u, k)}]
           holding == [k \in LockKeys |-> {u \in Tasks : Owns(u, k)}]
           refused == [k \in LockKeys |-> {u \in Tasks : TurnedAway(u, k)}]
<1>11. working' = [working EXCEPT ![r] = working[r] \cup {t}]
  BY <1>1, <1>9
<1>12. holding' = [holding EXCEPT ![r] = {t}]
  BY <1>1, <1>9
<1>13. refused' = refused
  BY <1>9
<1>14. holding[r] = {} /\ t \notin working[r]
  BY <1>1, <1>10
<1>15. Lease!Begin(r, t)
  BY <1>11, <1>12, <1>13, <1>14 DEF Lease!Begin
<1>16. QED
  BY <1>15 DEF r

\* A call is refused a lock another owns: its record was not swept, so it has a task.
LEMMA LeaseRefuses ==
  ASSUME RuntimeIInv, NEW t \in Tasks, NEW w \in Workers, NEW j \in Created, task[t] = Idle,
         LockHeld(LockOf(j)), UNCHANGED vars,
         task' = [task EXCEPT ![t] = [pc |-> "denied", by |-> w, job |-> j,
                                      lock |-> 0, attempt |-> 0]]
  PROVE  Lease!Refuse(LockOf(j), t)
<1> DEFINE r == LockOf(j)
<1>1. r \in LockKeys
  BY LockOfType DEF RuntimeIInv, RuntimeTypeOK
<1>2. Swept(r) # Unlocked /\ \A m \in LockKeys : locks'[m] = Swept(m)
  BY <1>1 DEF LockHeld
<1>3. /\ task'[t] = [pc |-> "denied", by |-> w, job |-> j, lock |-> 0, attempt |-> 0]
      /\ \A u \in Tasks \ {t} : task'[u] = task[u]
      /\ jobs' = jobs /\ JobsGrow
  <2>1. TypeOK /\ task \in [Tasks -> TaskRecord \cup {Idle}]
    BY DEF RuntimeIInv, RuntimeTypeOK
  <2>2. \A i \in Created : jobs[i].attempts \in Nat
    BY <2>1, CreatedIsRecord DEF Created, JobRecord
  <2>3. QED
    BY <2>1, <2>2 DEF JobsGrow, Created, vars
<1>4. \A u \in Tasks \ {t} : Unseen(u)
  BY <1>2, <1>3, SweepUnseen, PlaceKept
<1>5. \A k \in LockKeys : (TurnedAway(t, k)' <=> k = r) /\ ~Served(t, k)' /\ ~Owns(t, k)'
  BY <1>3 DEF Served, Owns, TurnedAway, LockOf
<1>6. \A k \in LockKeys : ~Served(t, k) /\ ~Owns(t, k) /\ ~TurnedAway(t, k)
  BY DEF Served, Owns, TurnedAway, Idle
<1>7. PICK v \in Tasks : Owns(v, r)
  <2>1. locks[r] # Unlocked /\ ~locks[r].expired
    BY <1>2 DEF Swept
  <2>2. QED
    BY <1>1, <2>1 DEF RuntimeIInv, LocksHaveTasks, Owns, Served
<1>8. \A k \in LockKeys :
        /\ {u \in Tasks : Served(u, k)'} = {u \in Tasks : Served(u, k)}
        /\ {u \in Tasks : Owns(u, k)'} = {u \in Tasks : Owns(u, k)}
        /\ {u \in Tasks : TurnedAway(u, k)'}
             = IF k = r THEN {u \in Tasks : TurnedAway(u, k)} \cup {t}
                        ELSE {u \in Tasks : TurnedAway(u, k)}
  BY <1>4, <1>5, <1>6 DEF Unseen
<1>9. {u \in Tasks : Owns(u, r)} # {}
  BY <1>7
<1> HIDE DEF r
<1> DEFINE working == [k \in LockKeys |-> {u \in Tasks : Served(u, k)}]
           holding == [k \in LockKeys |-> {u \in Tasks : Owns(u, k)}]
           refused == [k \in LockKeys |-> {u \in Tasks : TurnedAway(u, k)}]
<1>10. working' = working /\ holding' = holding
  BY <1>8
<1>11. refused' = [refused EXCEPT ![r] = refused[r] \cup {t}]
  BY <1>1, <1>8
<1>12. holding[r] # {}
  BY <1>1, <1>9
<1>13. Lease!Refuse(r, t)
  BY <1>10, <1>11, <1>12 DEF Lease!Refuse
<1>14. QED
  BY <1>13 DEF r

\* The TTL of a lock that some task owns passes.
LEMMA LeaseExpires ==
  ASSUME RuntimeIInv, NEW r \in LockKeys, LockExpires(r), UNCHANGED <<vars, task>>
  PROVE  Lease!Expire(r)
<1>1. /\ locks[r] # Unlocked /\ ~locks[r].expired /\ locks[r] \in LockRecord
      /\ locks'[r] = [locks[r] EXCEPT !.expired = TRUE]
      /\ \A m \in LockKeys \ {r} : locks'[m] = locks[m]
  BY DEF LockExpires, RuntimeIInv, RuntimeTypeOK, LockTypeOK
<1>2. locks'[r].expired
  BY <1>1 DEF LockRecord
<1>3. jobs' = jobs /\ task' = task
  BY DEF vars
<1>4. \A u \in Tasks, k \in LockKeys :
        /\ Served(u, k)' <=> Served(u, k)
        /\ TurnedAway(u, k)' <=> TurnedAway(u, k)
        /\ Owns(u, k)' <=> k # r /\ Owns(u, k)
  BY <1>1, <1>2, <1>3 DEF Served, TurnedAway, Owns, LockOf
<1>5. PICK v \in Tasks : Owns(v, r)
  BY <1>1 DEF RuntimeIInv, LocksHaveTasks, Owns, Served
<1>6. \A k \in LockKeys :
        /\ {u \in Tasks : Served(u, k)'} = {u \in Tasks : Served(u, k)}
        /\ {u \in Tasks : Owns(u, k)'} = IF k = r THEN {} ELSE {u \in Tasks : Owns(u, k)}
        /\ {u \in Tasks : TurnedAway(u, k)'} = {u \in Tasks : TurnedAway(u, k)}
  BY <1>4
<1>7. {u \in Tasks : Owns(u, r)} # {}
  BY <1>5
<1> DEFINE working == [k \in LockKeys |-> {u \in Tasks : Served(u, k)}]
           holding == [k \in LockKeys |-> {u \in Tasks : Owns(u, k)}]
           refused == [k \in LockKeys |-> {u \in Tasks : TurnedAway(u, k)}]
<1>8. working' = working /\ refused' = refused
  BY <1>6
<1>9. holding' = [holding EXCEPT ![r] = {}]
  BY <1>6
<1>10. holding[r] # {}
  BY <1>7
<1>11. QED
  BY <1>8, <1>9, <1>10 DEF Lease!Expire

\* A task takes its next step: it starts its job unseen, or leaves.
LEMMA LeaseTask ==
  ASSUME RuntimeIInv, NEW t \in Tasks, TaskStep(t)
  PROVE  UNCHANGED Lease!leaseVars \/ \E r \in LockKeys : Lease!Leave(r, t)
<1>1. /\ TypeOK /\ CallsKnown
      /\ task \in [Tasks -> TaskRecord \cup {Idle}]
  BY DEF RuntimeIInv, RuntimeTypeOK
<1>2. ASSUME task[t].pc # "idle"
      PROVE  /\ task[t] \in TaskRecord /\ task[t].job \in Created
             /\ LockOf(task[t].job) \in LockKeys /\ task[t].by \in Workers
             /\ task[t].job \in JobIds
  BY <1>1, <1>2, TaskIsRecord, LockOfType DEF RuntimeIInv, TasksKnown, TaskRecord
<1>3. UNCHANGED vars => JobsGrow
  <2>1. \A i \in Created : jobs[i].attempts \in Nat
    BY <1>1, CreatedIsRecord DEF Created, JobRecord
  <2>2. QED
    BY <2>1 DEF JobsGrow, Created, vars
<1>4. CASE FailsForWantOfLock(t)
  <2>1. task[t].pc = "denied" /\ task' = [task EXCEPT ![t] = Idle] /\ UNCHANGED lockVars
    BY <1>4 DEF FailsForWantOfLock
  <2>2. JobsGrow
    BY <1>1, <1>2, <1>4, <2>1, FailureKeeps DEF FailsForWantOfLock, Errors
  <2>3. Gone(t)
    BY <1>1, <2>1, IdleIsGone
  <2>4. \A u \in Tasks \ {t} : task'[u] = task[u] /\ locks' = locks
    BY <1>1, <2>1 DEF lockVars
  <2>5. \A u \in Tasks \ {t} : Unseen(u)
    BY <2>2, <2>4, PlaceKept
  <2>6. TurnedAway(t, LockOf(task[t].job))
    BY <2>1 DEF TurnedAway
  <2>7. QED
    BY <1>2, <2>1, <2>3, <2>5, <2>6, LeaseLeaves
<1>5. CASE StartUnderLock(t)
  <2>1. task[t].pc = "granted" /\ locks' = locks
    BY <1>5 DEF StartUnderLock, lockVars
  <2>2. JobsGrow
    <3>1. RunJob(task[t].by, task[t].job) \/ UNCHANGED vars
      BY <1>5 DEF StartUnderLock
    <3>2. QED
      BY <1>1, <1>2, <1>3, <2>1, <3>1, RunJobKeeps
  <2>3. /\ \A u \in Tasks \ {t} : task'[u] = task[u]
        /\ task'[t].pc \in {"running", "releasing"}
        /\ task'[t].job = task[t].job /\ task'[t].lock = task[t].lock
    <3>1. /\ task[t] \in TaskRecord
          /\ \/ task' = [task EXCEPT ![t].pc = "running", ![t].attempt = jobs[task[t].job].attempts + 1]
             \/ task' = [task EXCEPT ![t].pc = "releasing"]
      BY <1>2, <1>5, <2>1 DEF StartUnderLock
    <3>2. QED
      BY <1>1, <3>1 DEF TaskRecord
  <2>4. \A u \in Tasks : Unseen(u)
    BY <2>1, <2>2, <2>3, PlaceKept
  <2>5. QED
    BY <2>4, LeaseStutters
<1>6. CASE FinishTask(t)
  <2>1. /\ HoldsLock(t) /\ task' = [task EXCEPT ![t] = Idle] /\ UNCHANGED vars
        /\ ReleaseLock(task[t].lock, task[t].by)
    BY <1>6 DEF FinishTask, HoldsLock
  <2>2. Gone(t)
    BY <1>1, <2>1, IdleIsGone
  <2>3. \A k \in LockKeys : \/ locks'[k] = locks[k]
                            \/ locks'[k] = Unlocked /\ locks[k].id = task[t].lock
    BY <2>1 DEF ReleaseLock
  <2>4. \A u \in Tasks \ {t} : Unseen(u)
    <3>1. SUFFICES ASSUME NEW u \in Tasks \ {t}, HoldsLock(u)
                   PROVE  task[u].lock # task[t].lock
      BY <1>1, <1>3, <2>1, <2>3, PlaceKept
    <3>2. QED
      BY <2>1, <3>1 DEF RuntimeIInv, LockIdsOK
  <2>5. Served(t, LockOf(task[t].job))
    BY <2>1 DEF Served, HoldsLock
  <2>6. QED
    BY <1>2, <2>1, <2>2, <2>4, <2>5, LeaseLeaves DEF HoldsLock
<1>7. QED
  BY <1>4, <1>5, <1>6 DEF TaskStep

\* Every step of the runtime is a step of the lease, or one it does not see.
LEMMA LeaseStep ==
  RuntimeIInv /\ [RuntimeNext]_allVars => [Lease!Next]_(Lease!leaseVars)
<1> SUFFICES ASSUME RuntimeIInv, [RuntimeNext]_allVars
             PROVE  Lease!Next \/ UNCHANGED Lease!leaseVars
  OBVIOUS
<1>1. TypeOK /\ CallsKnown
  BY DEF RuntimeIInv, RuntimeTypeOK
<1>2. ASSUME JobsGrow, UNCHANGED <<lockVars, task>>
      PROVE  UNCHANGED Lease!leaseVars
  <2>1. \A u \in Tasks : task'[u] = task[u] /\ locks' = locks
    BY <1>2 DEF lockVars
  <2>2. QED
    BY <1>2, <2>1, PlaceKept, LeaseStutters
<1>3. CASE TableStep /\ UNCHANGED <<lockVars, task>>
  BY <1>1, <1>2, <1>3, TableGrows
<1>4. ASSUME NEW w \in Workers, Poll(w), UNCHANGED <<lockVars, task>>
      PROVE  UNCHANGED Lease!leaseVars
  BY <1>1, <1>2, <1>4, PollGrows
<1>5. ASSUME NEW c \in calls, Settle(c), UNCHANGED <<lockVars, task>>
      PROVE  UNCHANGED Lease!leaseVars
  BY <1>1, <1>2, <1>5, SettleGrows
<1>6. ASSUME NEW t \in Tasks, NEW w \in Workers, NEW j \in JobIds, RequestLock(t, w, j)
      PROVE  Lease!Next
  <2>1. task[t] = Idle /\ j \in Created /\ UNCHANGED vars /\ LockOf(j) \in LockKeys
    BY <1>1, <1>6, LockOfType DEF RequestLock
  <2>2. Lease!Begin(LockOf(j), t) \/ Lease!Refuse(LockOf(j), t)
    BY <1>6, <2>1, LeaseBegins, LeaseRefuses DEF RequestLock
  <2>3. QED
    BY <2>1, <2>2 DEF Lease!Next
<1>7. ASSUME NEW t \in Tasks, TaskStep(t)
      PROVE  Lease!Next \/ UNCHANGED Lease!leaseVars
  BY <1>7, LeaseTask DEF Lease!Next
<1>8. ASSUME NEW k \in LockKeys, LockExpires(k), UNCHANGED <<vars, task>>
      PROVE  Lease!Next
  BY <1>8, LeaseExpires DEF Lease!Next
<1>9. CASE UNCHANGED allVars
  <2>1. \A u \in Tasks : Unseen(u)
    BY <1>9 DEF Unseen, Served, Owns, TurnedAway, LockOf, allVars, vars, lockVars
  <2>2. QED
    BY <2>1, LeaseStutters
<1>10. QED
  BY <1>3, <1>4, <1>5, <1>6, <1>7, <1>8, <1>9 DEF RuntimeNext

-----------------------------------------------------------------------------
(* What the runner promises under every caller of runJob.                  *)

JobsAccounted == \A j \in Created : Accounted(jobs[j], lapses[j], CallsOf(j))

\* markFailed and markSucceeded keep a job accounted for whatever its status, and
\* whether an invocation ends with it or not.
LEMMA EndingAccounts ==
  ASSUME NEW job \in JobRecord, NEW lost \in Nat, NEW e \in Errors,
         NEW inFlight \in SUBSET Call, Accounted(job, lost, inFlight),
         NEW S \in SUBSET inFlight
  PROVE  Accounted(Failed(job, e), lost, S) /\ Accounted(Succeeded(job), lost, S)
<1>1. /\ job.attempts \in Nat /\ MaxAttempts[job.key] \in Nat
      /\ \A c \in inFlight : c.attempt \in Nat
  BY SchedulerAssumption DEF JobRecord, Call
<1>2. Accounted(Failed(job, e), lost, S)
  <2>1. /\ Failed(job, e).key = job.key
        /\ Failed(job, e).attempts = job.attempts
        /\ Failed(job, e).status = IF HasAttemptLeft(job) THEN "RETRY_SCHEDULED" ELSE "FAILED"
    BY DEF Failed, JobRecord
  <2>2. QED
    BY <1>1, <2>1 DEF Accounted, HasAttemptLeft
<1>3. Accounted(Succeeded(job), lost, S)
  <2>1. /\ Succeeded(job).key = job.key
        /\ Succeeded(job).attempts = job.attempts
        /\ Succeeded(job).status = "SUCCEEDED"
    BY DEF Succeeded, JobRecord
  <2>2. QED
    BY <1>1, <2>1 DEF Accounted
<1>4. QED
  BY <1>2, <1>3

\* expireStaleJobs: the lost lease pays for the attempt the job gets back.
LEMMA RecoveryAccounts ==
  ASSUME NEW job \in JobRecord, NEW lost \in Nat, NEW inFlight,
         Accounted(job, lost, inFlight)
  PROVE  Accounted(Recovered(job), IF Stale(job) THEN lost + 1 ELSE lost, inFlight)
<1>1. CASE ~Stale(job)
  BY <1>1 DEF Recovered
<1>2. CASE Stale(job)
  <2>1. /\ Recovered(job).key = job.key
        /\ Recovered(job).attempts = job.attempts
        /\ Recovered(job).status = "QUEUED"
    BY <1>2 DEF Recovered, JobRecord
  <2>2. job.attempts \in Nat /\ MaxAttempts[job.key] \in Nat
    BY SchedulerAssumption DEF JobRecord
  <2>3. QED
    BY <1>2, <2>1, <2>2 DEF Accounted
<1>3. QED
  BY <1>1, <1>2

\* markRunning, once its guard holds: the job is run by the new invocation.
LEMMA StartAccounts ==
  ASSUME NEW job \in JobRecord, NEW lost \in Nat, NEW w \in Workers, NEW j \in JobIds,
         NEW inFlight \in SUBSET Call, Accounted(job, lost, inFlight), CanStart(job)
  PROVE  Accounted(Started(job, w), lost, inFlight \cup {NewCall(j, job, w)})
<1>1. /\ job.attempts \in Nat /\ MaxAttempts[job.key] \in Nat
      /\ \A c \in inFlight : c.attempt \in Nat
  BY SchedulerAssumption DEF JobRecord, Call
<1>2. /\ Started(job, w).key = job.key
      /\ Started(job, w).status = "RUNNING"
      /\ Started(job, w).lockedBy = w
      /\ Started(job, w).lease = "held"
      /\ Started(job, w).attempts = job.attempts + 1
  BY DEF Started, JobRecord
<1>3. NewCall(j, job, w).by = w /\ NewCall(j, job, w).attempt = job.attempts + 1
  BY DEF NewCall
<1>4. job.status = "QUEUED" \/ job.status = "RETRY_SCHEDULED"
  BY DEF CanStart, Runnable
<1>5. QED
  BY <1>1, <1>2, <1>3, <1>4 DEF Accounted

\* A job is accounted for in the next state, said of its next record and calls.
LEMMA AccountedPrimed ==
  ASSUME NEW j, NEW job, NEW lost, NEW inFlight,
         jobs'[j] = job, lapses'[j] = lost, CallsOf(j)' = inFlight,
         Accounted(job, lost, inFlight)
  PROVE  Accounted(jobs[j], lapses[j], CallsOf(j))'
BY DEF Accounted

\* A job that is created has a record, a count of leases lost and typed invocations.
LEMMA CreatedTypes ==
  ASSUME TypeOK, NEW j \in Created
  PROVE  /\ j \in JobIds /\ jobs[j] \in JobRecord /\ lapses[j] \in Nat
         /\ CallsOf(j) \in SUBSET Call
<1>1. j \in JobIds /\ jobs[j] \in JobRecord
  BY CreatedIsRecord DEF Created
<1>2. QED
  BY <1>1 DEF TypeOK, SchedulerTypeOK, CallsOf

\* One record is replaced, and only its own invocations change.
LEMMA ReplacementAccounts ==
  ASSUME TypeOK, JobsAccounted, NEW i \in Created, NEW job,
         jobs' = [jobs EXCEPT ![i] = job], lapses' = lapses,
         \A j \in Created : j # i => CallsOf(j)' = CallsOf(j),
         Accounted(job, lapses[i], CallsOf(i)')
  PROVE  JobsAccounted'
<1> SUFFICES ASSUME NEW j \in JobIds, jobs'[j] # Absent
             PROVE  Accounted(jobs[j], lapses[j], CallsOf(j))'
  BY DEF JobsAccounted, Created
<1>1. jobs'[j] = IF j = i THEN job ELSE jobs[j]
  BY DEF TypeOK, SchedulerTypeOK
<1>2. CASE j = i
  BY <1>1, <1>2, AccountedPrimed
<1>3. CASE j # i
  <2>1. j \in Created
    BY <1>1, <1>3 DEF Created
  <2>2. QED
    BY <1>1, <1>3, <2>1, AccountedPrimed DEF JobsAccounted
<1>4. QED
  BY <1>2, <1>3

\* Clients, operators and the clock.
LEMMA TableAccounts ==
  ASSUME TypeOK, CallsKnown, JobsAccounted, TableStep
  PROVE  JobsAccounted'
<1>1. \A j : CallsOf(j)' = CallsOf(j)
  BY DEF TableStep, CallsOf
<1>2. ASSUME NEW k \in Keys, NEW d \in BOOLEAN, NEW i \in {k} \cup CustomKeys, Enqueue(k, i, d)
      PROVE  JobsAccounted'
  <2> SUFFICES ASSUME NEW j \in JobIds, jobs'[j] # Absent
               PROVE  Accounted(jobs[j], lapses[j], CallsOf(j))'
    BY DEF JobsAccounted, Created
  <2>1. CASE j \in Created
    <3>1. jobs'[j] = jobs[j] /\ lapses'[j] = lapses[j]
      BY <1>2, <2>1 DEF Enqueue, Created, TypeOK, SchedulerTypeOK
    <3>2. QED
      BY <1>1, <2>1, <3>1, AccountedPrimed DEF JobsAccounted
  <2>2. CASE j \notin Created
    <3>1. jobs'[j] = NewJob(k, i, d) /\ lapses'[j] = lapses[j] /\ lapses[j] \in Nat
      BY <1>2, <2>2 DEF Enqueue, Created, TypeOK, SchedulerTypeOK
    <3>2. CallsOf(j) = {}
      BY <2>2 DEF CallsOf, CallsKnown
    <3>3. MaxAttempts[k] \in Nat \ {0}
      BY SchedulerAssumption
    <3>4. Accounted(NewJob(k, i, d), lapses[j], {})
      BY <3>1, <3>3 DEF Accounted, NewJob
    <3>5. QED
      BY <1>1, <3>1, <3>2, <3>4, AccountedPrimed
  <2>3. QED
    BY <2>1, <2>2
<1>3. ASSUME NEW i \in JobIds, Cancel(i) \/ LeaseLapses(i) \/ BecomesDue(i)
      PROVE  JobsAccounted'
  <2>1. i \in Created /\ lapses' = lapses
    BY <1>3 DEF Cancel, LeaseLapses, BecomesDue
  <2>2. PICK job : /\ jobs' = [jobs EXCEPT ![i] = job]
                   /\ job \in {[jobs[i] EXCEPT !.status = "CANCELLED"],
                              [jobs[i] EXCEPT !.lease = "lapsed"],
                              [jobs[i] EXCEPT !.due = TRUE]}
    BY <1>3 DEF Cancel, LeaseLapses, BecomesDue
  <2>3. /\ jobs[i] \in JobRecord /\ lapses[i] \in Nat /\ CallsOf(i) \in SUBSET Call
        /\ Accounted(jobs[i], lapses[i], CallsOf(i))
    BY <2>1, CreatedTypes DEF JobsAccounted
  <2>4. Accounted(job, lapses[i], CallsOf(i))
    <3>1. /\ Accounted([jobs[i] EXCEPT !.status = "CANCELLED"], lapses[i], CallsOf(i))
          /\ Accounted([jobs[i] EXCEPT !.lease = "lapsed"], lapses[i], CallsOf(i))
          /\ Accounted([jobs[i] EXCEPT !.due = TRUE], lapses[i], CallsOf(i))
      BY <2>3 DEF Accounted, JobRecord
    <3>2. QED
      BY <2>2, <3>1
  <2>5. QED
    BY <1>1, <2>1, <2>2, <2>4, ReplacementAccounts
<1>4. CASE ExpireStaleJobs
  <2> SUFFICES ASSUME NEW j \in JobIds, jobs'[j] # Absent
               PROVE  Accounted(jobs[j], lapses[j], CallsOf(j))'
    BY DEF JobsAccounted, Created
  <2>1. /\ jobs'[j] = Recovered(jobs[j])
        /\ lapses'[j] = IF Stale(jobs[j]) THEN lapses[j] + 1 ELSE lapses[j]
    BY <1>4 DEF ExpireStaleJobs, LapsesAfterExpiry
  <2>2. j \in Created
    BY <2>1 DEF Created, Recovered, Stale
  <2>3. Accounted(Recovered(jobs[j]), IF Stale(jobs[j]) THEN lapses[j] + 1 ELSE lapses[j],
                  CallsOf(j))
    BY <2>2, CreatedTypes, RecoveryAccounts DEF JobsAccounted
  <2>4. QED
    BY <1>1, <2>1, <2>3, AccountedPrimed
<1>5. QED
  BY <1>2, <1>3, <1>4 DEF TableStep

\* A poll: expiry, then the batch.
LEMMA PollAccounts ==
  ASSUME TypeOK, CallsKnown, JobsAccounted, NEW w \in Workers, Poll(w)
  PROVE  JobsAccounted'
<1> SUFFICES ASSUME NEW j \in JobIds, jobs'[j] # Absent
             PROVE  Accounted(jobs[j], lapses[j], CallsOf(j))'
  BY DEF JobsAccounted, Created
<1> DEFINE lost == IF Stale(jobs[j]) THEN lapses[j] + 1 ELSE lapses[j]
<1>1. j \in Created /\ Recovery[j] \in JobRecord
  BY PollOnOneJob, RecoveryType, CreatedIsRecord
<1>2. /\ lapses[j] \in Nat /\ lost \in Nat /\ CallsOf(j) \in SUBSET Call
      /\ jobs[j] \in JobRecord
  BY <1>1, CreatedTypes
<1>3. Accounted(Recovery[j], lost, CallsOf(j))
  BY <1>1, <1>2, RecoveryAccounts DEF JobsAccounted, Recovery
<1>4. lapses'[j] = lost
  BY PollOnOneJob
<1>5. CASE jobs'[j] = Recovery[j] /\ CallsOf(j)' = CallsOf(j)
  BY <1>3, <1>4, <1>5, AccountedPrimed
<1>6. CASE /\ jobs'[j] = Failed(Recovery[j], "NO_HANDLER")
           /\ CallsOf(j)' = CallsOf(j)
  <2>1. Accounted(Failed(Recovery[j], "NO_HANDLER"), lost, CallsOf(j))
    BY <1>1, <1>2, <1>3, EndingAccounts DEF Errors
  <2>2. QED
    BY <1>4, <1>6, <2>1, AccountedPrimed
<1>7. CASE /\ Recovery[j].status = "QUEUED"
           /\ jobs'[j] = Started(Recovery[j], w)
           /\ CallsOf(j)' = CallsOf(j) \cup {NewCall(j, Recovery[j], w)}
  <2>1. Accounted(Started(Recovery[j], w), lost, CallsOf(j) \cup {NewCall(j, Recovery[j], w)})
    BY <1>1, <1>2, <1>3, <1>7, StartAccounts DEF CanStart, Runnable
  <2>2. QED
    BY <1>4, <1>7, <2>1, AccountedPrimed
<1>8. QED
  BY <1>5, <1>6, <1>7, PollOnOneJob

\* A job is failed for want of a lock or a handler, whatever its status.
LEMMA FailureAccounts ==
  ASSUME TypeOK, JobsAccounted, NEW i \in Created, NEW e \in Errors,
         jobs' = [jobs EXCEPT ![i] = Failed(@, e)], UNCHANGED <<lapses, calls>>
  PROVE  JobsAccounted'
<1>1. Accounted(Failed(jobs[i], e), lapses[i], CallsOf(i))
  BY CreatedTypes, EndingAccounts DEF JobsAccounted
<1>2. \A j : CallsOf(j)' = CallsOf(j)
  BY DEF CallsOf
<1>3. jobs' = [jobs EXCEPT ![i] = Failed(jobs[i], e)]
  OBVIOUS
<1>4. QED
  BY <1>1, <1>2, <1>3, ReplacementAccounts

\* runJob on a record that may be stale.
LEMMA RunJobAccounts ==
  ASSUME TypeOK, JobsAccounted, NEW w \in Workers, NEW i \in JobIds, RunJob(w, i)
  PROVE  JobsAccounted'
<1>1. i \in Created
  BY DEF RunJob
<1>2. CASE jobs[i].key \notin Handles[w]
  <2>1. jobs' = [jobs EXCEPT ![i] = Failed(@, "NO_HANDLER")] /\ UNCHANGED <<lapses, calls>>
    BY <1>2 DEF RunJob
  <2>2. QED
    BY <1>1, <2>1, FailureAccounts DEF Errors
<1>3. CASE jobs[i].key \in Handles[w]
  <2>1. /\ CanStart(jobs[i]) /\ lapses' = lapses
        /\ jobs' = [jobs EXCEPT ![i] = Started(jobs[i], w)]
        /\ calls' = calls \cup {NewCall(i, jobs[i], w)}
    BY <1>3 DEF RunJob, NewCalls, NewCall
  <2>2. CallsOf(i)' = CallsOf(i) \cup {NewCall(i, jobs[i], w)}
    BY <2>1 DEF CallsOf, NewCall
  <2>3. \A j \in Created : j # i => CallsOf(j)' = CallsOf(j)
    BY <2>1 DEF CallsOf, NewCall
  <2>4. Accounted(Started(jobs[i], w), lapses[i], CallsOf(i) \cup {NewCall(i, jobs[i], w)})
    BY <1>1, <2>1, CreatedTypes, StartAccounts DEF JobsAccounted
  <2>5. QED
    BY <1>1, <2>1, <2>2, <2>3, <2>4, ReplacementAccounts
<1>4. QED
  BY <1>2, <1>3

\* An invocation settles, whatever became of its job.
LEMMA SettleAccounts ==
  ASSUME TypeOK, CallsKnown, JobsAccounted, NEW c \in calls, Settle(c)
  PROVE  JobsAccounted'
<1>1. c.job \in Created
  BY DEF CallsKnown
<1>2. PICK job : /\ jobs' = [jobs EXCEPT ![c.job] = job]
                 /\ \/ job = Succeeded(jobs[c.job])
                    \/ \E e \in Errors : job = Failed(jobs[c.job], e)
  BY DEF Settle, HandlerReturns, HandlerThrows, Errors
<1>3. lapses' = lapses /\ calls' = calls \ {c}
  BY DEF Settle, HandlerReturns, HandlerThrows, Leaves
<1>4. /\ CallsOf(c.job)' \in SUBSET CallsOf(c.job)
      /\ \A j \in Created : j # c.job => CallsOf(j)' = CallsOf(j)
  BY <1>3 DEF CallsOf
<1>5. Accounted(job, lapses[c.job], CallsOf(c.job)')
  BY <1>1, <1>2, <1>4, CreatedTypes, EndingAccounts DEF JobsAccounted, Errors
<1>6. QED
  BY <1>1, <1>2, <1>3, <1>4, <1>5, ReplacementAccounts

\* Every step of the runtime keeps the jobs accounted for and the slots used.
LEMMA RuntimeAccounts ==
  ASSUME RuntimeIInv, JobsAccounted, SlotsAreUsed, [RuntimeNext]_allVars
  PROVE  JobsAccounted' /\ SlotsAreUsed'
<1>1. TypeOK /\ CallsKnown /\ TasksKnown
  BY DEF RuntimeIInv, RuntimeTypeOK
<1>2. CASE TableStep
  BY <1>1, <1>2, TableAccounts, TableStepSlots
<1>3. ASSUME NEW w \in Workers, Poll(w) PROVE JobsAccounted' /\ SlotsAreUsed'
  BY <1>1, <1>3, PollAccounts, PollSlots
<1>4. ASSUME NEW c \in calls, Settle(c) PROVE JobsAccounted' /\ SlotsAreUsed'
  BY <1>1, <1>4, SettleAccounts, SettleSlots
<1>5. ASSUME UNCHANGED vars PROVE JobsAccounted' /\ SlotsAreUsed'
  <2>1. SlotsAreUsed'
    BY <1>5 DEF vars, SlotsAreUsed, CallsOf
  <2>2. Created' = Created /\ \A j : CallsOf(j)' = CallsOf(j)
    BY <1>5 DEF vars, Created, CallsOf
  <2>3. \A j \in Created : Accounted(jobs[j], lapses[j], CallsOf(j))'
    BY <1>5, <2>2, AccountedPrimed DEF vars, JobsAccounted
  <2>4. QED
    BY <2>1, <2>2, <2>3 DEF JobsAccounted
<1>6. ASSUME NEW t \in Tasks, TaskStep(t) PROVE JobsAccounted' /\ SlotsAreUsed'
  <2>1. task[t] # Idle => task[t] \in TaskRecord
    BY DEF RuntimeIInv, RuntimeTypeOK
  <2>2. CASE StartUnderLock(t)
    <3>1. task[t].by \in Workers /\ task[t].job \in JobIds
      BY <2>1, <2>2 DEF StartUnderLock, Idle, TaskRecord
    <3>2. RunJob(task[t].by, task[t].job) \/ UNCHANGED vars
      BY <2>2 DEF StartUnderLock
    <3>3. QED
      BY <1>1, <1>5, <3>1, <3>2, RunJobAccounts, RunJobSlots
  <2>3. CASE FailsForWantOfLock(t)
    <3>1. task[t].pc = "denied" /\ UNCHANGED <<lapses, running, calls>>
          /\ jobs' = [jobs EXCEPT ![task[t].job] = Failed(@, "LOCK_UNAVAILABLE")]
      BY <2>3 DEF FailsForWantOfLock
    <3>2. task[t].job \in Created
      BY <1>1, <3>1 DEF TasksKnown
    <3>3. JobsAccounted'
      BY <1>1, <3>1, <3>2, FailureAccounts DEF Errors
    <3>4. SlotsAreUsed'
      BY <3>1 DEF SlotsAreUsed, CallsOf
    <3>5. QED
      BY <3>3, <3>4
  <2>4. CASE FinishTask(t)
    BY <1>5, <2>4 DEF FinishTask
  <2>5. QED
    BY <1>6, <2>2, <2>3, <2>4 DEF TaskStep
<1>7. QED
  BY <1>2, <1>3, <1>4, <1>5, <1>6 DEF RuntimeNext, RequestLock, allVars

\* What the runner promises holds from the start, and for ever.
LEMMA AccountsInvariance == RuntimeSpec => [](JobsAccounted /\ SlotsAreUsed)
<1>1. RuntimeInit => JobsAccounted /\ SlotsAreUsed
  BY IInvInit DEF RuntimeInit, IInv, JobsOK, JobOK, JobsAccounted
<1>2. RuntimeIInv /\ JobsAccounted /\ SlotsAreUsed /\ [RuntimeNext]_allVars
        => JobsAccounted' /\ SlotsAreUsed'
  BY RuntimeAccounts
<1>3. QED
  BY <1>1, <1>2, RuntimeInvariance, PTL DEF RuntimeSpec

-----------------------------------------------------------------------------
(* The theorems.                                                           *)

\* Jobs, locks and calls of runWithLock keep to their types.
THEOREM RuntimeTyping ==
  RuntimeSpec => []RuntimeTypeOK
<1>1. RuntimeIInv => RuntimeTypeOK
  BY DEF RuntimeIInv
<1>2. QED
  BY <1>1, RuntimeInvariance, PTL

\* Two calls of runWithLock work under one lock only after the TTL of one has passed.
THEOREM LocksExclude ==
  RuntimeSpec => []LockedTasksExclude
<1>1. RuntimeIInv => LockedTasksExclude
  <2> SUFFICES ASSUME RuntimeIInv, NEW s \in Tasks, NEW t \in Tasks, s # t,
                      Works(s), Works(t), LockOf(task[s].job) = LockOf(task[t].job),
                      task[s].lock \notin outlived, task[t].lock \notin outlived
               PROVE  FALSE
    BY DEF LockedTasksExclude, Works
  <2>1. task[s].lock = task[t].lock
    BY DEF RuntimeIInv, LocksKept
  <2>2. HoldsLock(s) /\ HoldsLock(t)
    BY DEF Works, HoldsLock
  <2>3. QED
    BY <2>1, <2>2 DEF RuntimeIInv, LockIdsOK
<1>2. QED
  BY <1>1, RuntimeInvariance, PTL

\* Every lock on record has the call of runWithLock that will release it.
THEOREM LocksAreOwned ==
  RuntimeSpec => []LocksHaveTasks
<1>1. RuntimeIInv => LocksHaveTasks
  BY DEF RuntimeIInv
<1>2. QED
  BY <1>1, RuntimeInvariance, PTL

\* The lock service implements the lease.
THEOREM RuntimeRefinement ==
  RuntimeSpec => ImplementsLeasedWork
<1>1. RuntimeInit => Lease!Init
  BY DEF RuntimeInit, Lease!Init, Served, Owns, TurnedAway, Idle
<1>2. QED
  BY <1>1, LeaseStep, RuntimeInvariance, PTL DEF RuntimeSpec, ImplementsLeasedWork, Lease!Spec

\* Calls of runWithLock that fail a job while it runs let it run twice, and still:
\* a RUNNING job has its current invocation in flight at the worker named in its lease.
THEOREM RuntimeRunning == RuntimeSpec => []RunningIsExecuted
<1>1. JobsAccounted => RunningIsExecuted
  BY DEF JobsAccounted, Accounted, RunningIsExecuted
<1>2. QED
  BY <1>1, AccountsInvariance, PTL

\* Neither they nor stale records make a runner exceed its limit or leak a slot.
THEOREM RuntimeSlots == RuntimeSpec => []SlotsAreUsed
BY AccountsInvariance, PTL

\* And a job refused its lock again and again, or failed by two calls at once, is
\* dead-lettered only when its budget is spent, and lost leases alone exceed it.
THEOREM RuntimeBudget == RuntimeSpec => []RetryBudget
<1>1. JobsAccounted => RetryBudget
  BY DEF JobsAccounted, Accounted, RetryBudget
<1>2. QED
  BY <1>1, AccountsInvariance, PTL

\* A settled job that nobody runs is revived by a refused lock or a missing handler
\* alone: neither a poll, nor a late answer, nor a task turned away by the table.
THEOREM RuntimeSettled == RuntimeSpec => SettledUnlessRevived
<1>1. ASSUME RuntimeIInv, [RuntimeNext]_allVars, NEW j \in Created,
             jobs[j].status \in Settled, CallsOf(j) = {}, \A t \in Tasks : ~Revives(t, j)
      PROVE  jobs'[j].status = jobs[j].status /\ jobs'[j].attempts = jobs[j].attempts
  <2>1. TypeOK /\ jobs \in [JobIds -> JobRecord \cup {Absent}]
    BY <1>1 DEF RuntimeIInv, RuntimeTypeOK, TypeOK, SchedulerTypeOK
  <2>2. CASE [Next]_vars
    BY <1>1, <2>1, <2>2, SettledStays
  <2>3. ASSUME NEW t \in Tasks, NEW w \in Workers, NEW i \in JobIds,
               task[t].pc = "granted", task[t].by = w, task[t].job = i, RunJob(w, i)
        PROVE  jobs'[j] = jobs[j]
    <3>1. CASE i = j
      <4>1. jobs[j].key \in Handles[w]
        BY <1>1, <2>3, <3>1 DEF Revives, Idle
      <4>2. CanStart(jobs[j])
        BY <2>3, <3>1, <4>1 DEF RunJob
      <4>3. QED
        BY <1>1, <4>2 DEF CanStart, Runnable, Settled
    <3>2. CASE i # j
      BY <2>1, <2>3, <3>2 DEF RunJob, Created
    <3>3. QED
      BY <3>1, <3>2
  <2>4. ASSUME NEW t \in Tasks, TaskStep(t)
        PROVE  jobs'[j].status = jobs[j].status /\ jobs'[j].attempts = jobs[j].attempts
    <3>1. task[t] # Idle => task[t] \in TaskRecord
      BY <1>1 DEF RuntimeIInv, RuntimeTypeOK
    <3>2. CASE StartUnderLock(t)
      <4>1. task[t].pc = "granted" /\ task[t].by \in Workers /\ task[t].job \in JobIds
        BY <3>1, <3>2 DEF StartUnderLock, Idle, TaskRecord
      <4>2. RunJob(task[t].by, task[t].job) \/ UNCHANGED vars
        BY <3>2 DEF StartUnderLock
      <4>3. QED
        BY <2>2, <2>3, <4>1, <4>2
    <3>3. CASE FailsForWantOfLock(t)
      <4>1. task[t].pc = "denied" /\ task[t] # Idle
        BY <3>3 DEF FailsForWantOfLock, Idle
      <4>2. task[t].job # j
        BY <1>1, <4>1 DEF Revives
      <4>3. QED
        BY <2>1, <3>3, <4>2 DEF FailsForWantOfLock
    <3>4. CASE FinishTask(t)
      BY <2>2, <3>4 DEF FinishTask
    <3>5. QED
      BY <2>4, <3>2, <3>3, <3>4 DEF TaskStep
  <2>5. CASE ~[Next]_vars
    <3>1. \E t \in Tasks : TaskStep(t)
      <4>1. ~TableStep /\ ~(\E w \in Workers : Poll(w)) /\ ~(\E c \in calls : Settle(c))
            /\ ~UNCHANGED vars
        BY <2>5 DEF Next, RunnerStep
      <4>2. QED
        BY <1>1, <4>1 DEF RuntimeNext, RequestLock, allVars
    <3>2. QED
      BY <2>4, <3>1
  <2>6. QED
    BY <2>2, <2>5
<1>2. RuntimeIInv /\ [RuntimeNext]_allVars =>
        \A j \in Created :
          /\ jobs[j].status \in Settled /\ CallsOf(j) = {}
          /\ \A t \in Tasks : ~Revives(t, j)
          => /\ jobs'[j].status = jobs[j].status
             /\ jobs'[j].attempts = jobs[j].attempts
  BY <1>1
<1>3. QED
  BY <1>2, RuntimeInvariance, PTL DEF RuntimeSpec, SettledUnlessRevived
=============================================================================
