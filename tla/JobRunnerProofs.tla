--------------------------- MODULE JobRunnerProofs ---------------------------
(***************************************************************************)
(* Proofs about JobRunner, for any keys, workers, limits and bounds.       *)
(***************************************************************************)
EXTENDS JobRunner, FiniteSetTheorems, TLAPS

-----------------------------------------------------------------------------
(* What the operations do to one record.                                   *)

\* Every operation of the scheduler turns a job record into a job record.
LEMMA RecordTypes ==
  ASSUME NEW job \in JobRecord, NEW w \in Workers, NEW e \in Errors
  PROVE  /\ Started(job, w) \in JobRecord
         /\ Succeeded(job) \in JobRecord
         /\ Failed(job, e) \in JobRecord
         /\ Recovered(job) \in JobRecord
<1>1. Started(job, w) \in JobRecord
  <2>1. job.attempts + 1 \in Nat
    BY DEF JobRecord
  <2>2. QED
    BY <2>1 DEF Started, JobRecord, Statuses, Active
<1>2. Succeeded(job) \in JobRecord
  BY DEF Succeeded, JobRecord, Statuses, Settled
<1>3. Failed(job, e) \in JobRecord
  BY DEF Failed, JobRecord, Statuses, Active, Settled
<1>4. Recovered(job) \in JobRecord
  BY DEF Recovered, JobRecord, Statuses, Active
<1>5. QED
  BY <1>1, <1>2, <1>3, <1>4

\* An id is created exactly when the table holds a record of it.
LEMMA CreatedIsRecord ==
  ASSUME TypeOK, NEW j \in JobIds
  PROVE  j \in Created <=> jobs[j] \in JobRecord
<1>1. Absent \notin JobRecord
  BY DEF Absent, JobRecord, Statuses, Active, Settled
<1>2. QED
  BY <1>1 DEF TypeOK, SchedulerTypeOK, Created

-----------------------------------------------------------------------------
(* The inductive invariant.                                                *)

\* What holds of one job whoever calls runJob: its record, the leases it lost, and
\* the invocations of it in flight.  A queued job has an attempt left, lost leases
\* included; that is what makes the retry budget inductive.
Accounted(job, lost, inFlight) ==
  LET max == MaxAttempts[job.key] IN
  /\ \A c \in inFlight : c.attempt <= job.attempts
  /\ job.status = "RUNNING" =>
       /\ job.lease # "none"
       /\ \E c \in inFlight : c.by = job.lockedBy /\ c.attempt = job.attempts
  /\ job.status = "QUEUED" => job.attempts < max + lost
  /\ job.status = "RETRY_SCHEDULED" => job.attempts < max
  /\ job.status = "FAILED" => job.attempts >= max
  /\ job.attempts <= max + lost

\* What holds of one job in addition as long as nothing fails a job that runs: its
\* lost leases pay for all its invocations but one.
JobOK(job, lost, inFlight) ==
  /\ IsFiniteSet(inFlight)
  /\ Cardinality(inFlight) <=
       lost + (IF job.status \in {"RUNNING", "CANCELLED"} THEN 1 ELSE 0)
  /\ Accounted(job, lost, inFlight)

JobsOK     == \A j \in Created : JobOK(jobs[j], lapses[j], CallsOf(j))
CallsKnown == \A c \in calls : c.job \in Created

IInv == TypeOK /\ JobsOK /\ CallsKnown /\ SlotsAreUsed

\* markRunning on a waiting job: the new invocation is one more in flight.
LEMMA StartedOK ==
  ASSUME NEW job \in JobRecord, NEW lost \in Nat, NEW j \in JobIds, NEW w \in Workers,
         NEW inFlight \in SUBSET Call, JobOK(job, lost, inFlight), CanStart(job)
  PROVE  JobOK(Started(job, w), lost,
               inFlight \cup {[job |-> j, attempt |-> job.attempts + 1, by |-> w]})
<1> DEFINE new == [job |-> j, attempt |-> job.attempts + 1, by |-> w]
           started == Started(job, w)
<1>1. /\ started.key = job.key
      /\ started.status = "RUNNING"
      /\ started.lockedBy = w
      /\ started.lease = "held"
      /\ started.attempts = job.attempts + 1
  BY DEF Started, JobRecord
<1>2. job.attempts \in Nat /\ MaxAttempts[job.key] \in Nat
  BY SchedulerAssumption DEF JobRecord
<1>3. \A c \in inFlight : c.attempt \in Nat
  BY DEF Call
<1>4. /\ IsFiniteSet(inFlight)
      /\ Cardinality(inFlight) \in Nat
  BY FS_CardinalityType DEF JobOK, Accounted
<1>5. job.status = "QUEUED" \/ job.status = "RETRY_SCHEDULED"
  BY DEF CanStart, Runnable
<1>6. /\ IsFiniteSet(inFlight \cup {new})
      /\ Cardinality(inFlight \cup {new}) <= lost + 1
  <2>1. Cardinality(inFlight) <= lost
    BY <1>4, <1>5 DEF JobOK, Accounted
  <2>2. /\ IsFiniteSet(inFlight \cup {new})
        /\ Cardinality(inFlight \cup {new}) \in {Cardinality(inFlight), Cardinality(inFlight) + 1}
    <3> HIDE DEF new
    <3>1. QED
      BY <1>4, FS_AddElement
  <2>3. QED
    BY <1>4, <2>1, <2>2
<1>7. \A c \in inFlight \cup {new} : c.attempt <= started.attempts
  BY <1>1, <1>2, <1>3 DEF JobOK, Accounted
<1>8. \E c \in inFlight \cup {new} : c.by = started.lockedBy /\ c.attempt = started.attempts
  <2>1. new.by = w /\ new.attempt = job.attempts + 1
    OBVIOUS
  <2>2. QED
    BY <1>1, <2>1
<1>9. started.attempts <= MaxAttempts[started.key] + lost
  BY <1>1, <1>2, <1>5 DEF JobOK, Accounted
<1>10. QED
  BY <1>1, <1>6, <1>7, <1>8, <1>9 DEF JobOK, Accounted

\* expireStaleJobs on one record: a lost lease is counted, and pays for both the
\* invocation left behind and the attempt the job gets back.
LEMMA RecoveredOK ==
  ASSUME NEW job \in JobRecord, NEW lost \in Nat,
         NEW inFlight, JobOK(job, lost, inFlight)
  PROVE  JobOK(Recovered(job), IF Stale(job) THEN lost + 1 ELSE lost, inFlight)
<1>1. CASE ~Stale(job)
  BY <1>1 DEF Recovered
<1>2. CASE Stale(job)
  <2> DEFINE back == Recovered(job)
  <2>1. /\ back.key = job.key
        /\ back.status = "QUEUED"
        /\ back.attempts = job.attempts
        /\ job.status = "RUNNING"
    BY <1>2 DEF Recovered, Stale, JobRecord
  <2>2. job.attempts \in Nat /\ MaxAttempts[job.key] \in Nat
    BY SchedulerAssumption DEF JobRecord
  <2>3. Cardinality(inFlight) \in Nat
    BY FS_CardinalityType DEF JobOK, Accounted
  <2>4. QED
    BY <1>2, <2>1, <2>2, <2>3 DEF JobOK, Accounted
<1>3. QED
  BY <1>1, <1>2

\* markFailed on a job that waits.
LEMMA WaitingFailedOK ==
  ASSUME NEW job \in JobRecord, NEW lost \in Nat, NEW e \in Errors,
         NEW inFlight, JobOK(job, lost, inFlight), job.status \in Runnable
  PROVE  JobOK(Failed(job, e), lost, inFlight)
<1> DEFINE failed == Failed(job, e)
<1>1. /\ failed.key = job.key
      /\ failed.attempts = job.attempts
      /\ failed.status = IF HasAttemptLeft(job) THEN "RETRY_SCHEDULED" ELSE "FAILED"
  BY DEF Failed, JobRecord
<1>2. job.attempts \in Nat /\ MaxAttempts[job.key] \in Nat
  BY SchedulerAssumption DEF JobRecord
<1>3. job.status \notin {"RUNNING", "CANCELLED"}
  BY DEF Runnable
<1>4. QED
  BY <1>1, <1>2, <1>3 DEF JobOK, Accounted, HasAttemptLeft

\* markSucceeded and markFailed when an invocation of the job settles, whatever
\* became of the job meanwhile: one invocation less pays for the status left.
LEMMA SettledOK ==
  ASSUME NEW job \in JobRecord, NEW lost \in Nat, NEW e \in Errors,
         NEW inFlight \in SUBSET Call, JobOK(job, lost, inFlight), NEW c \in inFlight
  PROVE  /\ JobOK(Succeeded(job), lost, inFlight \ {c})
         /\ JobOK(Failed(job, e), lost, inFlight \ {c})
<1>1. /\ IsFiniteSet(inFlight \ {c})
      /\ Cardinality(inFlight \ {c}) = Cardinality(inFlight) - 1
      /\ Cardinality(inFlight) \in Nat
  BY FS_RemoveElement, FS_CardinalityType DEF JobOK, Accounted
<1>2. Cardinality(inFlight \ {c}) <= lost
  BY <1>1 DEF JobOK, Accounted
<1>3. job.attempts \in Nat /\ MaxAttempts[job.key] \in Nat
  BY SchedulerAssumption DEF JobRecord
<1>4. /\ Succeeded(job).key = job.key
      /\ Succeeded(job).attempts = job.attempts
      /\ Succeeded(job).status = "SUCCEEDED"
  BY DEF Succeeded, JobRecord
<1>5. /\ Failed(job, e).key = job.key
      /\ Failed(job, e).attempts = job.attempts
      /\ Failed(job, e).status = IF HasAttemptLeft(job) THEN "RETRY_SCHEDULED" ELSE "FAILED"
  BY DEF Failed, JobRecord
<1>6. JobOK(Succeeded(job), lost, inFlight \ {c})
  BY <1>1, <1>2, <1>3, <1>4 DEF JobOK, Accounted
<1>7. JobOK(Failed(job, e), lost, inFlight \ {c})
  BY <1>1, <1>2, <1>3, <1>5 DEF JobOK, Accounted, HasAttemptLeft
<1>8. QED
  BY <1>6, <1>7

-----------------------------------------------------------------------------
(* Types.                                                                  *)

\* The table a poll works on, after expireStaleJobs.
Recovery == [j \in JobIds |-> Recovered(jobs[j])]

\* expireStaleJobs keeps the table a table, with the same ids in it.
LEMMA RecoveryType ==
  ASSUME TypeOK
  PROVE  /\ Recovery \in [JobIds -> JobRecord \cup {Absent}]
         /\ \A j \in JobIds : IF j \in Created THEN Recovery[j] \in JobRecord
                                               ELSE Recovery[j] = Absent
         /\ LapsesAfterExpiry \in [JobIds -> Nat]
<1>1. ASSUME NEW j \in JobIds
      PROVE  IF j \in Created THEN Recovered(jobs[j]) \in JobRecord
                              ELSE Recovered(jobs[j]) = Absent
  <2>1. CASE j \in Created
    BY <2>1, CreatedIsRecord DEF Recovered, JobRecord, Statuses, Active
  <2>2. CASE j \notin Created
    BY <2>2 DEF Created, Recovered, Stale
  <2>3. QED
    BY <2>1, <2>2
<1>2. LapsesAfterExpiry \in [JobIds -> Nat]
  BY DEF LapsesAfterExpiry, TypeOK, SchedulerTypeOK
<1>3. QED
  BY <1>1, <1>2 DEF Recovery

\* The invocations that start from a typed table are typed.
LEMMA NewCallsType ==
  ASSUME NEW w \in Workers, NEW t, NEW S \in SUBSET JobIds,
         \A j \in S : t[j] \in JobRecord
  PROVE  NewCalls(S, t, w) \in SUBSET Call
<1>1. \A j \in S : t[j].attempts + 1 \in Nat
  BY DEF JobRecord
<1>2. QED
  BY <1>1 DEF NewCalls, Call

\* A created job is replaced by a record: the table stays typed.
LEMMA ReplacementType ==
  ASSUME TypeOK, NEW j \in JobIds, NEW job \in JobRecord,
         jobs' = [jobs EXCEPT ![j] = job]
  PROVE  jobs' \in [JobIds -> JobRecord \cup {Absent}]
BY DEF TypeOK, SchedulerTypeOK

\* What the clients, the operators and the clock do keeps the types.
LEMMA TableStepTyping ==
  ASSUME TypeOK, TableStep
  PROVE  TypeOK'
<1> SUFFICES SchedulerTypeOK'
  BY DEF TypeOK, TableStep
<1>1. ASSUME NEW k \in Keys, NEW d \in BOOLEAN, NEW i \in {k} \cup CustomKeys, Enqueue(k, i, d)
      PROVE  SchedulerTypeOK'
  <2>1. NewJob(k, i, d) \in JobRecord
    BY DEF NewJob, JobRecord, IdemKeys, Statuses, Active
  <2>2. QED
    BY <1>1, <2>1, ReplacementType DEF Enqueue, TypeOK, SchedulerTypeOK
<1>2. ASSUME NEW j \in JobIds, Cancel(j)
      PROVE  SchedulerTypeOK'
  <2>1. [jobs[j] EXCEPT !.status = "CANCELLED"] \in JobRecord
    BY <1>2, CreatedIsRecord DEF Cancel, JobRecord, Statuses, Settled
  <2>2. QED
    BY <1>2, <2>1 DEF Cancel, TypeOK, SchedulerTypeOK
<1>3. ASSUME NEW j \in JobIds, LeaseLapses(j)
      PROVE  SchedulerTypeOK'
  <2>1. [jobs[j] EXCEPT !.lease = "lapsed"] \in JobRecord
    BY <1>3, CreatedIsRecord DEF LeaseLapses, JobRecord
  <2>2. QED
    BY <1>3, <2>1 DEF LeaseLapses, TypeOK, SchedulerTypeOK
<1>4. ASSUME NEW j \in JobIds, BecomesDue(j)
      PROVE  SchedulerTypeOK'
  <2>1. [jobs[j] EXCEPT !.due = TRUE] \in JobRecord
    BY <1>4, CreatedIsRecord DEF BecomesDue, JobRecord
  <2>2. QED
    BY <1>4, <2>1 DEF BecomesDue, TypeOK, SchedulerTypeOK
<1>5. CASE ExpireStaleJobs
  BY <1>5, RecoveryType DEF ExpireStaleJobs, Recovery, SchedulerTypeOK
<1>6. QED
  BY <1>1, <1>2, <1>3, <1>4, <1>5 DEF TableStep

\* What the runners do keeps the types, when every invocation is of a job the
\* table knows.
LEMMA RunnerStepTyping ==
  ASSUME TypeOK, CallsKnown, RunnerStep
  PROVE  TypeOK'
<1>1. ASSUME NEW w \in Workers, Poll(w)
      PROVE  TypeOK'
  <2>1. PICK B \in SUBSET Queued(Recovery, w) :
          LET taken == {j \in B : Recovery[j].key \in Handles[w]} IN
          /\ jobs' = [j \in JobIds |->
                        IF j \in taken THEN Started(Recovery[j], w)
                        ELSE IF j \in B THEN Failed(Recovery[j], "NO_HANDLER")
                        ELSE Recovery[j]]
          /\ lapses' = LapsesAfterExpiry
          /\ running' = [running EXCEPT ![w] = @ \cup taken]
          /\ calls' = calls \cup NewCalls(taken, Recovery, w)
    BY <1>1 DEF Poll, Recovery
  <2> DEFINE taken == {j \in B : Recovery[j].key \in Handles[w]}
  <2>2. \A j \in B : j \in JobIds /\ Recovery[j] \in JobRecord
    BY RecoveryType DEF Queued
  <2>3. \A j \in B : /\ Started(Recovery[j], w) \in JobRecord
                     /\ Failed(Recovery[j], "NO_HANDLER") \in JobRecord
    BY <2>2, RecordTypes DEF Errors
  <2>4. SchedulerTypeOK'
    BY <2>1, <2>3, RecoveryType DEF SchedulerTypeOK
  <2>5. running' \in [Workers -> SUBSET JobIds]
    BY <2>1, <2>2 DEF TypeOK
  <2>6. calls' \in SUBSET Call
    <3>1. NewCalls(taken, Recovery, w) \in SUBSET Call
      BY <2>2, NewCallsType
    <3>2. QED
      BY <2>1, <3>1 DEF TypeOK
  <2>7. QED
    BY <2>4, <2>5, <2>6 DEF TypeOK
<1>2. ASSUME NEW w \in Workers, NEW j \in JobIds, RunWaitingJob(w, j)
      PROVE  TypeOK'
  <2>1. jobs[j] \in JobRecord
    BY <1>2, CreatedIsRecord DEF RunWaitingJob
  <2>2. /\ Started(jobs[j], w) \in JobRecord
        /\ Failed(jobs[j], "NO_HANDLER") \in JobRecord
        /\ NewCalls({j}, jobs, w) \in SUBSET Call
    BY <2>1, RecordTypes, NewCallsType DEF Errors
  <2>3. QED
    BY <1>2, <2>2 DEF RunWaitingJob, RunJob, TypeOK, SchedulerTypeOK
<1>3. ASSUME NEW c \in calls, Settle(c)
      PROVE  TypeOK'
  <2>1. c.job \in JobIds /\ c.by \in Workers /\ jobs[c.job] \in JobRecord
    BY CreatedIsRecord DEF TypeOK, Call, CallsKnown
  <2>2. QED
    BY <1>3, <2>1, RecordTypes
       DEF Settle, HandlerReturns, HandlerThrows, Leaves, TypeOK, SchedulerTypeOK, Errors
<1>4. QED
  BY <1>1, <1>2, <1>3 DEF RunnerStep

-----------------------------------------------------------------------------
(* The steps keep what holds of each job.                                  *)

\* The invocation markRunning starts on record r of job j.
NewCall(j, r, w) == [job |-> j, attempt |-> r.attempts + 1, by |-> w]

\* What a poll does to one job: expiry first, then the job is started, failed
\* for want of a handler, or left.
LEMMA PollOnOneJob ==
  ASSUME TypeOK, NEW w \in Workers, Poll(w), NEW j \in JobIds
  PROVE  /\ lapses'[j] = IF Stale(jobs[j]) THEN lapses[j] + 1 ELSE lapses[j]
         /\ \A v \in Workers : running[v] \subseteq running'[v]
         /\ \/ /\ jobs'[j] = Recovery[j]
               /\ CallsOf(j)' = CallsOf(j)
            \/ /\ Recovery[j] # Absent
               /\ Recovery[j].status = "QUEUED"
               /\ jobs'[j] = Failed(Recovery[j], "NO_HANDLER")
               /\ CallsOf(j)' = CallsOf(j)
            \/ /\ Recovery[j] # Absent
               /\ Recovery[j].status = "QUEUED"
               /\ jobs'[j] = Started(Recovery[j], w)
               /\ CallsOf(j)' = CallsOf(j) \cup {NewCall(j, Recovery[j], w)}
               /\ j \in running'[w]
<1>1. PICK B \in SUBSET Queued(Recovery, w) :
        LET taken == {m \in B : Recovery[m].key \in Handles[w]} IN
        /\ jobs' = [m \in JobIds |->
                      IF m \in taken THEN Started(Recovery[m], w)
                      ELSE IF m \in B THEN Failed(Recovery[m], "NO_HANDLER")
                      ELSE Recovery[m]]
        /\ lapses' = LapsesAfterExpiry
        /\ running' = [running EXCEPT ![w] = @ \cup taken]
        /\ calls' = calls \cup NewCalls(taken, Recovery, w)
  BY DEF Poll, Recovery
<1> DEFINE taken == {m \in B : Recovery[m].key \in Handles[w]}
<1>2. /\ lapses'[j] = IF Stale(jobs[j]) THEN lapses[j] + 1 ELSE lapses[j]
      /\ \A v \in Workers : running[v] \subseteq running'[v]
  BY <1>1 DEF LapsesAfterExpiry, TypeOK
<1>3. \A c : c \in NewCalls(taken, Recovery, w) /\ c.job = j
                <=> j \in taken /\ c = NewCall(j, Recovery[j], w)
  BY DEF NewCalls, NewCall
<1>4. CASE j \in taken
  <2>1. CallsOf(j)' = CallsOf(j) \cup {NewCall(j, Recovery[j], w)}
    BY <1>1, <1>3, <1>4 DEF CallsOf
  <2>2. j \in running'[w]
    BY <1>1, <1>4 DEF TypeOK
  <2>3. QED
    BY <1>1, <1>2, <1>4, <2>1, <2>2 DEF Queued
<1>5. CASE j \notin taken
  <2>1. CallsOf(j)' = CallsOf(j)
    BY <1>1, <1>3, <1>5 DEF CallsOf
  <2>2. QED
    BY <1>1, <1>2, <1>5, <2>1 DEF Queued
<1>6. QED
  BY <1>4, <1>5

\* A job a step of the table leaves alone stays as it is.
LEMMA JobUnchanged ==
  ASSUME NEW j \in Created, JobsOK,
         jobs'[j] = jobs[j], lapses'[j] = lapses[j], CallsOf(j)' = CallsOf(j)
  PROVE  JobOK(jobs[j], lapses[j], CallsOf(j))'
BY DEF JobsOK, JobOK, Accounted

\* JobOK in the next state, said of the next table, history and invocations.
LEMMA JobOKPrimed ==
  ASSUME NEW j, NEW job, NEW lost, NEW inFlight,
         jobs'[j] = job, lapses'[j] = lost, CallsOf(j)' = inFlight,
         JobOK(job, lost, inFlight)
  PROVE  JobOK(jobs[j], lapses[j], CallsOf(j))'
BY DEF JobOK, Accounted

\* A poll keeps every job as it should be: recovered, started, failed or left.
LEMMA PollJobsOK ==
  ASSUME IInv, NEW w \in Workers, Poll(w)
  PROVE  JobsOK'
<1> SUFFICES ASSUME NEW j \in JobIds, jobs'[j] # Absent
             PROVE  JobOK(jobs[j], lapses[j], CallsOf(j))'
  BY DEF JobsOK, Created
<1> DEFINE lost == IF Stale(jobs[j]) THEN lapses[j] + 1 ELSE lapses[j]
<1>1. j \in Created /\ jobs[j] \in JobRecord /\ Recovery[j] \in JobRecord
  BY PollOnOneJob, RecoveryType, CreatedIsRecord DEF IInv
<1>2. lapses[j] \in Nat /\ lost \in Nat /\ CallsOf(j) \in SUBSET Call
  BY DEF IInv, TypeOK, SchedulerTypeOK, CallsOf
<1>3. JobOK(Recovery[j], lost, CallsOf(j))
  BY <1>1, <1>2, RecoveredOK DEF IInv, JobsOK, Recovery
<1>4. lapses'[j] = lost
  BY PollOnOneJob DEF IInv
<1>5. CASE jobs'[j] = Recovery[j] /\ CallsOf(j)' = CallsOf(j)
  BY <1>3, <1>4, <1>5, JobOKPrimed
<1>6. CASE /\ Recovery[j].status = "QUEUED"
           /\ jobs'[j] = Failed(Recovery[j], "NO_HANDLER")
           /\ CallsOf(j)' = CallsOf(j)
  <2>1. JobOK(Failed(Recovery[j], "NO_HANDLER"), lost, CallsOf(j))
    BY <1>1, <1>2, <1>3, <1>6, WaitingFailedOK DEF Runnable, Errors
  <2>2. QED
    BY <1>4, <1>6, <2>1, JobOKPrimed
<1>7. CASE /\ Recovery[j].status = "QUEUED"
           /\ jobs'[j] = Started(Recovery[j], w)
           /\ CallsOf(j)' = CallsOf(j) \cup {NewCall(j, Recovery[j], w)}
  <2>1. JobOK(Started(Recovery[j], w), lost, CallsOf(j) \cup {NewCall(j, Recovery[j], w)})
    BY <1>1, <1>2, <1>3, <1>7, StartedOK DEF CanStart, Runnable, NewCall
  <2>2. QED
    BY <1>4, <1>7, <2>1, JobOKPrimed
<1>8. QED
  BY <1>5, <1>6, <1>7, PollOnOneJob DEF IInv

\* runJob called with a waiting job: that job is failed or started, and no other
\* job is touched.
LEMMA RunWaitingJobJobsOK ==
  ASSUME IInv, NEW w \in Workers, NEW i \in JobIds, RunWaitingJob(w, i)
  PROVE  JobsOK'
<1> SUFFICES ASSUME NEW j \in JobIds, jobs'[j] # Absent
             PROVE  JobOK(jobs[j], lapses[j], CallsOf(j))'
  BY DEF JobsOK, Created
<1>1. /\ i \in Created
      /\ jobs[i] \in JobRecord
      /\ jobs[i].status \in Runnable
      /\ lapses' = lapses
  BY CreatedIsRecord DEF IInv, RunWaitingJob, RunJob
<1>2. lapses[i] \in Nat /\ CallsOf(i) \in SUBSET Call /\ JobOK(jobs[i], lapses[i], CallsOf(i))
  BY <1>1 DEF IInv, TypeOK, SchedulerTypeOK, CallsOf, JobsOK
<1>3. CASE /\ jobs' = [jobs EXCEPT ![i] = Failed(@, "NO_HANDLER")]
           /\ UNCHANGED calls
  <2>1. CallsOf(j)' = CallsOf(j)
    BY <1>3 DEF CallsOf
  <2>2. CASE j # i
    BY <1>1, <1>3, <2>1, <2>2, JobUnchanged DEF Created, IInv, TypeOK, SchedulerTypeOK
  <2>3. CASE j = i
    <3>1. JobOK(Failed(jobs[i], "NO_HANDLER"), lapses[i], CallsOf(i))
      BY <1>1, <1>2, WaitingFailedOK DEF Errors
    <3>2. jobs'[i] = Failed(jobs[i], "NO_HANDLER")
      BY <1>3 DEF IInv, TypeOK, SchedulerTypeOK
    <3>3. QED
      BY <1>1, <2>1, <2>3, <3>1, <3>2, JobOKPrimed
  <2>4. QED
    BY <2>2, <2>3
<1>4. CASE /\ CanStart(jobs[i])
           /\ jobs' = [jobs EXCEPT ![i] = Started(@, w)]
           /\ calls' = calls \cup NewCalls({i}, jobs, w)
  <2>1. NewCalls({i}, jobs, w) = {NewCall(i, jobs[i], w)}
    BY DEF NewCalls, NewCall
  <2>2. CASE j # i
    <3>1. CallsOf(j)' = CallsOf(j)
      BY <1>4, <2>1, <2>2 DEF CallsOf, NewCall
    <3>2. QED
      BY <1>1, <1>4, <2>2, <3>1, JobUnchanged DEF Created, IInv, TypeOK, SchedulerTypeOK
  <2>3. CASE j = i
    <3>1. CallsOf(i)' = CallsOf(i) \cup {NewCall(i, jobs[i], w)}
      BY <1>4, <2>1 DEF CallsOf, NewCall
    <3>2. JobOK(Started(jobs[i], w), lapses[i], CallsOf(i) \cup {NewCall(i, jobs[i], w)})
      BY <1>1, <1>2, <1>4, StartedOK DEF NewCall
    <3>3. jobs'[i] = Started(jobs[i], w)
      BY <1>4 DEF IInv, TypeOK, SchedulerTypeOK
    <3>4. QED
      BY <1>1, <2>3, <3>1, <3>2, <3>3, JobOKPrimed
  <2>4. QED
    BY <2>2, <2>3
<1>5. QED
  BY <1>3, <1>4 DEF RunWaitingJob, RunJob

\* A settled invocation: its job is marked, whatever became of it meanwhile.
LEMMA SettleJobsOK ==
  ASSUME IInv, NEW c \in calls, Settle(c)
  PROVE  JobsOK'
<1> SUFFICES ASSUME NEW j \in JobIds, jobs'[j] # Absent
             PROVE  JobOK(jobs[j], lapses[j], CallsOf(j))'
  BY DEF JobsOK, Created
<1>1. /\ c.job \in Created
      /\ c.job \in JobIds
      /\ jobs[c.job] \in JobRecord
      /\ c \in CallsOf(c.job)
  BY CreatedIsRecord DEF IInv, CallsKnown, Created, CallsOf
<1>2. /\ lapses[c.job] \in Nat
      /\ CallsOf(c.job) \in SUBSET Call
      /\ JobOK(jobs[c.job], lapses[c.job], CallsOf(c.job))
  BY <1>1 DEF IInv, TypeOK, SchedulerTypeOK, CallsOf, JobsOK
<1>3. PICK job : /\ jobs' = [jobs EXCEPT ![c.job] = job]
                 /\ \/ job = Succeeded(jobs[c.job])
                    \/ \E e \in Errors : job = Failed(jobs[c.job], e)
  BY DEF Settle, HandlerReturns, HandlerThrows, Errors
<1>4. lapses' = lapses /\ calls' = calls \ {c}
  BY DEF Settle, HandlerReturns, HandlerThrows, Leaves
<1>5. CASE j # c.job
  <2>1. CallsOf(j)' = CallsOf(j)
    BY <1>4, <1>5 DEF CallsOf
  <2>2. QED
    BY <1>3, <1>4, <1>5, <2>1, JobUnchanged DEF Created, IInv, TypeOK, SchedulerTypeOK
<1>6. CASE j = c.job
  <2>1. CallsOf(j)' = CallsOf(j) \ {c}
    BY <1>4 DEF CallsOf
  <2>2. JobOK(job, lapses[j], CallsOf(j) \ {c})
    BY <1>1, <1>2, <1>3, <1>6, SettledOK DEF Errors
  <2>3. jobs'[j] = job
    BY <1>3, <1>6 DEF IInv, TypeOK, SchedulerTypeOK
  <2>4. QED
    BY <1>4, <2>1, <2>2, <2>3, JobOKPrimed
<1>7. QED
  BY <1>5, <1>6

\* Clients, operators and the clock: a new job has no invocation yet, a cancelled
\* one keeps its own, and a lost lease is counted.
LEMMA TableStepJobsOK ==
  ASSUME IInv, TableStep
  PROVE  JobsOK'
<1> SUFFICES ASSUME NEW j \in JobIds, jobs'[j] # Absent
             PROVE  JobOK(jobs[j], lapses[j], CallsOf(j))'
  BY DEF JobsOK, Created
<1>1. CallsOf(j)' = CallsOf(j)
  BY DEF TableStep, CallsOf
<1>2. ASSUME j \in Created
      PROVE  /\ jobs[j] \in JobRecord
             /\ lapses[j] \in Nat
             /\ JobOK(jobs[j], lapses[j], CallsOf(j))
  BY <1>2, CreatedIsRecord DEF IInv, TypeOK, SchedulerTypeOK, JobsOK
<1>3. ASSUME NEW k \in Keys, NEW d \in BOOLEAN, NEW i \in {k} \cup CustomKeys, Enqueue(k, i, d)
      PROVE  JobOK(jobs[j], lapses[j], CallsOf(j))'
  <2>1. CASE j \in Created
    BY <1>1, <1>3, <2>1, JobUnchanged DEF Enqueue, Created, IInv, TypeOK, SchedulerTypeOK
  <2>2. CASE j \notin Created
    <3>1. jobs'[j] = NewJob(k, i, d) /\ lapses'[j] = lapses[j] /\ lapses[j] \in Nat
      BY <1>3, <2>2 DEF Enqueue, Created, IInv, TypeOK, SchedulerTypeOK
    <3>2. CallsOf(j) = {}
      BY <2>2 DEF CallsOf, IInv, CallsKnown
    <3>3. MaxAttempts[k] \in Nat \ {0}
      BY SchedulerAssumption
    <3>4. JobOK(NewJob(k, i, d), lapses[j], {})
      BY <3>1, <3>3, FS_EmptySet DEF JobOK, Accounted, NewJob
    <3>5. QED
      BY <1>1, <3>1, <3>2, <3>4, JobOKPrimed
  <2>3. QED
    BY <2>1, <2>2
<1>4. ASSUME NEW i \in JobIds, Cancel(i) \/ LeaseLapses(i) \/ BecomesDue(i)
      PROVE  JobOK(jobs[j], lapses[j], CallsOf(j))'
  <2>1. /\ j \in Created
        /\ lapses' = lapses
        /\ j # i => jobs'[j] = jobs[j]
    BY <1>4 DEF Cancel, LeaseLapses, BecomesDue, Created, IInv, TypeOK, SchedulerTypeOK
  <2>2. CASE j # i
    BY <1>1, <2>1, <2>2, JobUnchanged DEF IInv
  <2>3. CASE j = i /\ Cancel(i)
    <3>1. jobs'[j] = [jobs[j] EXCEPT !.status = "CANCELLED"] /\ jobs[j].status \in Active
      BY <1>2, <2>1, <2>3
         DEF Cancel, IInv, TypeOK, SchedulerTypeOK, JobRecord, Statuses
    <3>2. JobOK([jobs[j] EXCEPT !.status = "CANCELLED"], lapses[j], CallsOf(j))
      <4>1. Cardinality(CallsOf(j)) \in Nat
        BY <1>2, <2>1, FS_CardinalityType DEF JobOK, Accounted
      <4>2. QED
        BY <1>2, <2>1, <3>1, <4>1 DEF JobOK, Accounted, JobRecord, Active
    <3>3. QED
      BY <1>1, <2>1, <3>1, <3>2, JobOKPrimed
  <2>4. CASE j = i /\ LeaseLapses(i)
    <3>1. jobs'[j] = [jobs[j] EXCEPT !.lease = "lapsed"]
      BY <2>4 DEF LeaseLapses, IInv, TypeOK, SchedulerTypeOK
    <3>2. JobOK([jobs[j] EXCEPT !.lease = "lapsed"], lapses[j], CallsOf(j))
      BY <1>2, <2>1 DEF JobOK, Accounted, JobRecord
    <3>3. QED
      BY <1>1, <2>1, <3>1, <3>2, JobOKPrimed
  <2>5. CASE j = i /\ BecomesDue(i)
    <3>1. jobs'[j] = [jobs[j] EXCEPT !.due = TRUE]
      BY <2>5 DEF BecomesDue, IInv, TypeOK, SchedulerTypeOK
    <3>2. JobOK([jobs[j] EXCEPT !.due = TRUE], lapses[j], CallsOf(j))
      BY <1>2, <2>1 DEF JobOK, Accounted, JobRecord
    <3>3. QED
      BY <1>1, <2>1, <3>1, <3>2, JobOKPrimed
  <2>6. QED
    BY <1>4, <2>2, <2>3, <2>4, <2>5
<1>5. CASE ExpireStaleJobs
  <2>1. /\ jobs'[j] = Recovered(jobs[j])
        /\ lapses'[j] = IF Stale(jobs[j]) THEN lapses[j] + 1 ELSE lapses[j]
    BY <1>5 DEF ExpireStaleJobs, LapsesAfterExpiry
  <2>2. j \in Created
    BY <2>1 DEF Created, Recovered, Stale
  <2>3. QED
    BY <1>1, <1>2, <2>1, <2>2, RecoveredOK, JobOKPrimed
<1>6. QED
  BY <1>3, <1>4, <1>5 DEF TableStep

-----------------------------------------------------------------------------
(* The table forgets no job, and every invocation is of a job it knows.    *)

\* A job record is never mistaken for the absence of one.
LEMMA RecordIsNotAbsent ==
  ASSUME NEW job, job.status \in Statuses
  PROVE  job # Absent
BY DEF Absent, Statuses, Active, Settled

\* Clients and operators delete no job and take no attempt back: the Map only
\* grows and attemptCount never goes down.
LEMMA TableStepForgetsNothing ==
  ASSUME TypeOK, TableStep, NEW j \in Created
  PROVE  j \in Created'
<1>1. j \in JobIds /\ jobs[j] \in JobRecord /\ jobs \in [JobIds -> JobRecord \cup {Absent}]
  BY CreatedIsRecord DEF Created, TypeOK, SchedulerTypeOK
<1> SUFFICES jobs'[j] # Absent
  BY <1>1 DEF Created
<1>2. ASSUME NEW k \in Keys, NEW d \in BOOLEAN, NEW i \in {k} \cup CustomKeys, Enqueue(k, i, d)
      PROVE  jobs'[j] # Absent
  BY <1>1, <1>2 DEF Enqueue, Created
<1>3. ASSUME NEW i \in JobIds, Cancel(i) \/ LeaseLapses(i) \/ BecomesDue(i)
      PROVE  jobs'[j] # Absent
  <2>1. jobs'[j].status \in {jobs[j].status, "CANCELLED"}
    BY <1>1, <1>3 DEF Cancel, LeaseLapses, BecomesDue, JobRecord
  <2>2. jobs'[j].status \in Statuses
    BY <1>1, <2>1 DEF JobRecord, Statuses, Settled
  <2>3. QED
    BY <2>2, RecordIsNotAbsent
<1>4. CASE ExpireStaleJobs
  <2>1. jobs'[j] = Recovery[j] /\ Recovery[j] \in JobRecord
    BY <1>1, <1>4, RecoveryType DEF ExpireStaleJobs, Recovery
  <2>2. QED
    BY <2>1, RecordIsNotAbsent DEF JobRecord
<1>5. QED
  BY <1>2, <1>3, <1>4 DEF TableStep

\* Runners delete no job and take no attempt back either.
LEMMA RunnerStepForgetsNothing ==
  ASSUME TypeOK, CallsKnown, RunnerStep, NEW j \in Created
  PROVE  j \in Created'
<1>1. j \in JobIds /\ jobs[j] \in JobRecord /\ jobs \in [JobIds -> JobRecord \cup {Absent}]
  BY CreatedIsRecord DEF Created, TypeOK, SchedulerTypeOK
<1>2. \A job \in JobRecord : job # Absent
  BY RecordIsNotAbsent DEF JobRecord
<1> SUFFICES jobs'[j] # Absent
  BY <1>1 DEF Created
<1>3. ASSUME NEW w \in Workers, Poll(w)
      PROVE  jobs'[j] # Absent
  <2>1. Recovery[j] \in JobRecord
    BY <1>1, RecoveryType
  <2>2. jobs'[j] \in {Recovery[j], Failed(Recovery[j], "NO_HANDLER"), Started(Recovery[j], w)}
    BY <1>1, <1>3, PollOnOneJob
  <2>3. QED
    BY <1>2, <2>1, <2>2, RecordTypes DEF Errors
<1>4. ASSUME NEW w \in Workers, NEW i \in JobIds, RunWaitingJob(w, i)
      PROVE  jobs'[j] # Absent
  <2>1. jobs'[j] \in {jobs[j], Failed(jobs[j], "NO_HANDLER"), Started(jobs[j], w)}
    BY <1>1, <1>4 DEF RunWaitingJob, RunJob
  <2>2. QED
    BY <1>1, <1>2, <2>1, RecordTypes DEF Errors
<1>5. ASSUME NEW c \in calls, Settle(c)
      PROVE  jobs'[j] # Absent
  <2>1. \/ jobs'[j] \in {jobs[j], Succeeded(jobs[j])}
        \/ \E e \in Errors : jobs'[j] = Failed(jobs[j], e)
    BY <1>1, <1>5 DEF Settle, HandlerReturns, HandlerThrows, Errors
  <2>2. c.by \in Workers /\ "RETRYABLE" \in Errors
    BY <1>5 DEF TypeOK, Call, Errors
  <2>3. /\ Succeeded(jobs[j]) \in JobRecord
        /\ \A e \in Errors : Failed(jobs[j], e) \in JobRecord
    BY <1>1, <2>2, RecordTypes
  <2>4. QED
    BY <1>1, <1>2, <2>1, <2>3
<1>6. QED
  BY <1>3, <1>4, <1>5 DEF RunnerStep

\* Every invocation in flight stays one of a job the table has, with an attempt
\* number the table has given out.
LEMMA CallsKnownStep ==
  ASSUME TypeOK, CallsKnown, TableStep \/ RunnerStep
  PROVE  CallsKnown'
<1>1. Created \subseteq Created'
  BY TableStepForgetsNothing, RunnerStepForgetsNothing
<1>2. CASE TableStep
  BY <1>1, <1>2 DEF TableStep, CallsKnown
<1>3. CASE RunnerStep
  <2>1. ASSUME NEW w \in Workers, Poll(w), NEW c \in calls' \ calls
        PROVE  c.job \in Created
    <3>1. c.job \in Queued(Recovery, w)
      BY <2>1 DEF Poll, Recovery, NewCalls
    <3>2. QED
      BY <3>1, RecoveryType DEF Queued
  <2>2. ASSUME NEW w \in Workers, NEW i \in JobIds, RunWaitingJob(w, i), NEW c \in calls' \ calls
        PROVE  c.job \in Created
    BY <2>2 DEF RunWaitingJob, RunJob, NewCalls
  <2>3. ASSUME NEW c \in calls, Settle(c)
        PROVE  calls' \subseteq calls
    BY <2>3 DEF Settle, HandlerReturns, HandlerThrows, Leaves
  <2>4. QED
    BY <1>1, <1>3, <2>1, <2>2, <2>3 DEF RunnerStep, CallsKnown
<1>4. QED
  BY <1>2, <1>3

-----------------------------------------------------------------------------
(* Slots.                                                                  *)

\* Slots hold while no job is taken and no invocation settles.
LEMMA TableStepSlots ==
  ASSUME SlotsAreUsed, TableStep
  PROVE  SlotsAreUsed'
BY DEF TableStep, SlotsAreUsed, CallsOf

\* A batch fits the free slots: markRunning adds no more ids than poll sliced off.
LEMMA PollSlots ==
  ASSUME TypeOK, SlotsAreUsed, NEW w \in Workers, Poll(w)
  PROVE  SlotsAreUsed'
<1>1. PICK B \in SUBSET Queued(Recovery, w) :
        LET taken == {m \in B : Recovery[m].key \in Handles[w]} IN
        /\ Cardinality(B) <= FreeSlots(w)
        /\ running' = [running EXCEPT ![w] = @ \cup taken]
        /\ calls' = calls \cup NewCalls(taken, Recovery, w)
  BY DEF Poll, Recovery, IsBatch
<1> DEFINE taken == {m \in B : Recovery[m].key \in Handles[w]}
<1>2. IsFiniteSet(B) /\ IsFiniteSet(taken) /\ IsFiniteSet(running[w])
  <2>1. IsFiniteSet(JobIds)
    BY FS_Interval, SchedulerAssumption DEF JobIds
  <2>2. B \in SUBSET JobIds /\ taken \in SUBSET JobIds /\ running[w] \in SUBSET JobIds
    BY DEF Queued, TypeOK
  <2>3. QED
    BY <2>1, <2>2, FS_Subset
<1>3. Cardinality(running[w] \cup taken) <= MaxConcurrent[w]
  <2>1. taken \in SUBSET B
    OBVIOUS
  <2>2. Cardinality(taken) <= Cardinality(B)
    BY <1>2, <2>1, FS_Subset
  <2>3. /\ IsFiniteSet(running[w] \cup taken)
        /\ Cardinality(running[w] \cup taken) <= Cardinality(running[w]) + Cardinality(taken)
    <3> HIDE DEF taken
    <3>1. /\ IsFiniteSet(running[w] \cup taken)
          /\ IsFiniteSet(running[w] \cap taken)
          /\ Cardinality(running[w] \cup taken) =
               Cardinality(running[w]) + Cardinality(taken) - Cardinality(running[w] \cap taken)
      BY <1>2, FS_Union, FS_Intersection
    <3>2. QED
      BY <1>2, <3>1, FS_CardinalityType
  <2>4. /\ Cardinality(running[w] \cup taken) \in Nat
        /\ Cardinality(running[w]) \in Nat
        /\ Cardinality(taken) \in Nat
        /\ Cardinality(B) \in Nat
    BY <1>2, <2>3, FS_CardinalityType
  <2>5. QED
    BY <1>1, <2>2, <2>3, <2>4, RunnerAssumption DEF FreeSlots
<1>4. ASSUME NEW v \in Workers, NEW j \in running'[v]
      PROVE  \E c \in calls' : c.job = j /\ c.by = v
  <2>1. CASE j \in running[v]
    BY <1>1, <2>1 DEF SlotsAreUsed, CallsOf
  <2>2. CASE j \notin running[v]
    <3>1. v = w /\ j \in taken
      BY <1>1, <2>2 DEF TypeOK
    <3>2. [job |-> j, attempt |-> Recovery[j].attempts + 1, by |-> w] \in calls'
      BY <1>1, <3>1 DEF NewCalls
    <3>3. QED
      BY <3>1, <3>2
  <2>3. QED
    BY <2>1, <2>2
<1>5. \A v \in Workers : Cardinality(running'[v]) <= MaxConcurrent[v]
  BY <1>1, <1>3 DEF SlotsAreUsed, TypeOK
<1>6. QED
  BY <1>4, <1>5 DEF SlotsAreUsed, CallsOf

\* A direct runJob takes one of the free slots.
LEMMA RunJobSlots ==
  ASSUME TypeOK, SlotsAreUsed, NEW w \in Workers, NEW i \in JobIds, RunJob(w, i)
  PROVE  SlotsAreUsed'
<1>1. CASE UNCHANGED <<running, calls>>
  BY <1>1 DEF SlotsAreUsed, CallsOf
<1>2. CASE /\ FreeSlots(w) > 0
           /\ running' = [running EXCEPT ![w] = @ \cup {i}]
           /\ calls' = calls \cup NewCalls({i}, jobs, w)
  <2>1. IsFiniteSet(running[w])
    <3>1. IsFiniteSet(JobIds) /\ running[w] \in SUBSET JobIds
      BY FS_Interval, SchedulerAssumption DEF JobIds, TypeOK
    <3>2. QED
      BY <3>1, FS_Subset
  <2>2. Cardinality(running[w] \cup {i}) <= MaxConcurrent[w]
    <3>1. /\ Cardinality(running[w] \cup {i}) \in {Cardinality(running[w]), Cardinality(running[w]) + 1}
          /\ Cardinality(running[w]) \in Nat
      BY <2>1, FS_AddElement, FS_CardinalityType
    <3>2. QED
      BY <1>2, <3>1, RunnerAssumption DEF FreeSlots
  <2>3. [job |-> i, attempt |-> jobs[i].attempts + 1, by |-> w] \in calls'
    BY <1>2 DEF NewCalls
  <2>4. ASSUME NEW v \in Workers, NEW j \in running'[v]
        PROVE  \E c \in calls' : c.job = j /\ c.by = v
    <3>1. CASE j \in running[v]
      BY <1>2, <3>1 DEF SlotsAreUsed, CallsOf
    <3>2. CASE j \notin running[v]
      BY <1>2, <2>3, <3>2 DEF TypeOK
    <3>3. QED
      BY <3>1, <3>2
  <2>5. \A v \in Workers : Cardinality(running'[v]) <= MaxConcurrent[v]
    BY <1>2, <2>2 DEF SlotsAreUsed, TypeOK
  <2>6. QED
    BY <2>4, <2>5 DEF SlotsAreUsed, CallsOf
<1>3. QED
  BY <1>1, <1>2 DEF RunJob

\* A settled invocation gives its job's id back; the other ids keep theirs.
LEMMA SettleSlots ==
  ASSUME TypeOK, SlotsAreUsed, NEW c \in calls, Settle(c)
  PROVE  SlotsAreUsed'
<1>1. /\ calls' = calls \ {c}
      /\ running' = [running EXCEPT ![c.by] = @ \ {c.job}]
      /\ c.by \in Workers
  BY DEF Settle, HandlerReturns, HandlerThrows, Leaves, TypeOK, Call
<1>2. ASSUME NEW v \in Workers
      PROVE  Cardinality(running'[v]) <= MaxConcurrent[v]
  <2>1. IsFiniteSet(running[v]) /\ running'[v] \in SUBSET running[v]
    <3>1. IsFiniteSet(JobIds) /\ running[v] \in SUBSET JobIds
      BY FS_Interval, SchedulerAssumption DEF JobIds, TypeOK
    <3>2. QED
      BY <1>1, <3>1, FS_Subset DEF TypeOK
  <2>2. /\ Cardinality(running'[v]) <= Cardinality(running[v])
        /\ Cardinality(running'[v]) \in Nat
        /\ Cardinality(running[v]) \in Nat
    BY <2>1, FS_Subset, FS_CardinalityType
  <2>3. QED
    BY <2>2, RunnerAssumption DEF SlotsAreUsed
<1>3. ASSUME NEW v \in Workers, NEW j \in running'[v]
      PROVE  \E d \in calls' : d.job = j /\ d.by = v
  <2>1. j \in running[v] /\ ~(v = c.by /\ j = c.job)
    BY <1>1 DEF TypeOK
  <2>2. QED
    BY <1>1, <2>1 DEF SlotsAreUsed, CallsOf
<1>4. QED
  BY <1>2, <1>3 DEF SlotsAreUsed, CallsOf

-----------------------------------------------------------------------------
(* Invocations without a slot.                                             *)

\* The invocations of job j in flight at runner v.
Own(v, j) == {c \in CallsOf(j) : c.by = v}

\* The invocations a runner has of a job are some of all the invocations of it.
LEMMA OwnAreCalls ==
  ASSUME IInv, NEW v, NEW j \in Created
  PROVE  /\ IsFiniteSet(Own(v, j))
         /\ Cardinality(Own(v, j)) \in Nat
         /\ Cardinality(CallsOf(j)) \in Nat
         /\ Cardinality(Own(v, j)) <= Cardinality(CallsOf(j))
<1>1. IsFiniteSet(CallsOf(j)) /\ Own(v, j) \in SUBSET CallsOf(j)
  BY DEF IInv, JobsOK, JobOK, Own
<1>2. QED
  BY <1>1, FS_Subset, FS_CardinalityType

\* The history of lost leases never shrinks.
LEMMA LapsesGrow ==
  ASSUME TypeOK, Next, NEW j \in JobIds
  PROVE  lapses[j] \in Nat /\ lapses'[j] \in Nat /\ lapses[j] <= lapses'[j]
<1>1. lapses[j] \in Nat
  BY DEF TypeOK, SchedulerTypeOK
<1>2. lapses' = lapses \/ lapses' = LapsesAfterExpiry
  BY DEF Next, TableStep, RunnerStep, Enqueue, Cancel, LeaseLapses, BecomesDue, ExpireStaleJobs,
         Poll, RunWaitingJob, RunJob, Settle, HandlerReturns, HandlerThrows
<1>3. QED
  BY <1>1, <1>2 DEF LapsesAfterExpiry

\* An invocation starts only when lost leases pay for all those in flight, and its
\* job then has a slot.
LEMMA StartsAreCounted ==
  ASSUME IInv, RunnerStep, NEW w \in Workers, NEW j \in JobIds,
         NEW c \in calls', c \notin calls, c.by = w, c.job = j
  PROVE  /\ j \in Created
         /\ CallsOf(j)' = CallsOf(j) \cup {c}
         /\ j \in running'[w]
         /\ Cardinality(CallsOf(j)) <= lapses'[j]
<1>1. ASSUME NEW v \in Workers, Poll(v)
      PROVE  /\ j \in Created
             /\ CallsOf(j)' = CallsOf(j) \cup {c}
             /\ j \in running'[w]
             /\ Cardinality(CallsOf(j)) <= lapses'[j]
  <2>1. c \in CallsOf(j)' /\ c \notin CallsOf(j)
    BY DEF CallsOf
  <2>2. /\ Recovery[j] # Absent
        /\ Recovery[j].status = "QUEUED"
        /\ CallsOf(j)' = CallsOf(j) \cup {NewCall(j, Recovery[j], v)}
        /\ j \in running'[v]
        /\ lapses'[j] = IF Stale(jobs[j]) THEN lapses[j] + 1 ELSE lapses[j]
    BY <1>1, <2>1, PollOnOneJob DEF IInv
  <2>3. c = NewCall(j, Recovery[j], v) /\ v = w
    BY <2>1, <2>2 DEF NewCall
  <2>4. j \in Created
    BY <2>2, RecoveryType DEF IInv
  <2>5. JobOK(Recovery[j], lapses'[j], CallsOf(j))
    <3>1. jobs[j] \in JobRecord /\ lapses[j] \in Nat /\ JobOK(jobs[j], lapses[j], CallsOf(j))
      BY <2>4, CreatedIsRecord DEF IInv, JobsOK, TypeOK, SchedulerTypeOK
    <3>2. QED
      BY <2>2, <3>1, RecoveredOK DEF Recovery
  <2>6. Cardinality(CallsOf(j)) \in Nat /\ lapses'[j] \in Nat
    BY <1>1, <2>4, OwnAreCalls, LapsesGrow DEF IInv, Next, RunnerStep
  <2>7. QED
    BY <2>2, <2>3, <2>4, <2>5, <2>6 DEF JobOK
<1>2. ASSUME NEW v \in Workers, NEW i \in JobIds, RunWaitingJob(v, i)
      PROVE  /\ j \in Created
             /\ CallsOf(j)' = CallsOf(j) \cup {c}
             /\ j \in running'[w]
             /\ Cardinality(CallsOf(j)) <= lapses'[j]
  <2>1. /\ i \in Created
        /\ CanStart(jobs[i])
        /\ running' = [running EXCEPT ![v] = @ \cup {i}]
        /\ calls' = calls \cup NewCalls({i}, jobs, v)
        /\ lapses' = lapses
    BY <1>2 DEF RunWaitingJob, RunJob
  <2>2. c = NewCall(i, jobs[i], v) /\ NewCalls({i}, jobs, v) = {c}
    BY <2>1 DEF NewCalls, NewCall
  <2>3. i = j /\ v = w
    BY <2>2 DEF NewCall
  <2>4. CallsOf(j)' = CallsOf(j) \cup {c}
    BY <2>1, <2>2 DEF CallsOf
  <2>5. Cardinality(CallsOf(j)) <= lapses[j]
    <3>1. JobOK(jobs[j], lapses[j], CallsOf(j)) /\ jobs[j].status \notin {"RUNNING", "CANCELLED"}
      BY <2>1, <2>3 DEF IInv, JobsOK, CanStart, Runnable
    <3>2. Cardinality(CallsOf(j)) \in Nat /\ lapses[j] \in Nat
      BY <2>1, <2>3, OwnAreCalls DEF IInv, TypeOK, SchedulerTypeOK
    <3>3. QED
      BY <3>1, <3>2 DEF JobOK
  <2>6. QED
    BY <2>1, <2>3, <2>4, <2>5 DEF IInv, TypeOK
<1>3. ASSUME NEW d \in calls, Settle(d)
      PROVE  FALSE
  BY <1>3 DEF Settle, HandlerReturns, HandlerThrows, Leaves
<1>4. QED
  BY <1>1, <1>2, <1>3 DEF RunnerStep

\* A Set loses an id only together with an invocation of that job at that runner.
LEMMA SlotsLeaveWithCalls ==
  ASSUME TypeOK, Next, NEW v \in Workers, NEW j \in running[v], j \notin running'[v]
  PROVE  \E c \in Own(v, j) : calls' = calls \ {c}
<1>1. ~TableStep
  BY DEF TableStep
<1>2. ASSUME NEW w \in Workers, Poll(w)
      PROVE  FALSE
  BY <1>2 DEF Poll, TypeOK
<1>3. ASSUME NEW w \in Workers, NEW i \in JobIds, RunWaitingJob(w, i)
      PROVE  FALSE
  BY <1>3 DEF RunWaitingJob, RunJob, TypeOK
<1>4. ASSUME NEW c \in calls, Settle(c)
      PROVE  \E d \in Own(v, j) : calls' = calls \ {d}
  <2>1. /\ calls' = calls \ {c}
        /\ running' = [running EXCEPT ![c.by] = @ \ {c.job}]
    BY <1>4 DEF Settle, HandlerReturns, HandlerThrows, Leaves
  <2>2. c \in Own(v, j)
    BY <2>1 DEF TypeOK, Own, CallsOf
  <2>3. QED
    BY <2>1, <2>2
<1>5. QED
  BY <1>1, <1>2, <1>3, <1>4 DEF Next, RunnerStep

\* A step keeps what a runner's Set leaves out paid for by lost leases.
LEMMA UncountedStep ==
  ASSUME IInv, IInv', OnlyLostLeasesGoUncounted, Next, NEW v \in Workers, NEW j \in JobIds
  PROVE  Cardinality(Own(v, j)') <= lapses'[j] + (IF j \in running'[v] THEN 1 ELSE 0)
<1>1. lapses[j] \in Nat /\ lapses'[j] \in Nat /\ lapses[j] <= lapses'[j]
  BY LapsesGrow DEF IInv
<1>2. Cardinality(Own(v, j)) <= lapses[j] + (IF j \in running[v] THEN 1 ELSE 0)
  BY DEF OnlyLostLeasesGoUncounted, Own
<1>3. /\ IsFiniteSet(Own(v, j))
      /\ Cardinality(Own(v, j)) \in Nat
  <2>1. CASE j \in Created
    BY <2>1, OwnAreCalls
  <2>2. CASE j \notin Created
    <3>1. Own(v, j) = {}
      BY <2>2 DEF IInv, CallsKnown, Own, CallsOf
    <3>2. QED
      BY <3>1, FS_EmptySet
  <2>3. QED
    BY <2>1, <2>2
<1>4. CASE \E c \in calls' : c \notin calls /\ c.by = v /\ c.job = j
  <2>1. PICK c \in calls' : c \notin calls /\ c.by = v /\ c.job = j
    BY <1>4
  <2>2. RunnerStep
    BY <2>1 DEF Next, TableStep
  <2>3. /\ j \in Created
        /\ CallsOf(j)' = CallsOf(j) \cup {c}
        /\ j \in running'[v]
        /\ Cardinality(CallsOf(j)) <= lapses'[j]
    BY <2>1, <2>2, StartsAreCounted
  <2>4. Own(v, j)' = Own(v, j) \cup {c}
    BY <2>1, <2>3 DEF Own
  <2>5. Cardinality(Own(v, j) \cup {c}) <= Cardinality(Own(v, j)) + 1
    BY <1>3, FS_AddElement
  <2>6. /\ Cardinality(Own(v, j)) <= Cardinality(CallsOf(j))
        /\ Cardinality(CallsOf(j)) \in Nat
    BY <2>3, OwnAreCalls
  <2>7. Cardinality(Own(v, j) \cup {c}) \in Nat
    BY <1>3, FS_AddElement, FS_CardinalityType
  <2>8. QED
    BY <1>1, <1>3, <2>3, <2>4, <2>5, <2>6, <2>7
<1>5. CASE ~\E c \in calls' : c \notin calls /\ c.by = v /\ c.job = j
  <2>1. Own(v, j)' \in SUBSET Own(v, j)
    BY <1>5 DEF Own, CallsOf
  <2>2. Cardinality(Own(v, j)') \in Nat /\ Cardinality(Own(v, j)') <= Cardinality(Own(v, j))
    BY <1>3, <2>1, FS_Subset, FS_CardinalityType
  <2>3. CASE j \in running[v] /\ j \notin running'[v]
    <3>1. PICK c \in Own(v, j) : calls' = calls \ {c}
      BY <2>3, SlotsLeaveWithCalls DEF IInv
    <3>2. Own(v, j)' = Own(v, j) \ {c}
      BY <3>1 DEF Own, CallsOf
    <3>3. Cardinality(Own(v, j) \ {c}) = Cardinality(Own(v, j)) - 1
      BY <1>3, FS_RemoveElement
    <3>4. QED
      BY <1>1, <1>2, <1>3, <2>3, <3>2, <3>3
  <2>4. CASE ~(j \in running[v] /\ j \notin running'[v])
    BY <1>1, <1>2, <1>3, <2>2, <2>4
  <2>5. QED
    BY <2>3, <2>4
<1>6. QED
  BY <1>4, <1>5

-----------------------------------------------------------------------------
(* The theorems.                                                           *)

\* Initially there is no job, no invocation and no taken slot.
LEMMA IInvInit == Init => IInv
<1> SUFFICES ASSUME Init PROVE IInv
  OBVIOUS
<1>1. TypeOK
  BY DEF Init, SchedulerInit, TypeOK, SchedulerTypeOK
<1>2. Created = {}
  BY DEF Init, SchedulerInit, Created
<1>3. SlotsAreUsed
  BY FS_EmptySet, RunnerAssumption DEF Init, SlotsAreUsed
<1>4. QED
  BY <1>1, <1>2, <1>3 DEF Init, IInv, JobsOK, CallsKnown

\* Every step keeps the inductive invariant.
LEMMA IInvStep == IInv /\ [Next]_vars => IInv'
<1> SUFFICES ASSUME IInv, [Next]_vars PROVE IInv'
  OBVIOUS
<1>1. CASE TableStep
  BY <1>1, TableStepTyping, TableStepJobsOK, CallsKnownStep, TableStepSlots DEF IInv
<1>2. CASE RunnerStep
  <2>1. TypeOK' /\ CallsKnown'
    BY <1>2, RunnerStepTyping, CallsKnownStep DEF IInv
  <2>2. JobsOK'
    BY <1>2, PollJobsOK, RunWaitingJobJobsOK, SettleJobsOK DEF RunnerStep
  <2>3. SlotsAreUsed'
    BY <1>2, PollSlots, RunJobSlots, SettleSlots DEF RunnerStep, RunWaitingJob, IInv
  <2>4. QED
    BY <2>1, <2>2, <2>3 DEF IInv
<1>3. CASE UNCHANGED vars
  <2>1. TypeOK' /\ CallsKnown' /\ SlotsAreUsed'
    BY <1>3 DEF vars, IInv, TypeOK, SchedulerTypeOK, CallsKnown, SlotsAreUsed, Created, CallsOf
  <2>2. JobsOK'
    BY <1>3, JobUnchanged DEF vars, IInv, JobsOK, Created, CallsOf
  <2>3. QED
    BY <2>1, <2>2 DEF IInv
<1>4. QED
  BY <1>1, <1>2, <1>3 DEF Next

\* The strengthened invariant holds of every behaviour.
THEOREM Strengthened == Spec => []IInv
BY IInvInit, IInvStep, PTL DEF Spec

\* The table, the Sets and the invocations keep their types.
THEOREM Typing == Spec => []TypeOK
<1>1. IInv => TypeOK
  BY DEF IInv
<1>2. QED
  BY <1>1, Strengthened, PTL

\* However many workers poll, a job is executed twice at the same time only
\* after a lease of it was lost.
THEOREM OverlapTheorem == Spec => []OverlapNeedsLostLease
<1>1. IInv => OverlapNeedsLostLease
  BY DEF IInv, JobsOK, JobOK, Accounted, OverlapNeedsLostLease
<1>2. QED
  BY <1>1, Strengthened, PTL

\* A RUNNING job always has its current invocation in flight at its lease holder.
THEOREM RunningTheorem == Spec => []RunningIsExecuted
<1>1. IInv => RunningIsExecuted
  BY DEF IInv, JobsOK, JobOK, Accounted, RunningIsExecuted
<1>2. QED
  BY <1>1, Strengthened, PTL

\* No runner exceeds its limit and no slot leaks.
THEOREM SlotsTheorem == Spec => []SlotsAreUsed
<1>1. IInv => SlotsAreUsed
  BY DEF IInv
<1>2. QED
  BY <1>1, Strengthened, PTL

\* Whatever the runners do, an invocation without a slot was paid for by a lost lease.
THEOREM UncountedTheorem == Spec => []OnlyLostLeasesGoUncounted
<1>1. Init => OnlyLostLeasesGoUncounted
  <2> SUFFICES ASSUME Init, NEW w \in Workers, NEW j \in JobIds
               PROVE  Cardinality({c \in CallsOf(j) : c.by = w}) <=
                        lapses[j] + (IF j \in running[w] THEN 1 ELSE 0)
    BY DEF OnlyLostLeasesGoUncounted
  <2>1. {c \in CallsOf(j) : c.by = w} = {} /\ lapses[j] = 0 /\ running[w] = {}
    BY DEF Init, SchedulerInit, CallsOf
  <2>2. QED
    BY <2>1, FS_EmptySet
<1>2. IInv /\ IInv' /\ OnlyLostLeasesGoUncounted /\ [Next]_vars => OnlyLostLeasesGoUncounted'
  <2> SUFFICES ASSUME IInv, IInv', OnlyLostLeasesGoUncounted, [Next]_vars
               PROVE  OnlyLostLeasesGoUncounted'
    OBVIOUS
  <2>1. CASE Next
    BY <2>1, UncountedStep DEF OnlyLostLeasesGoUncounted, Own
  <2>2. CASE UNCHANGED vars
    BY <2>2 DEF vars, OnlyLostLeasesGoUncounted, CallsOf
  <2>3. QED
    BY <2>1, <2>2
<1>3. QED
  BY <1>1, <1>2, Strengthened, PTL DEF Spec

\* The retry budget is spent before a job is dead-lettered, and exceeded by lost
\* leases only.
THEOREM RetryBudgetTheorem == Spec => []RetryBudget
<1>1. IInv => RetryBudget
  BY DEF IInv, JobsOK, JobOK, Accounted, RetryBudget
<1>2. QED
  BY <1>1, Strengthened, PTL

\* No step of the table or of a runner, with the records it has just read, touches the
\* outcome of a settled job that nobody runs any more.
LEMMA SettledStays ==
  ASSUME TypeOK, [Next]_vars,
         NEW j \in Created, jobs[j].status \in Settled, CallsOf(j) = {}
  PROVE  jobs'[j].status = jobs[j].status /\ jobs'[j].attempts = jobs[j].attempts
<1>1. j \in JobIds /\ jobs[j] \in JobRecord /\ jobs \in [JobIds -> JobRecord \cup {Absent}]
  BY CreatedIsRecord DEF Created, TypeOK, SchedulerTypeOK
<1>2. ~Stale(jobs[j]) /\ Recovered(jobs[j]) = jobs[j]
  BY DEF Stale, Recovered, Settled
<1>3. CASE TableStep
  <2>1. ASSUME NEW k \in Keys, NEW d \in BOOLEAN, NEW i \in {k} \cup CustomKeys, Enqueue(k, i, d)
        PROVE  jobs'[j] = jobs[j]
    BY <1>1, <2>1 DEF Enqueue, Created
  <2>2. ASSUME NEW i \in JobIds, Cancel(i)
        PROVE  jobs'[j] = jobs[j]
    BY <1>1, <2>2 DEF Cancel
  <2>3. ASSUME NEW i \in JobIds, LeaseLapses(i) \/ BecomesDue(i)
        PROVE  /\ jobs'[j].status = jobs[j].status
               /\ jobs'[j].attempts = jobs[j].attempts
    BY <1>1, <2>3 DEF LeaseLapses, BecomesDue, JobRecord
  <2>4. CASE ExpireStaleJobs
    BY <1>1, <1>2, <2>4 DEF ExpireStaleJobs
  <2>5. QED
    BY <1>3, <2>1, <2>2, <2>3, <2>4 DEF TableStep
<1>4. CASE RunnerStep
  <2>1. ASSUME NEW w \in Workers, Poll(w)
        PROVE  jobs'[j] = jobs[j]
    <3>1. Recovery[j] = jobs[j] /\ Recovery[j].status # "QUEUED"
      BY <1>1, <1>2 DEF Recovery, Settled
    <3>2. QED
      BY <1>1, <2>1, <3>1, PollOnOneJob
  <2>2. ASSUME NEW w \in Workers, NEW i \in JobIds, RunWaitingJob(w, i)
        PROVE  jobs'[j] = jobs[j]
    <3>1. i # j
      BY <2>2 DEF RunWaitingJob, Runnable, Settled
    <3>2. QED
      BY <1>1, <2>2, <3>1 DEF RunWaitingJob, RunJob
  <2>3. ASSUME NEW c \in calls, Settle(c)
        PROVE  jobs'[j] = jobs[j]
    <3>1. c.job # j
      BY DEF CallsOf
    <3>2. QED
      BY <1>1, <2>3, <3>1 DEF Settle, HandlerReturns, HandlerThrows
  <2>4. QED
    BY <1>4, <2>1, <2>2, <2>3 DEF RunnerStep
<1>5. CASE UNCHANGED vars
  BY <1>5 DEF vars
<1>6. QED
  BY <1>3, <1>4, <1>5 DEF Next

\* No late answer revives a settled job that nobody runs any more.
THEOREM SettledTheorem == Spec => SettledIsFinal
<1>1. IInv => TypeOK
  BY DEF IInv
<1>2. TypeOK /\ [Next]_vars =>
        \A j \in Created :
          jobs[j].status \in Settled /\ CallsOf(j) = {} =>
            /\ jobs'[j].status = jobs[j].status
            /\ jobs'[j].attempts = jobs[j].attempts
  BY SettledStays
<1>3. QED
  BY <1>1, <1>2, Strengthened, PTL DEF Spec, SettledIsFinal
=============================================================================
