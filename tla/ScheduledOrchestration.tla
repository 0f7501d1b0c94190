----------------------- MODULE ScheduledOrchestration -----------------------
(***************************************************************************)
(* The execution orchestration queue under the scheduler: a run of the job *)
(* PROCESS_EXECUTION_ORCHESTRATION_QUEUE (lib/jobs/job-registry.ts) is a   *)
(* pass of ExecutionOrchestration.  Every schedule here is of that job; the*)
(* handlers of other jobs share no state with it.  No operator calls, and  *)
(* no item reaches the 30 minutes of its SLA: both are left to the runs of *)
(* ExecutionOrchestration by itself.                                       *)
(***************************************************************************)
EXTENDS ExecutionOrchestration, ScheduledJobs

ASSUME QueueAssumption == MaxPasses = MaxRuns

VARIABLE handles  \* [Callers -> the pass the caller's handler is, 0 before it begins]

allVars == <<vars, jobVars, handles>>

-----------------------------------------------------------------------------
\* The handler begins a pass; there are as many as runs ...
BeginPass(c) ==
  /\ caller[c].pc = "running" /\ handles[c] = 0
  /\ passes < MaxPasses
  /\ StartPass(passes + 1)
  /\ handles' = [handles EXCEPT ![c] = passes + 1]
  /\ UNCHANGED jobVars

\* ... returns when the pass has gone through its items ...
PassReturns(c) ==
  /\ handles[c] # 0
  /\ pass[handles[c]].pc = "idle"
  /\ HandlerReturns(c)
  /\ handles' = [handles EXCEPT ![c] = 0]
  /\ UNCHANGED vars

\* ... and throws when a statement of the pass fails.
PassThrows(c) ==
  /\ handles[c] # 0
  /\ AbortPass(handles[c])
  /\ HandlerThrows(c)
  /\ handles' = [handles EXCEPT ![c] = 0]

AbortRequest(c) ==
  /\ AbortCaller(c)
  /\ FaultOccurs
  /\ UNCHANGED <<itemVars, plan, dependency, escalations, overdue, pass, call,
                 passes, calls, handles>>

Restart ==
  /\ Crash
  /\ RestartJobs
  /\ handles' = [c \in Callers |-> 0]

ScheduledInit ==
  /\ Init
  /\ JobsInit
  /\ handles = [c \in Callers |-> 0]

\* A request that has begun goes on, and so does the pass it awaits.
RequestStep(c) ==
  \/ CallerStep(c) /\ UNCHANGED <<vars, handles>>
  \/ BeginPass(c) \/ PassReturns(c)

QueueStep(p) == PassStep(p) /\ UNCHANGED <<jobVars, handles>>

ScheduledNext ==
  \/ \E c \in Callers :
       \/ JobRequest(c) /\ UNCHANGED <<vars, handles>>
       \/ RequestStep(c) \/ PassThrows(c) \/ AbortRequest(c)
  \/ \E j \in Schedules : BecomesDue(j) /\ UNCHANGED <<vars, handles>>
  \/ \E p \in Passes : QueueStep(p)
  \/ \E i \in Items : LockAges(i) /\ UNCHANGED <<jobVars, handles>>
  \/ Restart

ScheduledSpec == ScheduledInit /\ [][ScheduledNext]_allVars

\* Nothing but a request starts a tick or a run; once it has begun, the statements,
\* the pass and the engine it awaits answer.
FairScheduledSpec ==
  /\ ScheduledSpec
  /\ \A c \in Callers : WF_allVars(RequestStep(c))
  /\ \A p \in Passes : WF_allVars(QueueStep(p))

-----------------------------------------------------------------------------
(* Properties.                                                             *)

ScheduledTypeOK ==
  /\ TypeOK
  /\ JobsTypeOK
  /\ handles \in [Callers -> 0..MaxPasses]

\* runDueJobs starts a type that is RUNNING already only if that run was inserted
\* after it had looked for one; run-now does not look.
TicksDuplicateInARace ==
  [][\A c \in Callers :
       /\ caller[c].ticks /\ caller[c].pc = "admitted" /\ caller'[c].pc = "running"
       /\ RunningRuns(TypeAt(c)) # {}
       => caller[c].raced]_allVars

\* A storm of failures stops at the limit, but for the runs that were admitted
\* before the count reached it, one for each other request.
StormsAreBounded ==
  \A k \in Types :
    failures[k] + Cardinality({c \in Callers :
                     /\ caller[c].pc \in {"admitted", "running", "completing",
                                          "failing", "tracking"}
                     /\ TypeAt(c) = k}) < StormLimit + Cardinality(Callers)

\* A row that says RUNNING has a request that will settle it, and every pass has
\* such a row.  A fault that leaves a row RUNNING blocks the type: no later tick
\* runs it.
RunningRowsAreAwaited ==
  /\ faults = 0 =>
       \A r \in DOMAIN runs :
         runs[r].status = "RUNNING" =>
           \E c \in Callers : /\ caller[c].run = r
                              /\ caller[c].pc \in {"running", "completing", "failing"}
  /\ \A p \in Passes :
       pass[p].pc # "idle" =>
         \E c \in Callers : /\ handles[c] = p
                            /\ runs[caller[c].run] = [type |-> TypeAt(c), status |-> "RUNNING"]

\* Every run that starts is settled, and so every pass comes to its end, unless a
\* fault intervenes.
RunsAreSettled ==
  LET open(r) == r \in DOMAIN runs /\ runs[r].status = "RUNNING" IN
  \A r \in 1..MaxRuns : open(r) ~> ~open(r) \/ faults > 0

\* Every branch of processReadyItem unlocks its item, so the lock of an item is
\* given back, or grows old, before the run that took it is settled.
LocksAreGivenBack ==
  \A i \in Items :
    item[i].lock = "held" ~> item[i].lock # "held" \/ faults > 0
=============================================================================
