--------------------------- MODULE ScheduledJobs ---------------------------
(***************************************************************************)
(* The database-backed jobs: lib/jobs/scheduler.ts, job-runner.ts and      *)
(* job-events.ts, the job controls of lib/security/runtime-controls.ts,    *)
(* and the routes run-due and run-now of routes/jobs.ts.                   *)
(*                                                                         *)
(* A caller is a request to run-due, which goes through the due schedules, *)
(* or to run-now, which runs one.  Rows of job_runs are in the database;   *)
(* the counts of failures are in the memory of the server, by tenant and   *)
(* job type.  Statements and handlers are awaited, so the steps of         *)
(* different callers interleave.                                           *)
(***************************************************************************)
EXTENDS Naturals, Sequences, FiniteSets

CONSTANTS
  Schedules,   \* rows of scheduled_jobs
  Types,       \* tenant and job type
  TypeOf,      \* [Schedules -> Types]
  Pinned,      \* hourly schedules pinned to an hour of the day
  Callers,
  NoSchedule,
  StormLimit,  \* failures that quarantine a type; 5 in the code
  MaxRuns      \* bound on the runs TLC explores

ASSUME ScheduleAssumption ==
  /\ TypeOf \in [Schedules -> Types]
  /\ Pinned \subseteq Schedules
  /\ IsFiniteSet(Callers)
  /\ NoSchedule \notin Schedules
  /\ StormLimit \in Nat \ {0}
  /\ MaxRuns \in Nat

VARIABLES
  due,       \* schedules that are enabled and whose nextRunAt has come
  runs,      \* rows of job_runs, in the order of their insertion
  failures,  \* [Types -> Nat], the failedJobs map
  caller     \* [Callers -> where the request stands]

jobVars == <<due, runs, failures, caller>>

RunRecord == [type: Types, status: {"RUNNING", "SUCCEEDED", "FAILED"}]

\* "ticks" tells run-due from run-now; "raced" is history: a run of the same type
\* was inserted since the caller looked for one.
Rest == [pc |-> "idle", ticks |-> FALSE, todo |-> {}, job |-> NoSchedule, run |-> 0,
         raced |-> FALSE]

TypeAt(c) == TypeOf[caller[c].job]
RunningRuns(k) == {r \in DOMAIN runs : runs[r].type = k /\ runs[r].status = "RUNNING"}

Moves(c, from, to) ==
  /\ caller[c].pc = from
  /\ caller' = [caller EXCEPT ![c].pc = to]

\* runJob is over: run-due goes on to the schedule, run-now answers.
Leaves(c, from) ==
  /\ caller[c].pc = from
  /\ caller' = [caller EXCEPT ![c] = IF @.ticks THEN [@ EXCEPT !.pc = "advancing"]
                                                ELSE Rest]

-----------------------------------------------------------------------------
(* runDueJobs, up to runJob.                                               *)

RunDueJobs(c) ==
  /\ caller[c] = Rest
  /\ caller' = [caller EXCEPT ![c].pc = "listed", ![c].ticks = TRUE, ![c].todo = due]
  /\ UNCHANGED <<due, runs, failures>>

\* The select of a RUNNING run finds one: the schedule stays due ...
SkipDuplicate(c) ==
  /\ caller[c].pc = "listed"
  /\ \E j \in caller[c].todo :
       /\ RunningRuns(TypeOf[j]) # {}
       /\ caller' = [caller EXCEPT ![c].todo = @ \ {j}]
  /\ UNCHANGED <<due, runs, failures>>

\* A bug the checks must notice: the running run is not looked for.
FindNothing(c) ==
  /\ caller[c].pc = "listed"
  /\ \E j \in caller[c].todo :
       caller' = [caller EXCEPT ![c].pc = "cleared", ![c].job = j, ![c].todo = @ \ {j}]
  /\ UNCHANGED <<due, runs, failures>>

\* ... or none.
FindNoDuplicate(c) ==
  /\ caller[c].pc = "listed"
  /\ \E j \in caller[c].todo :
       /\ RunningRuns(TypeOf[j]) = {}
       /\ caller' = [caller EXCEPT ![c].pc = "cleared", ![c].job = j,
                                   ![c].todo = @ \ {j}]
  /\ UNCHANGED <<due, runs, failures>>

\* run-now looks for no duplicate.
RunNow(c, j) ==
  /\ caller[c] = Rest
  /\ caller' = [caller EXCEPT ![c].pc = "cleared", ![c].job = j]
  /\ UNCHANGED <<due, runs, failures>>

-----------------------------------------------------------------------------
(* runJob.                                                                 *)

\* A bug the checks must notice: one failure more than the limit.
AdmitRunAtLimit(c) ==
  /\ Moves(c, "cleared", "admitted")
  /\ failures[TypeAt(c)] <= StormLimit
  /\ UNCHANGED <<due, runs, failures>>

\* evaluateJobRuntimeControls: a type that failed too often is quarantined.
AdmitRun(c) ==
  /\ Moves(c, "cleared", "admitted")
  /\ failures[TypeAt(c)] < StormLimit
  /\ UNCHANGED <<due, runs, failures>>

QuarantineRun(c) ==
  /\ Leaves(c, "cleared")
  /\ failures[TypeAt(c)] >= StormLimit
  /\ UNCHANGED <<due, runs, failures>>

StartJobRun(c) ==
  LET rival(d) == /\ caller[d].pc \in {"cleared", "admitted"}
                  /\ d # c /\ TypeAt(d) = TypeAt(c) IN
  /\ caller[c].pc = "admitted"
  /\ Len(runs) < MaxRuns
  /\ runs' = Append(runs, [type |-> TypeAt(c), status |-> "RUNNING"])
  /\ caller' = [d \in Callers |->
                  CASE d = c -> [caller[c] EXCEPT !.pc = "running", !.run = Len(runs) + 1]
                    [] rival(d) -> [caller[d] EXCEPT !.raced = TRUE]
                    [] OTHER -> caller[d]]
  /\ UNCHANGED <<due, failures>>

HandlerReturns(c) ==
  /\ Moves(c, "running", "completing")
  /\ UNCHANGED <<due, runs, failures>>

HandlerThrows(c) ==
  /\ Moves(c, "running", "failing")
  /\ UNCHANGED <<due, runs, failures>>

\* A bug the checks must notice: the end of a run is not written.
CompleteNoJobRun(c) == Leaves(c, "completing") /\ UNCHANGED <<due, runs, failures>>

\* A type without a handler succeeds too, and SUCCEEDED stands for SKIPPED, which
\* nothing tells from it.  An update that fails is caught.
CompleteJobRun(c) ==
  /\ \/ /\ Leaves(c, "completing")
        /\ runs' = [runs EXCEPT ![caller[c].run].status = "SUCCEEDED"]
     \/ Moves(c, "completing", "failing") /\ UNCHANGED runs
  /\ UNCHANGED <<due, failures>>

\* Two bugs the checks must notice: the failed run stays RUNNING ...
FailNoJobRun(c) == Moves(c, "failing", "tracking") /\ UNCHANGED <<due, runs, failures>>

\* ... or gets the status of an error that no run has.
FailJobRunAsError(c) ==
  /\ Moves(c, "failing", "tracking")
  /\ runs' = [runs EXCEPT ![caller[c].run].status = "ERROR"]
  /\ UNCHANGED <<due, failures>>

\* failJobRun
FailJobRun(c) ==
  /\ Moves(c, "failing", "tracking")
  /\ runs' = [runs EXCEPT ![caller[c].run].status = "FAILED"]
  /\ UNCHANGED <<due, failures>>

\* trackJobFailure: nothing but a restart takes the count back.
TrackJobFailure(c) ==
  /\ Leaves(c, "tracking")
  /\ failures' = [failures EXCEPT ![TypeAt(c)] = @ + 1]
  /\ UNCHANGED <<due, runs>>

-----------------------------------------------------------------------------
(* After runJob.                                                           *)

\* nextRunAt = calculateNextRun: an hour from now, a day or a week, and then the
\* configured hour of that day, which for an hourly schedule may be past.
AdvanceSchedule(c) ==
  /\ caller[c].pc = "advancing"
  /\ caller' = [caller EXCEPT ![c] = [Rest EXCEPT !.pc = "listed", !.ticks = TRUE,
                                                  !.todo = caller[c].todo]]
  /\ \/ due' = due \ {caller[c].job}
     \/ caller[c].job \in Pinned /\ UNCHANGED due
  /\ UNCHANGED <<runs, failures>>

EndTick(c) ==
  /\ caller[c].pc = "listed" /\ caller[c].todo = {}
  /\ caller' = [caller EXCEPT ![c] = Rest]
  /\ UNCHANGED <<due, runs, failures>>

\* nextRunAt comes.
BecomesDue(j) ==
  /\ j \notin due
  /\ due' = due \cup {j}
  /\ UNCHANGED <<runs, failures, caller>>

\* A statement outside the try block of runJob fails, and the request with it.
AbortCaller(c) ==
  /\ caller[c].pc \notin {"idle", "running", "completing"}
  /\ caller' = [caller EXCEPT ![c] = Rest]
  /\ UNCHANGED <<due, runs, failures>>

\* The server restarts: the rows stay, the counts are gone.
RestartJobs ==
  /\ caller' = [c \in Callers |-> Rest]
  /\ failures' = [k \in Types |-> 0]
  /\ UNCHANGED <<due, runs>>

JobsInit ==
  /\ due = {}
  /\ runs = <<>>
  /\ failures = [k \in Types |-> 0]
  /\ caller = [c \in Callers |-> Rest]

\* What a request that has begun does next, its handler apart.
CallerStep(c) ==
  \/ SkipDuplicate(c) \/ FindNoDuplicate(c) \/ AdmitRun(c) \/ QuarantineRun(c)
  \/ StartJobRun(c) \/ CompleteJobRun(c) \/ FailJobRun(c) \/ TrackJobFailure(c)
  \/ AdvanceSchedule(c) \/ EndTick(c)

JobRequest(c) == RunDueJobs(c) \/ \E j \in Schedules : RunNow(c, j)

CallerRecord ==
  [pc: {"idle", "listed", "cleared", "admitted", "running", "completing",
        "failing", "tracking", "advancing"},
   ticks: BOOLEAN, todo: SUBSET Schedules, job: Schedules \cup {NoSchedule},
   run: 0..MaxRuns, raced: BOOLEAN]

JobsTypeOK ==
  /\ due \subseteq Schedules
  /\ runs \in Seq(RunRecord) /\ Len(runs) <= MaxRuns
  /\ failures \in [Types -> Nat]
  /\ caller \in [Callers -> CallerRecord]
=============================================================================
