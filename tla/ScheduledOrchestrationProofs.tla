-------------------- MODULE ScheduledOrchestrationProofs --------------------
(***************************************************************************)
(* Proofs about ScheduledOrchestration, for any schedules, types, requests *)
(* and items.  What is proved of the queue by itself carries over: a step  *)
(* of the composition is a step of the queue, or an aborted request, which *)
(* only counts a fault.                                                    *)
(***************************************************************************)
EXTENDS ScheduledOrchestration, ExecutionOrchestrationProofs, FiniteSetTheorems

-----------------------------------------------------------------------------
(* The inductive invariant, in named parts.                                *)

\* The request is between startJobRun and the update that ends the run.
AtRun(c) == caller[c].pc \in {"running", "completing", "failing"}

\* A request that has looked at a schedule knows it.
JobsKnown ==
  \A c \in Callers : caller[c].pc \notin {"idle", "listed"} => caller[c].job \in Schedules

\* A request in its run has a RUNNING row of its own.
RowsOK ==
  /\ \A c \in Callers : AtRun(c) =>
       /\ caller[c].run \in DOMAIN runs
       /\ runs[caller[c].run] = [type |-> TypeAt(c), status |-> "RUNNING"]
  /\ \A c, d \in Callers :
       AtRun(c) /\ AtRun(d) /\ caller[c].run = caller[d].run => c = d

\* A RUNNING row has its request, while there was no fault.
RowsAwaited ==
  faults = 0 =>
    \A r \in DOMAIN runs :
      runs[r].status = "RUNNING" => \E c \in Callers : caller[c].run = r /\ AtRun(c)

\* Only a running handler has a pass, and a pass that has begun has its handler.
HandlesOK ==
  /\ \A c \in Callers : handles[c] # 0 => caller[c].pc = "running"
  /\ \A p \in Passes : pass[p].pc # "idle" => \E c \in Callers : handles[c] = p

\* A tick that found no run of its type, where there is one now, has been overtaken.
TicksOK ==
  \A c \in Callers :
    /\ caller[c].ticks /\ caller[c].pc \in {"cleared", "admitted"}
    /\ RunningRuns(TypeAt(c)) # {}
    => caller[c].raced

\* The requests that may still count a failure of type k.
Pending(k) == {c \in Callers :
                 /\ caller[c].pc \in {"admitted", "running", "completing", "failing", "tracking"}
                 /\ TypeAt(c) = k}

\* What is known of the jobs.
JobsOK == /\ JobsTypeOK /\ JobsKnown
          /\ RowsOK /\ RowsAwaited
          /\ TicksOK
          /\ StormsAreBounded

ScheduledIInv ==
  /\ IInv
  /\ JobsOK
  /\ handles \in [Callers -> 0..MaxPasses]
  /\ HandlesOK

-----------------------------------------------------------------------------
(* Types.                                                                  *)

\* A caller that goes on keeps what it knows.
LEMMA CallerGoes ==
  ASSUME JobsTypeOK, JobsKnown, NEW c \in Callers, NEW from,
         NEW to \in {"admitted", "completing", "failing", "tracking"},
         from \in {"cleared", "running", "completing", "failing"},
         Moves(c, from, to)
  PROVE  caller' \in [Callers -> CallerRecord] /\ JobsKnown'
<1>1. [caller[c] EXCEPT !.pc = to] \in CallerRecord
  BY DEF JobsTypeOK, CallerRecord
<1>2. caller' = [caller EXCEPT ![c] = [caller[c] EXCEPT !.pc = to]]
  BY DEF Moves
<1>3. caller[c].job \in Schedules
  BY DEF JobsKnown, Moves
<1>4. caller[c] \in CallerRecord
  BY DEF JobsTypeOK
<1>5. QED
  BY <1>1, <1>2, <1>3, <1>4 DEF JobsTypeOK, JobsKnown, CallerRecord

\* So does one whose runJob is over.
LEMMA CallerLeaves ==
  ASSUME JobsTypeOK, JobsKnown, NEW c \in Callers, NEW from \in {"cleared", "completing", "tracking"},
         Leaves(c, from)
  PROVE  caller' \in [Callers -> CallerRecord] /\ JobsKnown'
<1>1. caller[c] \in CallerRecord /\ caller[c].job \in Schedules
  BY DEF JobsTypeOK, JobsKnown, Leaves
<1>2. /\ [caller[c] EXCEPT !.pc = "advancing"] \in CallerRecord
      /\ [caller[c] EXCEPT !.pc = "advancing"].job \in Schedules
  BY <1>1 DEF CallerRecord
<1>3. Rest \in CallerRecord /\ Rest.pc = "idle"
  BY ScheduleAssumption DEF Rest, CallerRecord
<1>4. PICK r \in {[caller[c] EXCEPT !.pc = "advancing"], Rest} : caller' = [caller EXCEPT ![c] = r]
  BY DEF Leaves
<1>5. r \in CallerRecord /\ (r.pc \notin {"idle", "listed"} => r.job \in Schedules)
  BY <1>2, <1>3, <1>4
<1>6. QED
  BY <1>4, <1>5 DEF JobsTypeOK, JobsKnown

\* A row that gets a status of a run stays a row.
LEMMA RowSettles ==
  ASSUME JobsTypeOK, NEW r \in DOMAIN runs, NEW status \in {"SUCCEEDED", "FAILED"},
         runs' = [runs EXCEPT ![r].status = status]
  PROVE  /\ runs' \in Seq(RunRecord) /\ Len(runs') <= MaxRuns
         /\ DOMAIN runs' = DOMAIN runs
         /\ runs'[r].status = status
         /\ \A q \in DOMAIN runs : q # r => runs'[q] = runs[q]
<1>1. runs \in Seq(RunRecord)
  BY DEF JobsTypeOK
<1>2. runs[r] \in RunRecord
  BY <1>1
<1>3. [runs[r] EXCEPT !.status = status] \in RunRecord
  BY <1>2 DEF RunRecord
<1>4. runs' = [runs EXCEPT ![r] = [runs[r] EXCEPT !.status = status]]
  OBVIOUS
<1>5. runs' \in Seq(RunRecord) /\ Len(runs') = Len(runs) /\ DOMAIN runs' = DOMAIN runs
  BY <1>1, <1>3, <1>4
<1>6. runs'[r].status = status
  BY <1>2, <1>4 DEF RunRecord
<1>7. QED
  BY <1>4, <1>5, <1>6 DEF JobsTypeOK

\* Every step of a request keeps the variables of the jobs to their types.
LEMMA RequestStepTypes ==
  ASSUME JobsTypeOK, JobsKnown, RowsOK, NEW c \in Callers,
         \/ JobRequest(c) \/ CallerStep(c)
         \/ HandlerReturns(c) \/ HandlerThrows(c) \/ AbortCaller(c)
  PROVE  JobsTypeOK' /\ JobsKnown'
<1>1. /\ caller \in [Callers -> CallerRecord] /\ caller[c] \in CallerRecord
      /\ due \subseteq Schedules
  BY DEF JobsTypeOK
<1>2. ASSUME caller' \in [Callers -> CallerRecord], JobsKnown', UNCHANGED <<due, runs, failures>>
      PROVE  JobsTypeOK' /\ JobsKnown'
  BY <1>2 DEF JobsTypeOK
<1>3. ASSUME NEW r \in CallerRecord, r.pc \notin {"idle", "listed"} => r.job \in Schedules,
             caller' = [caller EXCEPT ![c] = r]
      PROVE  caller' \in [Callers -> CallerRecord] /\ JobsKnown'
  BY <1>1, <1>3 DEF JobsKnown
<1>4. Rest \in CallerRecord /\ Rest.pc = "idle"
  BY ScheduleAssumption DEF Rest, CallerRecord
<1>5. CASE RunDueJobs(c)
  <2> DEFINE r == [caller[c] EXCEPT !.pc = "listed", !.ticks = TRUE, !.todo = due]
  <2>1. r \in CallerRecord /\ r.pc = "listed"
    BY <1>1 DEF CallerRecord
  <2>2. caller' = [caller EXCEPT ![c] = r]
    BY <1>5 DEF RunDueJobs
  <2>3. QED
    BY <1>2, <1>3, <1>5, <2>1, <2>2 DEF RunDueJobs
<1>6. ASSUME NEW j \in Schedules, RunNow(c, j)
      PROVE  JobsTypeOK' /\ JobsKnown'
  <2> DEFINE r == [caller[c] EXCEPT !.pc = "cleared", !.job = j]
  <2>1. r \in CallerRecord /\ r.job \in Schedules
    BY <1>1 DEF CallerRecord
  <2>2. caller' = [caller EXCEPT ![c] = r]
    BY <1>6 DEF RunNow
  <2>3. QED
    BY <1>2, <1>3, <1>6, <2>1, <2>2 DEF RunNow
<1>7. CASE SkipDuplicate(c)
  <2>1. PICK j \in caller[c].todo : caller' = [caller EXCEPT ![c].todo = @ \ {j}]
    BY <1>7 DEF SkipDuplicate
  <2> DEFINE r == [caller[c] EXCEPT !.todo = caller[c].todo \ {j}]
  <2>2. r \in CallerRecord /\ r.pc = "listed"
    BY <1>1, <1>7 DEF CallerRecord, SkipDuplicate
  <2>3. caller' = [caller EXCEPT ![c] = r]
    BY <2>1
  <2>4. QED
    BY <1>2, <1>3, <1>7, <2>2, <2>3 DEF SkipDuplicate
<1>8. CASE FindNoDuplicate(c)
  <2>1. PICK j \in caller[c].todo :
          caller' = [caller EXCEPT ![c].pc = "cleared", ![c].job = j, ![c].todo = @ \ {j}]
    BY <1>8 DEF FindNoDuplicate
  <2> DEFINE r == [caller[c] EXCEPT !.pc = "cleared", !.job = j, !.todo = caller[c].todo \ {j}]
  <2>2. j \in Schedules
    BY <1>1 DEF CallerRecord
  <2>3. r \in CallerRecord /\ r.job \in Schedules
    BY <1>1, <2>2 DEF CallerRecord
  <2>4. caller' = [caller EXCEPT ![c] = r]
    BY <2>1
  <2>5. QED
    BY <1>2, <1>3, <1>8, <2>3, <2>4 DEF FindNoDuplicate
<1>9. CASE AdmitRun(c)
  BY <1>2, <1>9, CallerGoes DEF AdmitRun
<1>10. CASE QuarantineRun(c)
  BY <1>2, <1>10, CallerLeaves DEF QuarantineRun
<1>11. CASE StartJobRun(c)
  <2>1. caller[c].job \in Schedules /\ TypeAt(c) \in Types
    BY <1>11, ScheduleAssumption DEF StartJobRun, JobsKnown, TypeAt
  <2>2. /\ runs' \in Seq(RunRecord) /\ Len(runs') <= MaxRuns
        /\ Len(runs) + 1 \in 0..MaxRuns
    <3>1. [type |-> TypeAt(c), status |-> "RUNNING"] \in RunRecord
      BY <2>1 DEF RunRecord
    <3>2. runs \in Seq(RunRecord) /\ Len(runs) < MaxRuns /\ MaxRuns \in Nat
      BY <1>11, ScheduleAssumption DEF StartJobRun, JobsTypeOK
    <3>3. QED
      BY <1>11, <3>1, <3>2 DEF StartJobRun
  <2>3. /\ [caller[c] EXCEPT !.pc = "running", !.run = Len(runs) + 1] \in CallerRecord
        /\ [caller[c] EXCEPT !.pc = "running", !.run = Len(runs) + 1].job \in Schedules
    BY <1>1, <2>1, <2>2 DEF CallerRecord
  <2>4. \A d \in Callers :
          /\ [caller[d] EXCEPT !.raced = TRUE] \in CallerRecord
          /\ [caller[d] EXCEPT !.raced = TRUE].pc = caller[d].pc
          /\ [caller[d] EXCEPT !.raced = TRUE].job = caller[d].job
    BY <1>1 DEF CallerRecord
  <2>5. \A d \in Callers :
          /\ caller'[d] \in CallerRecord
          /\ caller'[d].pc \notin {"idle", "listed"} => caller'[d].job \in Schedules
    BY <1>1, <1>11, <2>3, <2>4 DEF StartJobRun, JobsKnown
  <2>6. caller' \in [Callers -> CallerRecord]
    BY <1>11, <2>5 DEF StartJobRun
  <2>7. QED
    BY <1>11, <2>2, <2>5, <2>6 DEF StartJobRun, JobsTypeOK, JobsKnown
<1>12. CASE HandlerReturns(c) \/ HandlerThrows(c)
  BY <1>2, <1>12, CallerGoes DEF HandlerReturns, HandlerThrows
<1>13. CASE CompleteJobRun(c)
  <2>1. CASE Leaves(c, "completing") /\ runs' = [runs EXCEPT ![caller[c].run].status = "SUCCEEDED"]
    <3>1. caller[c].run \in DOMAIN runs
      BY <2>1 DEF RowsOK, AtRun, Leaves
    <3>2. QED
      BY <1>13, <2>1, <3>1, CallerLeaves, RowSettles DEF CompleteJobRun, JobsTypeOK
  <2>2. CASE Moves(c, "completing", "failing") /\ UNCHANGED runs
    BY <1>2, <1>13, <2>2, CallerGoes DEF CompleteJobRun
  <2>3. QED
    BY <1>13, <2>1, <2>2 DEF CompleteJobRun
<1>14. CASE FailJobRun(c)
  <2>1. caller[c].run \in DOMAIN runs
    BY <1>14 DEF FailJobRun, RowsOK, AtRun, Moves
  <2>2. /\ Moves(c, "failing", "tracking") /\ UNCHANGED <<due, failures>>
        /\ runs' = [runs EXCEPT ![caller[c].run].status = "FAILED"]
    BY <1>14 DEF FailJobRun
  <2>3. caller' \in [Callers -> CallerRecord] /\ JobsKnown'
    BY <2>2, CallerGoes
  <2>4. QED
    BY <2>1, <2>2, <2>3, RowSettles DEF JobsTypeOK
<1>15. CASE TrackJobFailure(c)
  <2>1. failures' \in [Types -> Nat]
    <3>1. TypeAt(c) \in Types
      BY <1>15, ScheduleAssumption DEF TrackJobFailure, Leaves, JobsKnown, TypeAt
    <3>2. failures[TypeAt(c)] + 1 \in Nat
      BY <3>1 DEF JobsTypeOK
    <3>3. QED
      BY <1>15, <3>2 DEF TrackJobFailure, JobsTypeOK
  <2>2. QED
    BY <1>15, <2>1, CallerLeaves DEF TrackJobFailure, JobsTypeOK
<1>16. CASE AdvanceSchedule(c)
  <2> DEFINE r == [Rest EXCEPT !.pc = "listed", !.ticks = TRUE, !.todo = caller[c].todo]
  <2>1. r \in CallerRecord /\ r.pc = "listed"
    BY <1>1, <1>4 DEF CallerRecord
  <2>2. caller' = [caller EXCEPT ![c] = r] /\ due' \subseteq Schedules
    BY <1>1, <1>16 DEF AdvanceSchedule
  <2>3. QED
    BY <1>3, <1>16, <2>1, <2>2 DEF AdvanceSchedule, JobsTypeOK
<1>17. CASE EndTick(c) \/ AbortCaller(c)
  BY <1>2, <1>3, <1>4, <1>17 DEF EndTick, AbortCaller
<1>18. QED
  BY <1>5, <1>6, <1>7, <1>8, <1>9, <1>10, <1>11, <1>12, <1>13, <1>14, <1>15, <1>16, <1>17
     DEF JobRequest, CallerStep

-----------------------------------------------------------------------------
(* Rows of job_runs and the requests that settle them.                     *)

\* What a step of c leaves as it is.
OthersStay(c) ==
  \A d \in Callers \ {c} : /\ caller'[d].pc = caller[d].pc
                           /\ caller'[d].run = caller[d].run
                           /\ caller'[d].job = caller[d].job

\* A request touches no row, and leaves its own only in a fault;
Aside(c) ==
  /\ OthersStay(c)
  /\ UNCHANGED runs
  /\ AtRun(c)' => AtRun(c) /\ caller'[c].run = caller[c].run /\ caller'[c].job = caller[c].job
  /\ AtRun(c) => AtRun(c)' \/ faults' > faults

\* or inserts one;
Inserts(c) ==
  /\ OthersStay(c)
  /\ ~AtRun(c) /\ AtRun(c)'
  /\ caller'[c].run = Len(runs) + 1 /\ caller'[c].job = caller[c].job
  /\ runs' = Append(runs, [type |-> TypeAt(c), status |-> "RUNNING"])

\* or settles its own.
Ends(c) ==
  /\ OthersStay(c)
  /\ AtRun(c) /\ ~AtRun(c)'
  /\ \E status \in {"SUCCEEDED", "FAILED"} :
       runs' = [runs EXCEPT ![caller[c].run].status = status]

\* Every step of a request is of one of the three kinds.
LEMMA RunsMove ==
  ASSUME JobsTypeOK, NEW c \in Callers,
         \/ JobRequest(c) \/ CallerStep(c) \/ HandlerReturns(c) \/ HandlerThrows(c)
         \/ AbortCaller(c) /\ faults' > faults
  PROVE  Aside(c) \/ Inserts(c) \/ Ends(c)
<1>1. /\ caller \in [Callers -> CallerRecord] /\ caller[c] \in CallerRecord
  BY DEF JobsTypeOK
<1>2. ASSUME NEW r, caller' = [caller EXCEPT ![c] = r]
      PROVE  OthersStay(c) /\ caller'[c] = r
  BY <1>1, <1>2 DEF OthersStay
<1>3. ASSUME NEW r, caller' = [caller EXCEPT ![c] = r], UNCHANGED runs,
             r.pc \notin {"running", "completing", "failing"},
             ~AtRun(c) \/ faults' > faults
      PROVE  Aside(c)
  BY <1>2, <1>3 DEF Aside, AtRun
<1>4. ASSUME NEW from, NEW to, Moves(c, from, to)
      PROVE  /\ OthersStay(c) /\ caller[c].pc = from /\ caller'[c].pc = to
             /\ caller'[c].run = caller[c].run /\ caller'[c].job = caller[c].job
  BY <1>1, <1>4 DEF Moves, OthersStay, CallerRecord
<1>5. ASSUME NEW from, Leaves(c, from)
      PROVE  /\ OthersStay(c) /\ caller[c].pc = from
             /\ caller'[c].pc \in {"advancing", "idle"}
  BY <1>1, <1>5 DEF Leaves, OthersStay, CallerRecord, Rest
<1>6. CASE RunDueJobs(c)
  BY <1>1, <1>6 DEF RunDueJobs, Aside, OthersStay, AtRun, CallerRecord, Rest
<1>7. ASSUME NEW j \in Schedules, RunNow(c, j)
      PROVE  Aside(c)
  BY <1>1, <1>7 DEF RunNow, Aside, OthersStay, AtRun, CallerRecord, Rest
<1>8. CASE SkipDuplicate(c)
  <2>1. PICK j \in caller[c].todo : caller' = [caller EXCEPT ![c].todo = @ \ {j}]
    BY <1>8 DEF SkipDuplicate
  <2>2. caller[c].pc = "listed" /\ UNCHANGED runs
    BY <1>8 DEF SkipDuplicate
  <2>3. QED
    BY <1>1, <2>1, <2>2 DEF Aside, OthersStay, AtRun, CallerRecord
<1>9. CASE FindNoDuplicate(c)
  <2>1. PICK j \in caller[c].todo :
          caller' = [caller EXCEPT ![c].pc = "cleared", ![c].job = j, ![c].todo = @ \ {j}]
    BY <1>9 DEF FindNoDuplicate
  <2>2. caller[c].pc = "listed" /\ UNCHANGED runs
    BY <1>9 DEF FindNoDuplicate
  <2>3. QED
    BY <1>1, <2>1, <2>2 DEF Aside, OthersStay, AtRun, CallerRecord
<1>10. CASE AdmitRun(c) \/ HandlerReturns(c) \/ HandlerThrows(c)
  BY <1>4, <1>10 DEF AdmitRun, HandlerReturns, HandlerThrows, Aside, AtRun
<1>11. CASE QuarantineRun(c) \/ TrackJobFailure(c)
  BY <1>5, <1>11 DEF QuarantineRun, TrackJobFailure, Aside, AtRun
<1>12. CASE StartJobRun(c)
  <2>1. caller'[c] = [caller[c] EXCEPT !.pc = "running", !.run = Len(runs) + 1]
    BY <1>12 DEF StartJobRun
  <2>2. \A d \in Callers \ {c} : caller'[d] \in {caller[d], [caller[d] EXCEPT !.raced = TRUE]}
    BY <1>12 DEF StartJobRun
  <2>3. OthersStay(c)
    BY <1>1, <2>2 DEF OthersStay, CallerRecord
  <2>4. /\ caller'[c].pc = "running" /\ caller'[c].run = Len(runs) + 1
        /\ caller'[c].job = caller[c].job
    BY <1>1, <2>1 DEF CallerRecord
  <2>5. QED
    BY <1>12, <2>3, <2>4 DEF StartJobRun, Inserts, AtRun
<1>13. CASE CompleteJobRun(c)
  <2>1. CASE Leaves(c, "completing") /\ runs' = [runs EXCEPT ![caller[c].run].status = "SUCCEEDED"]
    BY <1>5, <2>1 DEF Ends, AtRun
  <2>2. CASE Moves(c, "completing", "failing") /\ UNCHANGED runs
    BY <1>4, <2>2 DEF Aside, AtRun
  <2>3. QED
    BY <1>13, <2>1, <2>2 DEF CompleteJobRun
<1>14. CASE FailJobRun(c)
  BY <1>4, <1>14 DEF FailJobRun, Ends, AtRun
<1>15. CASE AdvanceSchedule(c)
  <2>1. [Rest EXCEPT !.pc = "listed", !.ticks = TRUE, !.todo = caller[c].todo].pc = "listed"
    BY DEF Rest
  <2>2. QED
    BY <1>3, <1>15, <2>1 DEF AdvanceSchedule, AtRun
<1>16. CASE EndTick(c) \/ (AbortCaller(c) /\ faults' > faults)
  BY <1>3, <1>16 DEF EndTick, AbortCaller, AtRun, Rest
<1>17. QED
  BY <1>6, <1>7, <1>8, <1>9, <1>10, <1>11, <1>12, <1>13, <1>14, <1>15, <1>16
     DEF JobRequest, CallerStep

\* Each of them keeps rows and requests together.
LEMMA RowsStep ==
  ASSUME JobsTypeOK, JobsTypeOK', RowsOK, RowsAwaited, faults \in Nat, faults' \in Nat,
         faults' >= faults, NEW c \in Callers, Aside(c) \/ Inserts(c) \/ Ends(c)
  PROVE  RowsOK' /\ RowsAwaited'
<1>1. runs \in Seq(RunRecord)
  BY DEF JobsTypeOK
<1>2. CASE Aside(c)
  <2>1. \A d \in Callers : AtRun(d)' => /\ AtRun(d)
                                        /\ caller'[d].run = caller[d].run
                                        /\ caller'[d].job = caller[d].job
    BY <1>2 DEF Aside, OthersStay, AtRun
  <2>2. RowsOK'
    BY <1>2, <2>1 DEF Aside, RowsOK, TypeAt
  <2>3. faults' = 0 => faults = 0 /\ \A d \in Callers : AtRun(d) => AtRun(d)' /\ caller'[d].run = caller[d].run
    BY <1>2, <2>1 DEF Aside, OthersStay, AtRun
  <2>4. RowsAwaited'
    BY <1>2, <2>3 DEF Aside, RowsAwaited
  <2>5. QED
    BY <2>2, <2>4
<1>3. CASE Inserts(c)
  <2> DEFINE row == [type |-> TypeAt(c), status |-> "RUNNING"]
             n == Len(runs) + 1
  <2>1. /\ DOMAIN runs = 1..Len(runs) /\ Len(runs) \in Nat
        /\ DOMAIN runs' = 1..n
        /\ runs'[n] = row
        /\ \A r \in DOMAIN runs : runs'[r] = runs[r]
    BY <1>1, <1>3 DEF Inserts
  <2>2. \A d \in Callers : AtRun(d)' =>
          IF d = c THEN caller'[d].run = n /\ TypeAt(d)' = TypeAt(c)
          ELSE AtRun(d) /\ caller'[d].run = caller[d].run /\ TypeAt(d)' = TypeAt(d)
    BY <1>3 DEF Inserts, OthersStay, AtRun, TypeAt
  <2>3. \A d \in Callers : AtRun(d) => caller[d].run \in 1..Len(runs)
    BY <2>1 DEF RowsOK
  <2>4. RowsOK'
    <3>1. ASSUME NEW d \in Callers, AtRun(d)'
          PROVE  /\ caller'[d].run \in DOMAIN runs'
                 /\ runs'[caller'[d].run] = [type |-> TypeAt(d)', status |-> "RUNNING"]
      <4>1. CASE d = c
        BY <2>1, <2>2, <3>1, <4>1
      <4>2. CASE d # c
        <5>1. /\ AtRun(d) /\ caller'[d].run = caller[d].run /\ TypeAt(d)' = TypeAt(d)
              /\ caller[d].run \in 1..Len(runs)
          BY <2>2, <2>3, <3>1, <4>2
        <5>2. runs[caller[d].run] = [type |-> TypeAt(d), status |-> "RUNNING"]
          BY <5>1 DEF RowsOK
        <5>3. QED
          BY <2>1, <5>1, <5>2
      <4>3. QED
        BY <4>1, <4>2
    <3>2. ASSUME NEW d \in Callers, NEW e \in Callers, AtRun(d)', AtRun(e)',
                 caller'[d].run = caller'[e].run
          PROVE  d = e
      BY <2>1, <2>2, <2>3, <3>2 DEF RowsOK
    <3>3. QED
      BY <3>1, <3>2 DEF RowsOK
  <2>5. RowsAwaited'
    <3>1. SUFFICES ASSUME faults' = 0, NEW r \in DOMAIN runs', runs'[r].status = "RUNNING"
                   PROVE  \E d \in Callers : caller'[d].run = r /\ AtRun(d)'
      BY DEF RowsAwaited
    <3>2. CASE r = n
      BY <1>3, <3>2 DEF Inserts
    <3>3. CASE r # n
      <4>1. r \in DOMAIN runs /\ runs[r].status = "RUNNING" /\ faults = 0
        BY <2>1, <3>1, <3>3
      <4>2. PICK d \in Callers : caller[d].run = r /\ AtRun(d)
        BY <4>1 DEF RowsAwaited
      <4>3. d # c
        BY <1>3, <4>2 DEF Inserts
      <4>4. QED
        BY <1>3, <4>2, <4>3 DEF Inserts, OthersStay, AtRun
    <3>4. QED
      BY <3>2, <3>3
  <2>6. QED
    BY <2>4, <2>5
<1>4. CASE Ends(c)
  <2>1. PICK status \in {"SUCCEEDED", "FAILED"} :
          runs' = [runs EXCEPT ![caller[c].run].status = status]
    BY <1>4 DEF Ends
  <2>2. caller[c].run \in DOMAIN runs
    BY <1>4 DEF Ends, RowsOK
  <2>3. /\ DOMAIN runs' = DOMAIN runs
        /\ runs'[caller[c].run].status = status
        /\ \A q \in DOMAIN runs : q # caller[c].run => runs'[q] = runs[q]
    BY <2>1, <2>2, RowSettles
  <2>4. ~AtRun(c)'
    BY <1>4 DEF Ends
  <2>5. \A d \in Callers \ {c} : /\ AtRun(d)' <=> AtRun(d)
                                 /\ caller'[d].run = caller[d].run
                                 /\ TypeAt(d)' = TypeAt(d)
    BY <1>4 DEF Ends, OthersStay, AtRun, TypeAt
  <2>6. \A d \in Callers \ {c} : AtRun(d) => caller[d].run # caller[c].run
    BY <1>4 DEF Ends, RowsOK
  <2>7. RowsOK'
    BY <2>3, <2>4, <2>5, <2>6 DEF RowsOK
  <2>8. RowsAwaited'
    BY <2>3, <2>4, <2>5 DEF RowsAwaited
  <2>9. QED
    BY <2>7, <2>8
<1>5. QED
  BY <1>2, <1>3, <1>4

-----------------------------------------------------------------------------
(* Ticks that look for a running run.                                      *)

\* A tick goes on to its run only with what it found, or with word of a run that
\* was inserted since.
LEMMA TicksStep ==
  ASSUME JobsTypeOK, RowsOK, TicksOK, NEW c \in Callers,
         \/ JobRequest(c) \/ CallerStep(c)
         \/ HandlerReturns(c) \/ HandlerThrows(c) \/ AbortCaller(c)
  PROVE  TicksOK'
<1> DEFINE Looks(d) == caller[d].ticks /\ caller[d].pc \in {"cleared", "admitted"}
<1>1. /\ caller \in [Callers -> CallerRecord] /\ caller[c] \in CallerRecord
      /\ runs \in Seq(RunRecord)
  BY DEF JobsTypeOK
<1>2. ASSUME \A d \in Callers \ {c} : caller'[d] = caller[d],
             UNCHANGED runs,
             Looks(c)' => \/ RunningRuns(TypeOf[caller'[c].job]) = {}
                          \/ /\ Looks(c) /\ caller'[c].raced = caller[c].raced
                             /\ caller'[c].job = caller[c].job
      PROVE  TicksOK'
  BY <1>2 DEF TicksOK, TypeAt, RunningRuns
<1>3. ASSUME NEW r, caller' = [caller EXCEPT ![c] = r],
             r.pc \notin {"cleared", "admitted"}, UNCHANGED runs
      PROVE  TicksOK'
  BY <1>1, <1>2, <1>3
<1>4. ASSUME NEW from, NEW to \in {"admitted", "completing", "failing", "tracking"},
             from = "cleared" \/ to # "admitted",
             Moves(c, from, to), UNCHANGED runs
      PROVE  TicksOK'
  <2>1. /\ \A d \in Callers \ {c} : caller'[d] = caller[d]
        /\ caller[c].pc = from /\ caller'[c].pc = to
        /\ caller'[c].raced = caller[c].raced /\ caller'[c].ticks = caller[c].ticks
        /\ caller'[c].job = caller[c].job
    BY <1>1, <1>4 DEF Moves, CallerRecord
  <2>2. QED
    BY <1>2, <1>4, <2>1
<1>5. ASSUME NEW from, Leaves(c, from)
      PROVE  /\ \A d \in Callers \ {c} : caller'[d] = caller[d]
             /\ caller'[c].pc \in {"advancing", "idle"}
  BY <1>1, <1>5 DEF Leaves, CallerRecord, Rest
<1>6. ASSUME NEW status \in {"SUCCEEDED", "FAILED"}, caller[c].run \in DOMAIN runs,
             runs' = [runs EXCEPT ![caller[c].run].status = status],
             \A d \in Callers \ {c} : caller'[d] = caller[d],
             caller'[c].pc \notin {"cleared", "admitted"}
      PROVE  TicksOK'
  <2>1. /\ DOMAIN runs' = DOMAIN runs
        /\ runs'[caller[c].run].status = status
        /\ \A q \in DOMAIN runs : q # caller[c].run => runs'[q] = runs[q]
    BY <1>6, RowSettles
  <2>2. \A k : RunningRuns(k)' \subseteq RunningRuns(k)
    BY <2>1 DEF RunningRuns
  <2>3. QED
    BY <1>6, <2>2 DEF TicksOK, TypeAt
<1>7. CASE RunDueJobs(c)
  <2>1. caller' = [caller EXCEPT ![c] = [Rest EXCEPT !.pc = "listed", !.ticks = TRUE, !.todo = due]]
    BY <1>1, <1>7 DEF RunDueJobs, CallerRecord
  <2>2. [Rest EXCEPT !.pc = "listed", !.ticks = TRUE, !.todo = due].pc = "listed"
    BY DEF Rest
  <2>3. QED
    BY <1>3, <1>7, <2>1, <2>2 DEF RunDueJobs
<1>8. ASSUME NEW j \in Schedules, RunNow(c, j)
      PROVE  TicksOK'
  <2>1. /\ \A d \in Callers \ {c} : caller'[d] = caller[d]
        /\ ~caller'[c].ticks
    BY <1>1, <1>8 DEF RunNow, CallerRecord, Rest
  <2>2. QED
    BY <1>2, <1>8, <2>1 DEF RunNow
<1>9. CASE SkipDuplicate(c)
  <2>1. PICK j \in caller[c].todo : caller' = [caller EXCEPT ![c].todo = @ \ {j}]
    BY <1>9 DEF SkipDuplicate
  <2>2. caller'[c].pc = "listed" /\ \A d \in Callers \ {c} : caller'[d] = caller[d]
    BY <1>1, <1>9, <2>1 DEF SkipDuplicate, CallerRecord
  <2>3. QED
    BY <1>2, <1>9, <2>2 DEF SkipDuplicate
<1>10. CASE FindNoDuplicate(c)
  <2>1. PICK j \in caller[c].todo :
          /\ RunningRuns(TypeOf[j]) = {}
          /\ caller' = [caller EXCEPT ![c].pc = "cleared", ![c].job = j, ![c].todo = @ \ {j}]
    BY <1>10 DEF FindNoDuplicate
  <2>2. /\ caller'[c].job = j
        /\ \A d \in Callers \ {c} : caller'[d] = caller[d]
    BY <1>1, <2>1 DEF CallerRecord
  <2>3. RunningRuns(TypeOf[caller'[c].job]) = {}
    BY <1>10, <2>1, <2>2 DEF FindNoDuplicate, TypeAt, RunningRuns
  <2>4. QED
    BY <1>2, <1>10, <2>2, <2>3 DEF FindNoDuplicate
<1>11. CASE AdmitRun(c) \/ HandlerReturns(c) \/ HandlerThrows(c)
  BY <1>4, <1>11 DEF AdmitRun, HandlerReturns, HandlerThrows
<1>12. CASE QuarantineRun(c) \/ TrackJobFailure(c)
  BY <1>2, <1>5, <1>12 DEF QuarantineRun, TrackJobFailure
<1>13. CASE StartJobRun(c)
  <2>1. /\ caller'[c].pc = "running"
        /\ \A d \in Callers \ {c} :
             /\ Looks(d)' => Looks(d)
             /\ TypeAt(d)' = TypeAt(d)
             /\ caller[d].raced => caller'[d].raced
             /\ Looks(d) /\ TypeAt(d) = TypeAt(c) => caller'[d].raced
    <3>1. caller'[c] = [caller[c] EXCEPT !.pc = "running", !.run = Len(runs) + 1]
      BY <1>13 DEF StartJobRun
    <3>2. \A d \in Callers \ {c} :
            caller'[d] = IF caller[d].pc \in {"cleared", "admitted"} /\ TypeAt(d) = TypeAt(c)
                         THEN [caller[d] EXCEPT !.raced = TRUE] ELSE caller[d]
      BY <1>13 DEF StartJobRun
    <3>3. \A d \in Callers :
            LET r == [caller[d] EXCEPT !.raced = TRUE] IN
            /\ r.raced /\ r.pc = caller[d].pc /\ r.job = caller[d].job
            /\ r.ticks = caller[d].ticks
      BY <1>1 DEF CallerRecord
    <3>4. caller'[c].pc = "running"
      BY <1>1, <3>1 DEF CallerRecord
    <3>5. \A d \in Callers \ {c} :
            /\ caller'[d].pc = caller[d].pc /\ caller'[d].job = caller[d].job
            /\ caller'[d].ticks = caller[d].ticks
            /\ caller[d].raced => caller'[d].raced
            /\ caller[d].pc \in {"cleared", "admitted"} /\ TypeAt(d) = TypeAt(c)
                 => caller'[d].raced
      BY <3>2, <3>3
    <3>6. QED
      BY <3>4, <3>5 DEF TypeAt
  <2>2. \A k : k # TypeAt(c) => RunningRuns(k)' \subseteq RunningRuns(k)
    <3>1. runs' = Append(runs, [type |-> TypeAt(c), status |-> "RUNNING"])
      BY <1>13 DEF StartJobRun
    <3>2. /\ DOMAIN runs' = DOMAIN runs \cup {Len(runs) + 1}
          /\ runs'[Len(runs) + 1] = [type |-> TypeAt(c), status |-> "RUNNING"]
          /\ \A r \in DOMAIN runs : runs'[r] = runs[r]
      BY <1>1, <3>1
    <3>3. QED
      BY <3>2 DEF RunningRuns
  <2>3. QED
    BY <2>1, <2>2 DEF TicksOK
<1>14. CASE CompleteJobRun(c)
  <2>1. CASE Leaves(c, "completing") /\ runs' = [runs EXCEPT ![caller[c].run].status = "SUCCEEDED"]
    <3>1. caller[c].run \in DOMAIN runs
      BY <2>1 DEF Leaves, RowsOK, AtRun
    <3>2. QED
      BY <1>5, <1>6, <2>1, <3>1
  <2>2. CASE Moves(c, "completing", "failing") /\ UNCHANGED runs
    BY <1>4, <2>2
  <2>3. QED
    BY <1>14, <2>1, <2>2 DEF CompleteJobRun
<1>15. CASE FailJobRun(c)
  <2>1. /\ \A d \in Callers \ {c} : caller'[d] = caller[d]
        /\ caller'[c].pc = "tracking"
    BY <1>1, <1>15 DEF FailJobRun, Moves, CallerRecord
  <2>2. caller[c].run \in DOMAIN runs
    BY <1>15 DEF FailJobRun, Moves, RowsOK, AtRun
  <2>3. QED
    BY <1>6, <1>15, <2>1, <2>2 DEF FailJobRun
<1>16. CASE AdvanceSchedule(c)
  <2>1. [Rest EXCEPT !.pc = "listed", !.ticks = TRUE, !.todo = caller[c].todo].pc = "listed"
    BY DEF Rest
  <2>2. QED
    BY <1>3, <1>16, <2>1 DEF AdvanceSchedule
<1>17. CASE EndTick(c) \/ AbortCaller(c)
  BY <1>3, <1>17 DEF EndTick, AbortCaller, Rest
<1>18. QED
  BY <1>7, <1>8, <1>9, <1>10, <1>11, <1>12, <1>13, <1>14, <1>15, <1>16, <1>17
     DEF JobRequest, CallerStep

-----------------------------------------------------------------------------
(* Storms of failures.                                                     *)

\* A type's count grows by one for a request that then counts no more, and a request
\* joins those that may count only below the limit.
Calm(c, k) ==
  \/ /\ failures'[k] = failures[k]
     /\ Pending(k)' \subseteq Pending(k) \/ failures[k] < StormLimit
  \/ /\ failures'[k] = failures[k] + 1
     /\ c \in Pending(k) /\ Pending(k)' \subseteq Pending(k) \ {c}

\* Such a step keeps the bound.
LEMMA StormHolds ==
  ASSUME JobsTypeOK, StormsAreBounded, NEW c, \A k \in Types : Calm(c, k)
  PROVE  StormsAreBounded'
<1>1. SUFFICES ASSUME NEW k \in Types
               PROVE  failures'[k] + Cardinality(Pending(k)')
                        < StormLimit + Cardinality(Callers)
  BY DEF StormsAreBounded, Pending
<1>2. failures[k] + Cardinality(Pending(k)) < StormLimit + Cardinality(Callers)
  BY DEF StormsAreBounded, Pending
<1>3. /\ IsFiniteSet(Pending(k)) /\ IsFiniteSet(Pending(k)')
      /\ Cardinality(Pending(k)') <= Cardinality(Callers)
  <2>1. Pending(k) \subseteq Callers /\ Pending(k)' \subseteq Callers
    BY DEF Pending
  <2>2. QED
    BY <2>1, ScheduleAssumption, FS_Subset
<1>4. /\ failures[k] \in Nat /\ StormLimit \in Nat
      /\ Cardinality(Pending(k)) \in Nat /\ Cardinality(Pending(k)') \in Nat
      /\ Cardinality(Callers) \in Nat
  BY <1>3, ScheduleAssumption, FS_CardinalityType DEF JobsTypeOK
<1>5. CASE failures'[k] = failures[k] /\ Pending(k)' \subseteq Pending(k)
  <2>1. Cardinality(Pending(k)') <= Cardinality(Pending(k))
    BY <1>3, <1>5, FS_Subset
  <2>2. QED
    BY <1>2, <1>4, <1>5, <2>1
<1>6. CASE failures'[k] = failures[k] /\ failures[k] < StormLimit
  BY <1>3, <1>4, <1>6
<1>7. CASE /\ failures'[k] = failures[k] + 1
           /\ c \in Pending(k) /\ Pending(k)' \subseteq Pending(k) \ {c}
  <2>1. /\ IsFiniteSet(Pending(k) \ {c})
        /\ Cardinality(Pending(k) \ {c}) = Cardinality(Pending(k)) - 1
    BY <1>3, <1>7, FS_RemoveElement
  <2>2. Cardinality(Pending(k)') <= Cardinality(Pending(k) \ {c})
    BY <1>7, <2>1, FS_Subset
  <2>3. QED
    BY <1>2, <1>4, <1>7, <2>1, <2>2
<1>8. QED
  BY <1>5, <1>6, <1>7 DEF Calm

\* Every step of a request is of that kind.
LEMMA StormStep ==
  ASSUME JobsTypeOK, JobsKnown, StormsAreBounded, NEW c \in Callers,
         \/ JobRequest(c) \/ CallerStep(c)
         \/ HandlerReturns(c) \/ HandlerThrows(c) \/ AbortCaller(c)
  PROVE  StormsAreBounded'
<1> DEFINE May == {"admitted", "running", "completing", "failing", "tracking"}
<1>1. /\ caller \in [Callers -> CallerRecord] /\ caller[c] \in CallerRecord
      /\ failures \in [Types -> Nat]
  BY DEF JobsTypeOK
<1>2. ASSUME \A d \in Callers \ {c} : /\ caller'[d].pc = caller[d].pc
                                      /\ caller'[d].job = caller[d].job,
             caller'[c].pc \in May => caller[c].pc \in May /\ caller'[c].job = caller[c].job,
             UNCHANGED failures
      PROVE  StormsAreBounded'
  <2>1. \A k : Pending(k)' \subseteq Pending(k)
    BY <1>2 DEF Pending, TypeAt
  <2>2. QED
    BY <1>2, <2>1, StormHolds DEF Calm
<1>3. ASSUME NEW r, caller' = [caller EXCEPT ![c] = r], r.pc \notin May, UNCHANGED failures
      PROVE  StormsAreBounded'
  BY <1>1, <1>2, <1>3
<1>4. ASSUME NEW from, NEW to, Moves(c, from, to)
      PROVE  /\ \A d \in Callers \ {c} : /\ caller'[d].pc = caller[d].pc
                                         /\ caller'[d].job = caller[d].job
             /\ caller[c].pc = from /\ caller'[c].pc = to /\ caller'[c].job = caller[c].job
  BY <1>1, <1>4 DEF Moves, CallerRecord
<1>5. ASSUME NEW from, Leaves(c, from)
      PROVE  /\ \A d \in Callers \ {c} : caller'[d] = caller[d]
             /\ caller[c].pc = from /\ caller'[c].pc \in {"advancing", "idle"}
  BY <1>1, <1>5 DEF Leaves, CallerRecord, Rest
<1>6. CASE RunDueJobs(c)
  <2>1. /\ \A d \in Callers \ {c} : caller'[d] = caller[d]
        /\ caller'[c].pc = "listed"
    BY <1>1, <1>6 DEF RunDueJobs, CallerRecord
  <2>2. QED
    BY <1>2, <1>6, <2>1 DEF RunDueJobs
<1>7. ASSUME NEW j \in Schedules, RunNow(c, j)
      PROVE  StormsAreBounded'
  <2>1. /\ \A d \in Callers \ {c} : caller'[d] = caller[d]
        /\ caller'[c].pc = "cleared"
    BY <1>1, <1>7 DEF RunNow, CallerRecord
  <2>2. QED
    BY <1>2, <1>7, <2>1 DEF RunNow
<1>8. CASE SkipDuplicate(c)
  <2>1. PICK j \in caller[c].todo : caller' = [caller EXCEPT ![c].todo = @ \ {j}]
    BY <1>8 DEF SkipDuplicate
  <2>2. caller'[c].pc = "listed" /\ \A d \in Callers \ {c} : caller'[d] = caller[d]
    BY <1>1, <1>8, <2>1 DEF SkipDuplicate, CallerRecord
  <2>3. QED
    BY <1>2, <1>8, <2>2 DEF SkipDuplicate
<1>9. CASE FindNoDuplicate(c)
  <2>1. PICK j \in caller[c].todo :
          caller' = [caller EXCEPT ![c].pc = "cleared", ![c].job = j, ![c].todo = @ \ {j}]
    BY <1>9 DEF FindNoDuplicate
  <2>2. caller'[c].pc = "cleared" /\ \A d \in Callers \ {c} : caller'[d] = caller[d]
    BY <1>1, <2>1 DEF CallerRecord
  <2>3. QED
    BY <1>2, <1>9, <2>2 DEF FindNoDuplicate
<1>10. CASE AdmitRun(c)
  <2>1. /\ Moves(c, "cleared", "admitted") /\ UNCHANGED failures
        /\ failures[TypeAt(c)] < StormLimit
    BY <1>10 DEF AdmitRun
  <2>2. \A k : k # TypeAt(c) => Pending(k)' \subseteq Pending(k)
    BY <1>4, <2>1 DEF Pending, TypeAt
  <2>3. QED
    BY <2>1, <2>2, StormHolds DEF Calm
<1>11. CASE QuarantineRun(c)
  BY <1>2, <1>5, <1>11 DEF QuarantineRun
<1>12. CASE StartJobRun(c)
  <2>1. caller'[c] = [caller[c] EXCEPT !.pc = "running", !.run = Len(runs) + 1]
    BY <1>12 DEF StartJobRun
  <2>2. \A d \in Callers \ {c} : caller'[d] \in {caller[d], [caller[d] EXCEPT !.raced = TRUE]}
    BY <1>12 DEF StartJobRun
  <2>3. \A d \in Callers \ {c} : /\ caller'[d].pc = caller[d].pc
                                 /\ caller'[d].job = caller[d].job
    BY <1>1, <2>2 DEF CallerRecord
  <2>4. caller[c].pc = "admitted" /\ caller'[c].job = caller[c].job
    BY <1>1, <1>12, <2>1 DEF StartJobRun, CallerRecord
  <2>5. QED
    BY <1>2, <1>12, <2>3, <2>4 DEF StartJobRun
<1>13. CASE HandlerReturns(c) \/ HandlerThrows(c)
  BY <1>2, <1>4, <1>13 DEF HandlerReturns, HandlerThrows
<1>14. CASE CompleteJobRun(c)
  BY <1>2, <1>4, <1>5, <1>14 DEF CompleteJobRun
<1>15. CASE FailJobRun(c)
  BY <1>2, <1>4, <1>15 DEF FailJobRun
<1>16. CASE TrackJobFailure(c)
  <2>1. /\ \A d \in Callers \ {c} : caller'[d] = caller[d]
        /\ caller[c].pc = "tracking" /\ caller'[c].pc \in {"advancing", "idle"}
    BY <1>5, <1>16 DEF TrackJobFailure
  <2>2. failures' = [failures EXCEPT ![TypeAt(c)] = @ + 1]
    BY <1>16 DEF TrackJobFailure
  <2>3. \A k : Pending(k)' \subseteq Pending(k) \ {c}
    BY <2>1 DEF Pending, TypeAt
  <2>4. c \in Pending(TypeAt(c))
    BY <2>1 DEF Pending
  <2>5. \A k \in Types : failures'[k] = IF k = TypeAt(c) THEN failures[k] + 1 ELSE failures[k]
    BY <1>1, <2>2
  <2>6. QED
    BY <2>3, <2>4, <2>5, StormHolds DEF Calm
<1>17. CASE AdvanceSchedule(c)
  <2>1. [Rest EXCEPT !.pc = "listed", !.ticks = TRUE, !.todo = caller[c].todo].pc = "listed"
    BY DEF Rest
  <2>2. QED
    BY <1>3, <1>17, <2>1 DEF AdvanceSchedule
<1>18. CASE EndTick(c) \/ AbortCaller(c)
  BY <1>3, <1>18 DEF EndTick, AbortCaller, Rest
<1>19. QED
  BY <1>6, <1>7, <1>8, <1>9, <1>10, <1>11, <1>12, <1>13, <1>14, <1>15, <1>16, <1>17, <1>18
     DEF JobRequest, CallerStep

-----------------------------------------------------------------------------
(* The jobs as a whole.                                                    *)

\* Every step of a request keeps what is known of the jobs.
LEMMA JobsStep ==
  ASSUME JobsOK, faults \in Nat, faults' \in Nat, faults' >= faults, NEW c \in Callers,
         \/ JobRequest(c) \/ CallerStep(c) \/ HandlerReturns(c) \/ HandlerThrows(c)
         \/ AbortCaller(c) /\ faults' > faults
  PROVE  JobsOK' /\ OthersStay(c)
<1>1. JobsTypeOK' /\ JobsKnown'
  BY RequestStepTypes DEF JobsOK
<1>2. Aside(c) \/ Inserts(c) \/ Ends(c)
  BY RunsMove DEF JobsOK
<1>3. OthersStay(c)
  BY <1>2 DEF Aside, Inserts, Ends
<1>4. RowsOK' /\ RowsAwaited'
  BY <1>1, <1>2, RowsStep DEF JobsOK
<1>5. TicksOK' /\ StormsAreBounded'
  BY TicksStep, StormStep DEF JobsOK
<1>6. QED
  BY <1>1, <1>3, <1>4, <1>5 DEF JobsOK

\* So does a step that leaves runs, counts and requests alone.
LEMMA JobsStay ==
  ASSUME JobsOK, UNCHANGED <<runs, failures, caller>>, due' \subseteq Schedules,
         faults \in Nat, faults' \in Nat, faults' >= faults
  PROVE  JobsOK'
<1>1. JobsTypeOK' /\ JobsKnown'
  BY DEF JobsOK, JobsTypeOK, JobsKnown
<1>2. RowsOK' /\ TicksOK' /\ StormsAreBounded'
  BY DEF JobsOK, RowsOK, AtRun, TypeAt, TicksOK, RunningRuns, StormsAreBounded
<1>3. RowsAwaited'
  BY DEF JobsOK, RowsAwaited, AtRun
<1>4. QED
  BY <1>1, <1>2, <1>3 DEF JobsOK

\* And a restart.
LEMMA JobsRestart ==
  ASSUME JobsOK, RestartJobs, faults' > 0
  PROVE  JobsOK'
<1>1. Rest \in CallerRecord /\ Rest.pc = "idle" /\ \A c \in Callers : caller'[c] = Rest
  BY ScheduleAssumption DEF Rest, CallerRecord, RestartJobs
<1>2. JobsTypeOK' /\ JobsKnown'
  BY <1>1 DEF RestartJobs, JobsOK, JobsTypeOK, JobsKnown
<1>3. RowsOK' /\ RowsAwaited' /\ TicksOK'
  BY <1>1 DEF RowsOK, RowsAwaited, TicksOK, AtRun
<1>4. StormsAreBounded'
  <2>1. SUFFICES ASSUME NEW k \in Types
                 PROVE  failures'[k] + Cardinality(Pending(k)')
                          < StormLimit + Cardinality(Callers)
    BY DEF StormsAreBounded, Pending
  <2>2. Pending(k)' = {} /\ failures'[k] = 0
    BY <1>1 DEF Pending, RestartJobs
  <2>3. Cardinality(Pending(k)') = 0 /\ Cardinality(Callers) \in Nat
    BY <2>2, ScheduleAssumption, FS_EmptySet, FS_CardinalityType
  <2>4. QED
    BY <2>2, <2>3, ScheduleAssumption
<1>5. QED
  BY <1>2, <1>3, <1>4 DEF JobsOK

-----------------------------------------------------------------------------
(* The composition.                                                        *)

\* A fault that touches nothing of the queue keeps what is known of it.
LEMMA FaultKeeps ==
  ASSUME IInv, FaultOccurs,
         UNCHANGED <<itemVars, plan, dependency, escalations, overdue, pass, call,
                     passes, calls>>
  PROVE  IInv'
<1>1. faults' \in 0..MaxFaults /\ faults' > 0
  BY OrchestrationAssumption DEF FaultOccurs, IInv, Known, TypeOK
<1>2. Known'
  BY <1>1 DEF IInv, Known, TypeOK, PassesOK, CallsOK, itemVars
<1>3. LocksOK' /\ WorkersExclude' /\ ReadyOK' /\ RacesOK'
  BY DEF IInv, LocksOK, WorkersExclude, AtWork, ReadyOK, RacesOK, HasRead, itemVars
<1>4. RecordsOK' /\ HeldLocksHavePasses'
  BY <1>1, OrchestrationAssumption DEF IInv, RecordsOK, OnRecord, HeldLocksHavePasses, itemVars
<1>5. QED
  BY <1>2, <1>3, <1>4 DEF IInv

\* A step of pass p leaves every other pass where it stands.
LEMMA PassesApart ==
  ASSUME TypeOK, NEW p \in Passes, StartPass(p) \/ PassStep(p), NEW q \in Passes, q # p
  PROVE  pass'[q].pc = pass[q].pc
<1>1. pass \in [Passes -> PassRecord]
  BY DEF TypeOK
<1>2. ASSUME NEW from, NEW to, NEW status, PassSettles(p, from, to, status)
      PROVE  pass'[q].pc = pass[q].pc
  BY <1>2, Settlement DEF Bereft
<1>3. ASSUME NEW from, NEW to, PassGoes(p, from, to) \/ PassLeaves(p, from, to)
      PROVE  pass'[q].pc = pass[q].pc
  BY <1>1, <1>3 DEF PassGoes, PassLeaves
<1>4. CASE ListActive(p) \/ WithinSla(p) \/ RecordBreach(p) \/ SelectReady(p) \/ TakeItem(p)
  BY <1>1, <1>4 DEF ListActive, WithinSla, RecordBreach, SelectReady, TakeItem
<1>5. CASE \/ StartPass(p) \/ EscalateBreached(p) \/ EndPass(p) \/ RecordBlock(p)
           \/ EscalateBlocked(p) \/ MarkRunning(p) \/ EngineAnswers(p)
           \/ CreateVerificationTask(p) \/ CountAttempt(p)
  BY <1>3, <1>5 DEF StartPass, EscalateBreached, EndPass, RecordBlock, EscalateBlocked,
     MarkRunning, EngineAnswers, CreateVerificationTask, CountAttempt
<1>6. CASE BlockByControls(p) \/ BlockForApproval(p) \/ MarkSucceeded(p) \/ MarkFailed(p)
  BY <1>2, <1>3, <1>6 DEF BlockByControls, BlockForApproval, MarkSucceeded, MarkFailed
<1>7. QED
  BY <1>4, <1>5, <1>6 DEF PassStep

\* An idle pass takes no step but the first.
LEMMA PassHasBegun ==
  ASSUME NEW p \in Passes, PassStep(p)
  PROVE  pass[p].pc # "idle"
BY DEF PassStep, ListActive, WithinSla, RecordBreach, EscalateBreached, SelectReady, TakeItem,
   EndPass, BlockByControls, RecordBlock, EscalateBlocked, BlockForApproval, MarkRunning,
   EngineAnswers, MarkSucceeded, CreateVerificationTask, CountAttempt, MarkFailed,
   PassGoes, PassLeaves, PassSettles

\* A step of the composition is a step of the queue, unless it is an aborted request.
LEMMA QueueMoves ==
  ASSUME ScheduledIInv, [ScheduledNext]_allVars
  PROVE  \/ [Next]_vars
         \/ /\ FaultOccurs
            /\ UNCHANGED <<itemVars, plan, dependency, escalations, overdue, pass, call,
                          passes, calls>>
<1>1. TypeOK
  BY DEF ScheduledIInv, IInv, Known
<1>2. ASSUME NEW c \in Callers, BeginPass(c)
      PROVE  Next
  <2>1. passes + 1 \in Passes
    BY <1>1, <1>2, OrchestrationAssumption DEF BeginPass, TypeOK, Passes
  <2>2. QED
    BY <1>2, <2>1 DEF BeginPass, Next
<1>3. ASSUME NEW c \in Callers, PassThrows(c)
      PROVE  Next
  <2>1. handles[c] \in Passes
    BY <1>3, OrchestrationAssumption DEF PassThrows, ScheduledIInv, Passes
  <2>2. QED
    BY <1>3, <2>1 DEF PassThrows, Next
<1>4. QED
  BY <1>2, <1>3 DEF ScheduledNext, RequestStep, PassReturns, QueueStep, Restart,
     AbortRequest, Next, allVars

\* Every step keeps what is known of the queue.
LEMMA QueueKept ==
  ASSUME ScheduledIInv, [ScheduledNext]_allVars
  PROVE  IInv' /\ faults \in Nat /\ faults' \in Nat /\ faults' >= faults
<1>1. IInv /\ TypeOK
  BY DEF ScheduledIInv, IInv, Known
<1>2. CASE [Next]_vars
  <2>1. IInv' /\ TypeOK'
    BY <1>1, <1>2, InvariantStep DEF IInv, Known
  <2>2. QED
    BY <1>1, <1>2, <2>1, RecordsGrow, OrchestrationAssumption DEF TypeOK
<1>3. CASE /\ FaultOccurs
           /\ UNCHANGED <<itemVars, plan, dependency, escalations, overdue, pass, call,
                         passes, calls>>
  <2>1. IInv'
    BY <1>1, <1>3, FaultKeeps
  <2>2. QED
    BY <1>1, <1>3, <2>1, OrchestrationAssumption DEF FaultOccurs, TypeOK
<1>4. QED
  BY <1>2, <1>3, QueueMoves

\* A step of a pass leaves the handlers with their passes.
LEMMA HandlesStay ==
  ASSUME TypeOK, HandlesOK, NEW p \in Passes, PassStep(p),
         UNCHANGED <<jobVars, handles>>
  PROVE  HandlesOK'
<1>1. \A q \in Passes : pass'[q].pc # "idle" => pass[q].pc # "idle"
  BY PassesApart, PassHasBegun
<1>2. QED
  BY <1>1 DEF HandlesOK, jobVars

\* Every step keeps the invariant.
LEMMA ScheduledStep ==
  ASSUME ScheduledIInv, [ScheduledNext]_allVars
  PROVE  ScheduledIInv'
<1>1. /\ TypeOK /\ JobsOK /\ HandlesOK
      /\ handles \in [Callers -> 0..MaxPasses]
      /\ \A p \in Passes : p \in 0..MaxPasses /\ p # 0
  BY OrchestrationAssumption DEF ScheduledIInv, IInv, Known, Passes
<1>2. IInv' /\ faults \in Nat /\ faults' \in Nat /\ faults' >= faults
  BY QueueKept
<1>3. ASSUME JobsOK', handles' \in [Callers -> 0..MaxPasses], HandlesOK'
      PROVE  ScheduledIInv'
  BY <1>2, <1>3 DEF ScheduledIInv
<1>4. ASSUME NEW c \in Callers,
             JobRequest(c) \/ CallerStep(c) \/ (AbortCaller(c) /\ faults' > faults),
             UNCHANGED <<pass, handles>>
      PROVE  ScheduledIInv'
  <2>1. JobsOK' /\ OthersStay(c)
    BY <1>1, <1>2, <1>4, JobsStep
  <2>2. caller[c].pc # "running"
    <3>1. CASE JobRequest(c)
      BY <3>1 DEF JobRequest, RunDueJobs, RunNow, Rest
    <3>2. CASE CallerStep(c)
      BY <3>2 DEF CallerStep, SkipDuplicate, FindNoDuplicate, AdmitRun, QuarantineRun,
         StartJobRun, CompleteJobRun, FailJobRun, TrackJobFailure, AdvanceSchedule, EndTick,
         Moves, Leaves
    <3>3. CASE AbortCaller(c)
      BY <3>3 DEF AbortCaller
    <3>4. QED
      BY <1>4, <3>1, <3>2, <3>3
  <2>3. HandlesOK'
    BY <1>1, <1>4, <2>1, <2>2 DEF HandlesOK, OthersStay
  <2>4. QED
    BY <1>1, <1>3, <1>4, <2>1, <2>3
<1>5. ASSUME NEW c \in Callers, BeginPass(c)
      PROVE  ScheduledIInv'
  <2>1. passes + 1 \in Passes
    BY <1>1, <1>5, OrchestrationAssumption DEF BeginPass, TypeOK, Passes
  <2>2. JobsOK'
    BY <1>1, <1>2, <1>5, JobsStay DEF BeginPass, jobVars, JobsOK, JobsTypeOK
  <2>3. handles' \in [Callers -> 0..MaxPasses]
    BY <1>1, <1>5, <2>1 DEF BeginPass
  <2>4. HandlesOK'
    <3>1. \A q \in Passes : pass'[q].pc # "idle" => q = passes + 1 \/ pass[q].pc # "idle"
      BY <1>1, <1>5, <2>1, PassesApart DEF BeginPass
    <3>2. /\ handles'[c] = passes + 1 /\ handles[c] = 0
          /\ \A d \in Callers \ {c} : handles'[d] = handles[d]
          /\ caller[c].pc = "running" /\ caller' = caller
      BY <1>1, <1>5 DEF BeginPass, jobVars
    <3>3. \A q \in Passes : pass'[q].pc # "idle" => \E d \in Callers : handles'[d] = q
      BY <1>1, <3>1, <3>2 DEF HandlesOK
    <3>4. QED
      BY <1>1, <3>2, <3>3 DEF HandlesOK
  <2>5. QED
    BY <1>3, <2>2, <2>3, <2>4
<1>6. ASSUME NEW c \in Callers, handles[c] # 0,
             handles' = [handles EXCEPT ![c] = 0],
             HandlerReturns(c) \/ HandlerThrows(c),
             \A q \in Passes : pass'[q].pc # "idle" => pass[q].pc # "idle" /\ q # handles[c]
      PROVE  ScheduledIInv'
  <2>1. JobsOK' /\ OthersStay(c)
    BY <1>1, <1>2, <1>6, JobsStep
  <2>2. handles' \in [Callers -> 0..MaxPasses]
    BY <1>1, <1>6, OrchestrationAssumption
  <2>3. HandlesOK'
    BY <1>1, <1>6, <2>1 DEF HandlesOK, OthersStay
  <2>4. QED
    BY <1>3, <2>1, <2>2, <2>3
<1>7. ASSUME NEW c \in Callers, PassReturns(c)
      PROVE  ScheduledIInv'
  <2>1. \A q \in Passes : pass'[q].pc # "idle" => pass[q].pc # "idle" /\ q # handles[c]
    BY <1>7 DEF PassReturns, vars
  <2>2. QED
    BY <1>6, <1>7, <2>1 DEF PassReturns
<1>8. ASSUME NEW c \in Callers, PassThrows(c)
      PROVE  ScheduledIInv'
  <2>1. pass' = [pass EXCEPT ![handles[c]] = Waiting]
    BY <1>8 DEF PassThrows, AbortPass
  <2>2. \A q \in Passes : pass'[q].pc # "idle" => pass[q].pc # "idle" /\ q # handles[c]
    BY <1>1, <2>1 DEF TypeOK, Waiting
  <2>3. QED
    BY <1>6, <1>8, <2>2 DEF PassThrows
<1>9. ASSUME NEW c \in Callers, AbortRequest(c)
      PROVE  ScheduledIInv'
  BY <1>2, <1>4, <1>9 DEF AbortRequest, FaultOccurs
<1>10. ASSUME NEW j \in Schedules, BecomesDue(j), UNCHANGED <<vars, handles>>
       PROVE  ScheduledIInv'
  <2>1. due' \subseteq Schedules
    BY <1>1, <1>10 DEF BecomesDue, JobsOK, JobsTypeOK
  <2>2. JobsOK'
    BY <1>1, <1>2, <1>10, <2>1, JobsStay DEF BecomesDue
  <2>3. HandlesOK'
    BY <1>1, <1>10 DEF BecomesDue, HandlesOK, vars
  <2>4. QED
    BY <1>1, <1>3, <1>10, <2>2, <2>3
<1>11. ASSUME UNCHANGED <<jobVars, handles>>, HandlesOK'
       PROVE  ScheduledIInv'
  <2>1. JobsOK'
    BY <1>1, <1>2, <1>11, JobsStay DEF jobVars, JobsOK, JobsTypeOK
  <2>2. QED
    BY <1>1, <1>3, <1>11, <2>1
<1>12. ASSUME NEW p \in Passes, QueueStep(p)
       PROVE  ScheduledIInv'
  BY <1>1, <1>11, <1>12, HandlesStay DEF QueueStep
<1>13. ASSUME NEW i \in Items, LockAges(i), UNCHANGED <<jobVars, handles>>
       PROVE  ScheduledIInv'
  <2>1. \A q \in Passes : pass'[q].pc = pass[q].pc
    BY <1>1, <1>13, LossOfLock DEF LockAges, Bereft
  <2>2. HandlesOK'
    BY <1>1, <1>13, <2>1 DEF HandlesOK, jobVars
  <2>3. QED
    BY <1>11, <1>13, <2>2
<1>14. CASE Restart
  <2>1. faults' > 0
    BY <1>2, <1>14 DEF Restart, Crash, FaultOccurs
  <2>2. JobsOK'
    BY <1>1, <1>14, <2>1, JobsRestart DEF Restart
  <2>3. handles' \in [Callers -> 0..MaxPasses] /\ \A c \in Callers : handles'[c] = 0
    BY <1>14, OrchestrationAssumption DEF Restart
  <2>4. \A q \in Passes : pass'[q].pc = "idle"
    BY <1>14 DEF Restart, Crash, Waiting
  <2>5. QED
    BY <1>3, <2>2, <2>3, <2>4 DEF HandlesOK
<1>15. CASE UNCHANGED allVars
  BY <1>1, <1>11, <1>15 DEF allVars, vars, jobVars, HandlesOK
<1>16. ASSUME NEW c \in Callers, \/ JobRequest(c) /\ UNCHANGED <<vars, handles>>
                                 \/ RequestStep(c)
       PROVE  ScheduledIInv'
  BY <1>4, <1>5, <1>7, <1>16 DEF RequestStep, vars
<1>17. QED
  BY <1>8, <1>9, <1>10, <1>12, <1>13, <1>14, <1>15, <1>16 DEF ScheduledNext

\* The invariant holds from the start, and for ever.
LEMMA ScheduledInvariance ==
  ScheduledSpec => []ScheduledIInv
<1>1. ScheduledInit => ScheduledIInv
  <2> SUFFICES ASSUME ScheduledInit
               PROVE  ScheduledIInv
    OBVIOUS
  <2>1. IInv
    BY InvariantInit DEF ScheduledInit
  <2>2. Rest \in CallerRecord /\ Rest.pc = "idle" /\ \A c \in Callers : caller[c] = Rest
    BY ScheduleAssumption DEF Rest, CallerRecord, ScheduledInit, JobsInit
  <2>3. JobsTypeOK /\ JobsKnown
    BY <2>2, ScheduleAssumption DEF ScheduledInit, JobsInit, JobsTypeOK, JobsKnown
  <2>4. RowsOK /\ RowsAwaited /\ TicksOK
    BY <2>2 DEF RowsOK, RowsAwaited, TicksOK, AtRun, ScheduledInit, JobsInit
  <2>5. StormsAreBounded
    <3>1. SUFFICES ASSUME NEW k \in Types
                   PROVE  failures[k] + Cardinality(Pending(k)) < StormLimit + Cardinality(Callers)
      BY DEF StormsAreBounded, Pending
    <3>2. Pending(k) = {} /\ failures[k] = 0
      BY <2>2 DEF Pending, ScheduledInit, JobsInit
    <3>3. Cardinality(Pending(k)) = 0 /\ Cardinality(Callers) \in Nat
      BY <3>2, ScheduleAssumption, FS_EmptySet, FS_CardinalityType
    <3>4. QED
      BY <3>2, <3>3, ScheduleAssumption
  <2>6. handles \in [Callers -> 0..MaxPasses] /\ HandlesOK
    BY OrchestrationAssumption DEF ScheduledInit, HandlesOK, Init, Waiting
  <2>7. QED
    BY <2>1, <2>3, <2>4, <2>5, <2>6 DEF ScheduledIInv, JobsOK
<1>2. ScheduledIInv /\ [ScheduledNext]_allVars => ScheduledIInv'
  BY ScheduledStep
<1>3. QED
  BY <1>1, <1>2, PTL DEF ScheduledSpec

-----------------------------------------------------------------------------
(* The theorems.                                                           *)

\* Queue, runs, counts and requests keep to their types.
THEOREM ScheduledTyping ==
  ScheduledSpec => []ScheduledTypeOK
<1>1. ScheduledIInv => ScheduledTypeOK
  BY DEF ScheduledIInv, IInv, Known, JobsOK, ScheduledTypeOK
<1>2. QED
  BY <1>1, ScheduledInvariance, PTL

\* A storm of failures passes the limit by less than the number of requests, whatever
\* the limit and however many requests overlap (evaluateJobRuntimeControls reads the
\* count that trackJobFailure raises much later).
THEOREM BoundedStorms ==
  ScheduledSpec => []StormsAreBounded
<1>1. ScheduledIInv => StormsAreBounded
  BY DEF ScheduledIInv, JobsOK
<1>2. QED
  BY <1>1, ScheduledInvariance, PTL

\* A RUNNING row of job_runs has its request, unless a fault took it away, and every
\* pass of the queue runs under such a row.
THEOREM AwaitedRuns ==
  ScheduledSpec => []RunningRowsAreAwaited
<1>1. ScheduledIInv => RunningRowsAreAwaited
  <2> SUFFICES ASSUME ScheduledIInv
               PROVE  RunningRowsAreAwaited
    OBVIOUS
  <2>1. RowsOK /\ RowsAwaited /\ HandlesOK
    BY DEF ScheduledIInv, JobsOK
  <2>2. \A p \in Passes : p # 0
    BY OrchestrationAssumption DEF Passes
  <2>3. QED
    BY <2>1, <2>2 DEF RowsOK, RowsAwaited, HandlesOK, AtRun, RunningRowsAreAwaited
<1>2. QED
  BY <1>1, ScheduledInvariance, PTL

\* A tick starts a type that is RUNNING already only if that run was inserted after
\* it had looked (runDueJobs).
THEOREM DuplicatesRace ==
  ScheduledSpec => TicksDuplicateInARace
<1>1. ScheduledIInv /\ [ScheduledNext]_allVars =>
        [\A c \in Callers :
           /\ caller[c].ticks /\ caller[c].pc = "admitted" /\ caller'[c].pc = "running"
           /\ RunningRuns(TypeAt(c)) # {}
           => caller[c].raced]_allVars
  BY DEF ScheduledIInv, JobsOK, TicksOK
<1>2. QED
  BY <1>1, ScheduledInvariance, PTL DEF ScheduledSpec, TicksDuplicateInARace

\* What the queue promises by itself, it keeps under the scheduler: duplicate ticks
\* and aborted requests break neither the exclusion of passes nor the return of locks.
THEOREM ScheduledExclusion ==
  ScheduledSpec => [](/\ WorkersExclude /\ HeldLocksHavePasses
                      /\ EscalatedItemsAreOnRecord)
<1>1. ScheduledIInv => /\ WorkersExclude /\ HeldLocksHavePasses
                       /\ EscalatedItemsAreOnRecord
  BY DEF ScheduledIInv, IInv, RecordsOK, OnRecord, EscalatedItemsAreOnRecord
<1>2. QED
  BY <1>1, ScheduledInvariance, PTL

\* No duplicate execution of an item, whatever ticks and run-now requests overlap: it is
\* locked again only after it was made READY again or its lock grew old.
THEOREM ScheduledTakenOnce ==
  ScheduledSpec => TakenOncePerReadiness
<1>1. ScheduledIInv /\ [ScheduledNext]_allVars =>
        [\A i \in Items : item[i].lock # "held" /\ item'[i].lock = "held"
                            => i \in reopened]_vars
  <2> SUFFICES ASSUME ScheduledIInv, [ScheduledNext]_allVars,
                      NEW i \in Items, item[i].lock # "held", item'[i].lock = "held"
               PROVE  i \in reopened
    OBVIOUS
  <2>1. CASE [Next]_vars
    BY <2>1, RowSteps, TakenStep DEF ScheduledIInv, IInv, Known
  <2>2. QED
    BY <2>1, QueueMoves DEF itemVars
<1>2. QED
  BY <1>1, ScheduledInvariance, PTL DEF ScheduledSpec, TakenOncePerReadiness
=============================================================================
