--------------------- MODULE ExecutionOrchestrationProofs ---------------------
(***************************************************************************)
(* Proofs about ExecutionOrchestration, for any items, dependencies and    *)
(* rows, and any number of passes, calls and faults.                       *)
(***************************************************************************)
EXTENDS ExecutionOrchestration, TLAPS

-----------------------------------------------------------------------------
(* The inductive invariant, in named parts.                                *)

\* A pass that has an item knows it, and only one that may still settle its item
\* can have lost the lock.
PassesOK ==
  \A p \in Passes :
    /\ pass[p].pc \notin {"idle", "listing", "sla", "working"} => pass[p].at \in Items
    /\ pass[p].lost => pass[p].pc \in {"taken", "running", "executed", "failed", "counted"}

\* A call that has an item knows it, and a call that has not begun is silent.
CallsOK ==
  \A c \in Calls :
    /\ calls < c => call[c].pc = "idle"
    /\ call[c].pc \in {"judged", "retry", "cancel", "record", "escalate"}
         => call[c].at \in Items

\* A pass at work holds the lock of its item, unless it lost it.
LocksOK ==
  \A p \in Passes, i \in Items :
    AtWork(p, i) /\ ~pass[p].lost => item[i].lock = "held"

\* A READY item that can be locked was reopened since it was locked last.
ReadyOK ==
  \A i \in Items : item[i].status = "READY" /\ item[i].lock # "held" => i \in reopened

\* The escalation of i has its row, or a call is about to write it.
OnRecord(i) ==
  \/ i \in escalations
  \/ \E c \in Calls : call[c].pc = "record" /\ call[c].at = i
  \/ faults > 0

\* Whoever is about to escalate an item has written its row, or found a failed
\* dependency whose failure put the item on record.
RecordsOK ==
  /\ \A p \in Passes :
       pass[p].pc \in {"breached", "recorded"} => pass[p].at \in escalations
  /\ \A c \in Calls :
       /\ call[c].pc = "escalate" => call[c].at \in escalations
       /\ call[c].pc = "judged" /\ call[c].becomes = "ESCALATED" => OnRecord(call[c].at)
  /\ \A d \in MustSucceed : dependency[d] = "FAILED" => OnRecord(DependencyOf[d])
  /\ \A i \in Items : item[i].status = "ESCALATED" => OnRecord(i)

\* Call c has read item i and found that it has not run.
HasRead(c, i) ==
  \/ call[c].pc \in {"cancel", "judged"} /\ call[c].at = i
  \/ call[c].pc \in {"readying", "judged"} /\ i \in call[c].todo

\* If the item runs or has run all the same, the call was overtaken.
RacesOK ==
  /\ \A c \in Calls : call[c].pc = "judged" => call[c].at \notin call[c].todo
  /\ \A c \in Calls, i \in Items :
       HasRead(c, i) /\ item[i].status \in {"RUNNING", "SUCCEEDED"} => i \in call[c].raced

Known == TypeOK /\ PassesOK /\ CallsOK

IInv ==
  /\ Known
  /\ LocksOK /\ WorkersExclude /\ HeldLocksHavePasses
  /\ ReadyOK
  /\ RecordsOK
  /\ RacesOK

-----------------------------------------------------------------------------
(* Types.                                                                  *)

\* What the statements on the queue's rows leave behind.
LEMMA WriteTypes ==
  ASSUME TypeOK, NEW i \in Items, NEW status \in ItemStatuses
  PROVE  /\ SetStatus(i, status) =>
              item' \in [Items -> ItemRecord] /\ reopened' \subseteq Items
         /\ SetStatusAndUnlock(i, status) =>
              item' \in [Items -> ItemRecord] /\ reopened' \subseteq Items
         /\ LockItem(i) =>
              item' \in [Items -> ItemRecord] /\ reopened' \subseteq Items
<1>1. item[i] \in ItemRecord
  BY DEF TypeOK
<1>2. [item[i] EXCEPT !.status = status] \in ItemRecord
  BY <1>1 DEF ItemRecord
<1>3. [item[i] EXCEPT !.status = status, !.lock = "free"] \in ItemRecord
  BY <1>1 DEF ItemRecord
<1>4. [item[i] EXCEPT !.lock = "held"] \in ItemRecord
  BY <1>1 DEF ItemRecord
<1>5. QED
  BY <1>2, <1>3, <1>4 DEF TypeOK, SetStatus, SetStatusAndUnlock, LockItem

\* The loss of a lock leaves passes passes, and overtaking leaves calls calls.
LEMMA HistoryTypes ==
  ASSUME TypeOK, NEW i \in Items
  PROVE  /\ \A p : WithoutLock(i, p) \in [Passes -> PassRecord]
         /\ Overtaken(i) \in [Calls -> CallRecord]
<1>1. \A q \in Passes : [pass[q] EXCEPT !.lost = TRUE] \in PassRecord
  BY DEF TypeOK, PassRecord
<1>2. \A c \in Calls : [call[c] EXCEPT !.raced = @ \cup {i}] \in CallRecord
  BY DEF TypeOK, CallRecord
<1>3. QED
  BY <1>1, <1>2 DEF TypeOK, WithoutLock, Overtaken

PassPcs == {"idle", "listing", "sla", "breached", "working", "taken", "blocked",
            "recorded", "running", "executed", "verifying", "failed", "counted"}

\* A pass that moves is a pass.
LEMMA MoveTypes ==
  ASSUME TypeOK, NEW p \in Passes, NEW from, NEW to \in PassPcs
  PROVE  /\ PassGoes(p, from, to) => pass' \in [Passes -> PassRecord]
         /\ PassLeaves(p, from, to) => pass' \in [Passes -> PassRecord]
<1>1. pass[p] \in PassRecord
  BY DEF TypeOK
<1>2. [pass[p] EXCEPT !.pc = to] \in PassRecord
  BY <1>1 DEF PassRecord, PassPcs
<1>3. [pass[p] EXCEPT !.pc = to, !.at = NoItem, !.lost = FALSE] \in PassRecord
  BY <1>1 DEF PassRecord, PassPcs
<1>4. QED
  BY <1>2, <1>3 DEF TypeOK, PassGoes, PassLeaves

\* So are a pass that settles its item, and the item it settles.
LEMMA SettleTypes ==
  ASSUME TypeOK, NEW p \in Passes, pass[p].at \in Items, NEW from, NEW to \in PassPcs,
         NEW status \in ItemStatuses, PassSettles(p, from, to, status)
  PROVE  /\ pass' \in [Passes -> PassRecord]
         /\ item' \in [Items -> ItemRecord]
         /\ reopened' \subseteq Items
<1> DEFINE i == pass[p].at
           others == WithoutLock(i, p)
           after == [others[p] EXCEPT !.pc = to, !.lost = FALSE,
                       !.at = IF to = "working" THEN NoItem ELSE i]
<1>1. others \in [Passes -> PassRecord]
  BY HistoryTypes
<1>2. pass' = [others EXCEPT ![p] = after]
  BY DEF PassSettles
<1>3. after \in PassRecord
  <2>1. others[p] \in PassRecord
    BY <1>1
  <2>2. (IF to = "working" THEN NoItem ELSE i) \in Items \cup {NoItem}
    OBVIOUS
  <2> HIDE DEF others, i
  <2>3. QED
    BY <2>1, <2>2 DEF PassRecord, PassPcs
<1>4. pass' \in [Passes -> PassRecord]
  <2> HIDE DEF others, after
  <2>1. QED
    BY <1>1, <1>2, <1>3
<1>5. QED
  BY <1>4, WriteTypes DEF PassSettles

\* Each step of a pass of executeReadyItems keeps every variable to its type.
LEMMA PassStepTypes ==
  ASSUME TypeOK, PassesOK, NEW p \in Passes, PassStep(p)
  PROVE  TypeOK'
<1>1. CASE ListActive(p)
  <2>1. Active \subseteq Items
    BY DEF Active
  <2>2. pass' \in [Passes -> PassRecord]
    BY <1>1, <2>1 DEF ListActive, TypeOK, PassRecord
  <2>3. QED
    BY <1>1, <2>2 DEF ListActive, TypeOK, itemVars, counters
<1>2. CASE WithinSla(p)
  <2>1. pass' \in [Passes -> PassRecord]
    BY <1>2 DEF WithinSla, TypeOK, PassRecord
  <2>2. QED
    BY <1>2, <2>1 DEF WithinSla, TypeOK, itemVars, counters
<1>3. CASE RecordBreach(p)
  <2>1. pass' \in [Passes -> PassRecord]
    BY <1>3 DEF RecordBreach, TypeOK, PassRecord
  <2>2. escalations' \subseteq Items
    BY <1>3 DEF RecordBreach, RecordEscalation, TypeOK
  <2>3. QED
    BY <1>3, <2>1, <2>2 DEF RecordBreach, TypeOK, itemVars, counters
<1>4. CASE EscalateBreached(p)
  <2>1. pass[p].at \in Items
    BY <1>4 DEF EscalateBreached, PassLeaves, PassesOK
  <2>2. item' \in [Items -> ItemRecord] /\ reopened' \subseteq Items
    BY <1>4, <2>1, WriteTypes DEF EscalateBreached, ItemStatuses
  <2>3. pass' \in [Passes -> PassRecord]
    BY <1>4, MoveTypes DEF EscalateBreached, PassPcs
  <2>4. QED
    BY <1>4, <2>2, <2>3 DEF EscalateBreached, TypeOK, counters
<1>5. CASE SelectReady(p)
  <2>1. Lockable \subseteq Items
    BY DEF Lockable
  <2>2. PICK rows \in SUBSET Lockable :
          pass' = [pass EXCEPT ![p].pc = "working", ![p].todo = rows]
    BY <1>5 DEF SelectReady
  <2>3. pass' \in [Passes -> PassRecord]
    BY <2>1, <2>2 DEF TypeOK, PassRecord
  <2>4. QED
    BY <1>5, <2>3 DEF SelectReady, TypeOK, itemVars, counters
<1>6. CASE TakeItem(p)
  <2>1. pass' \in [Passes -> PassRecord]
    BY <1>6 DEF TakeItem, TypeOK, PassRecord
  <2>2. item' \in [Items -> ItemRecord] /\ reopened' \subseteq Items
    <3>1. CASE UNCHANGED itemVars
      BY <3>1 DEF TypeOK, itemVars
    <3>2. CASE \E i \in Items : LockItem(i)
      BY <3>2, WriteTypes DEF ItemStatuses
    <3>3. pass[p].todo \subseteq Items
      BY DEF TypeOK, PassRecord
    <3>4. QED
      BY <1>6, <3>1, <3>2, <3>3 DEF TakeItem
  <2>3. QED
    BY <1>6, <2>1, <2>2 DEF TakeItem, TypeOK, counters
<1>7. CASE EndPass(p)
  <2>1. pass' \in [Passes -> PassRecord]
    BY <1>7, MoveTypes DEF EndPass, PassPcs
  <2>2. QED
    BY <1>7, <2>1 DEF EndPass, TypeOK, itemVars, counters
<1>8. CASE BlockByControls(p)
  <2>1. pass[p].at \in Items
    BY <1>8 DEF BlockByControls, PassSettles, PassesOK
  <2>2. /\ pass' \in [Passes -> PassRecord]
        /\ item' \in [Items -> ItemRecord] /\ reopened' \subseteq Items
    BY <1>8, <2>1, SettleTypes DEF BlockByControls, PassPcs, ItemStatuses
  <2>3. QED
    BY <1>8, <2>2 DEF BlockByControls, TypeOK, counters
<1>9. CASE RecordBlock(p)
  <2>1. pass[p].at \in Items
    BY <1>9 DEF RecordBlock, PassGoes, PassesOK
  <2>2. pass' \in [Passes -> PassRecord]
    BY <1>9, MoveTypes DEF RecordBlock, PassPcs
  <2>3. QED
    BY <1>9, <2>1, <2>2 DEF RecordBlock, RecordEscalation, TypeOK, itemVars, counters
<1>10. CASE EscalateBlocked(p)
  <2>1. pass[p].at \in Items
    BY <1>10 DEF EscalateBlocked, PassLeaves, PassesOK
  <2>2. item' \in [Items -> ItemRecord] /\ reopened' \subseteq Items
    BY <1>10, <2>1, WriteTypes DEF EscalateBlocked, ItemStatuses
  <2>3. pass' \in [Passes -> PassRecord]
    BY <1>10, MoveTypes DEF EscalateBlocked, PassPcs
  <2>4. QED
    BY <1>10, <2>2, <2>3 DEF EscalateBlocked, TypeOK, counters
<1>11. CASE BlockForApproval(p)
  <2>1. pass[p].at \in Items
    BY <1>11 DEF BlockForApproval, PassSettles, PassesOK
  <2>2. /\ pass' \in [Passes -> PassRecord]
        /\ item' \in [Items -> ItemRecord] /\ reopened' \subseteq Items
    BY <1>11, <2>1, SettleTypes DEF BlockForApproval, PassPcs, ItemStatuses
  <2>3. QED
    BY <1>11, <2>2 DEF BlockForApproval, TypeOK, counters
<1>12. CASE MarkRunning(p)
  <2>1. pass[p].at \in Items
    BY <1>12 DEF MarkRunning, PassGoes, PassesOK
  <2>2. item' \in [Items -> ItemRecord] /\ reopened' \subseteq Items
    BY <1>12, <2>1, WriteTypes DEF MarkRunning, ItemStatuses
  <2>3. pass' \in [Passes -> PassRecord]
    BY <1>12, MoveTypes DEF MarkRunning, PassPcs
  <2>4. call' \in [Calls -> CallRecord]
    BY <1>12, <2>1, HistoryTypes DEF MarkRunning
  <2>5. QED
    BY <1>12, <2>2, <2>3, <2>4 DEF MarkRunning, TypeOK, counters
<1>13. CASE EngineAnswers(p)
  <2>1. pass' \in [Passes -> PassRecord]
    BY <1>13, MoveTypes DEF EngineAnswers, PassPcs
  <2>2. QED
    BY <1>13, <2>1 DEF EngineAnswers, TypeOK, itemVars, counters
<1>14. CASE MarkSucceeded(p)
  <2>1. pass[p].at \in Items
    BY <1>14 DEF MarkSucceeded, PassSettles, PassGoes, PassesOK
  <2>2. CASE PassSettles(p, "executed", "verifying", "SUCCEEDED") /\ call' = Overtaken(pass[p].at)
    <3>1. /\ pass' \in [Passes -> PassRecord]
          /\ item' \in [Items -> ItemRecord] /\ reopened' \subseteq Items
      BY <2>1, <2>2, SettleTypes DEF PassPcs, ItemStatuses
    <3>2. call' \in [Calls -> CallRecord]
      BY <2>1, <2>2, HistoryTypes
    <3>3. QED
      BY <1>14, <3>1, <3>2 DEF MarkSucceeded, TypeOK, counters
  <2>3. CASE PassGoes(p, "executed", "failed") /\ UNCHANGED <<itemVars, call>>
    <3>1. pass' \in [Passes -> PassRecord]
      BY <2>3, MoveTypes DEF PassPcs
    <3>2. QED
      BY <1>14, <2>3, <3>1 DEF MarkSucceeded, TypeOK, itemVars, counters
  <2>4. QED
    BY <1>14, <2>2, <2>3 DEF MarkSucceeded
<1>15. CASE CreateVerificationTask(p)
  <2>1. pass' \in [Passes -> PassRecord]
    BY <1>15, MoveTypes DEF CreateVerificationTask, PassPcs
  <2>2. QED
    BY <1>15, <2>1 DEF CreateVerificationTask, TypeOK, itemVars, counters
<1>16. CASE CountAttempt(p)
  <2>1. item' \in [Items -> ItemRecord]
    BY <1>16 DEF CountAttempt, TypeOK, ItemRecord
  <2>2. pass' \in [Passes -> PassRecord]
    BY <1>16, MoveTypes DEF CountAttempt, PassPcs
  <2>3. QED
    BY <1>16, <2>1, <2>2 DEF CountAttempt, TypeOK, counters
<1>17. CASE MarkFailed(p)
  <2>1. pass[p].at \in Items
    BY <1>17 DEF MarkFailed, PassSettles, PassesOK
  <2>2. /\ pass' \in [Passes -> PassRecord]
        /\ item' \in [Items -> ItemRecord] /\ reopened' \subseteq Items
    BY <1>17, <2>1, SettleTypes DEF MarkFailed, PassPcs, ItemStatuses
  <2>3. QED
    BY <1>17, <2>2 DEF MarkFailed, TypeOK, counters
<1>18. QED
  BY <1>1, <1>2, <1>3, <1>4, <1>5, <1>6, <1>7, <1>8, <1>9, <1>10, <1>11, <1>12, <1>13, <1>14, <1>15, <1>16, <1>17 DEF PassStep

CallPcs == {"idle", "resume", "selecting", "readying", "judged", "retry", "cancel",
            "record", "escalate", "cancelPlan"}

\* A call that begins or ends is a call.
LEMMA CallTypes ==
  ASSUME TypeOK, NEW c \in Calls
  PROVE  /\ \A pc \in CallPcs, i \in Items \cup {NoItem} :
              Begin(c, pc, i) => /\ call' \in [Calls -> CallRecord]
                                 /\ calls' \in 0..MaxCalls
         /\ \A from : CallEnds(c, from) => call' \in [Calls -> CallRecord]
<1>1. Silent \in CallRecord
  BY DEF Silent, CallRecord
<1>2. ASSUME NEW pc \in CallPcs, NEW i \in Items \cup {NoItem}, Begin(c, pc, i)
      PROVE  call' \in [Calls -> CallRecord] /\ calls' \in 0..MaxCalls
  <2>1. [call[c] EXCEPT !.pc = pc, !.at = i] \in CallRecord
    BY DEF TypeOK, CallRecord, CallPcs
  <2>2. QED
    BY <1>2, <2>1, OrchestrationAssumption DEF Begin, TypeOK, Calls
<1>3. QED
  BY <1>1, <1>2 DEF CallEnds, TypeOK

\* Each step of an operator's call keeps every variable to its type.
LEMMA CallStepTypes ==
  ASSUME TypeOK, CallsOK, NEW c \in Calls, CallStep(c)
  PROVE  TypeOK'
<1>1. CASE ResumePlan(c)
  <2>1. call' \in [Calls -> CallRecord]
    BY <1>1 DEF ResumePlan, TypeOK, CallRecord
  <2>2. QED
    BY <1>1, <2>1 DEF ResumePlan, TypeOK, itemVars, counters
<1>2. CASE SelectWaiting(c)
  <2>1. call' \in [Calls -> CallRecord]
    <3>1. PICK rows \in SUBSET Items :
            call' = [call EXCEPT ![c].pc = "readying", ![c].todo = rows]
      BY <1>2 DEF SelectWaiting
    <3>2. [call[c] EXCEPT !.pc = "readying", !.todo = rows] \in CallRecord
      BY DEF TypeOK, CallRecord
    <3>3. QED
      BY <3>1, <3>2 DEF TypeOK
  <2>2. QED
    BY <1>2, <2>1 DEF SelectWaiting, TypeOK, itemVars, counters
<1>3. CASE EvaluateReadiness(c)
  <2>1. call' \in [Calls -> CallRecord]
    <3> DEFINE of(i, status) == {d \in Deps : DependencyOf[d] = i /\ dependency[d] = status}
               verdict(i) == IF of(i, "FAILED") \cap MustSucceed # {} THEN "ESCALATED"
                             ELSE IF of(i, "PENDING") # {} THEN "WAITING_DEPENDENCIES"
                             ELSE "READY"
    <3>1. PICK i \in call[c].todo :
            call' = [call EXCEPT ![c].pc = "judged", ![c].at = i,
                                 ![c].todo = @ \ {i}, ![c].becomes = verdict(i)]
      BY <1>3 DEF EvaluateReadiness
    <3>2. verdict(i) \in {"READY", "WAITING_DEPENDENCIES", "ESCALATED"}
      OBVIOUS
    <3>3. call[c] \in CallRecord
      BY DEF TypeOK
    <3> HIDE DEF verdict
    <3>4. [call[c] EXCEPT !.pc = "judged", !.at = i, !.todo = @ \ {i},
                          !.becomes = verdict(i)] \in CallRecord
      BY <3>2, <3>3 DEF CallRecord
    <3>5. QED
      BY <3>1, <3>4 DEF TypeOK
  <2>2. QED
    BY <1>3, <2>1 DEF EvaluateReadiness, TypeOK, itemVars, counters
<1>4. CASE WriteReadiness(c)
  <2>1. call[c].at \in Items /\ call[c].becomes \in ItemStatuses
    BY <1>4 DEF WriteReadiness, CallsOK, TypeOK, CallRecord, ItemStatuses
  <2>2. item' \in [Items -> ItemRecord] /\ reopened' \subseteq Items
    BY <1>4, <2>1, WriteTypes DEF WriteReadiness
  <2>3. call' \in [Calls -> CallRecord]
    <3>1. [call[c] EXCEPT !.pc = "readying", !.at = NoItem, !.becomes = "READY",
                          !.raced = @ \ {call[c].at}] \in CallRecord
      BY DEF TypeOK, CallRecord
    <3>2. QED
      BY <1>4, <3>1 DEF WriteReadiness, TypeOK
  <2>4. QED
    BY <1>4, <2>2, <2>3 DEF WriteReadiness, TypeOK, counters
<1>5. CASE EndResume(c)
  <2>1. call' \in [Calls -> CallRecord]
    BY <1>5, CallTypes DEF EndResume
  <2>2. QED
    BY <1>5, <2>1 DEF EndResume, TypeOK, itemVars, counters
<1>6. CASE RetryItem(c)
  <2>1. call[c].at \in Items
    BY <1>6 DEF RetryItem, CallEnds, CallsOK
  <2>2. /\ item' \in [Items -> ItemRecord] /\ reopened' \subseteq Items
        /\ pass' \in [Passes -> PassRecord]
    BY <1>6, <2>1, WriteTypes, HistoryTypes DEF RetryItem, ItemStatuses
  <2>3. call' \in [Calls -> CallRecord]
    BY <1>6, CallTypes DEF RetryItem
  <2>4. QED
    BY <1>6, <2>2, <2>3 DEF RetryItem, TypeOK, counters
<1>7. CASE CancelItem(c)
  <2>1. call[c].at \in Items
    BY <1>7 DEF CancelItem, CallEnds, CallsOK
  <2>2. /\ item' \in [Items -> ItemRecord] /\ reopened' \subseteq Items
        /\ pass' \in [Passes -> PassRecord]
    BY <1>7, <2>1, WriteTypes, HistoryTypes DEF CancelItem, ItemStatuses
  <2>3. call' \in [Calls -> CallRecord]
    BY <1>7, CallTypes DEF CancelItem
  <2>4. QED
    BY <1>7, <2>2, <2>3 DEF CancelItem, TypeOK, counters
<1>8. CASE RecordFailedDependency(c)
  <2>1. call[c].at \in Items
    BY <1>8 DEF RecordFailedDependency, CallsOK
  <2>2. call' \in [Calls -> CallRecord]
    BY <1>8 DEF RecordFailedDependency, TypeOK, CallRecord
  <2>3. QED
    BY <1>8, <2>1, <2>2 DEF RecordFailedDependency, RecordEscalation, TypeOK, itemVars, counters
<1>9. CASE EscalateDependent(c)
  <2>1. call[c].at \in Items
    BY <1>9 DEF EscalateDependent, CallEnds, CallsOK
  <2>2. item' \in [Items -> ItemRecord] /\ reopened' \subseteq Items
    BY <1>9, <2>1, WriteTypes DEF EscalateDependent, ItemStatuses
  <2>3. call' \in [Calls -> CallRecord]
    BY <1>9, CallTypes DEF EscalateDependent
  <2>4. QED
    BY <1>9, <2>2, <2>3 DEF EscalateDependent, TypeOK, counters
<1>10. CASE CancelPendingItems(c)
  <2>1. item' \in [Items -> ItemRecord]
    <3>1. \A i \in Items : [item[i] EXCEPT !.status = "CANCELLED"] \in ItemRecord
      BY DEF TypeOK, ItemRecord, ItemStatuses
    <3>2. QED
      BY <1>10, <3>1 DEF CancelPendingItems, TypeOK
  <2>2. call' \in [Calls -> CallRecord]
    BY <1>10, CallTypes DEF CancelPendingItems
  <2>3. QED
    BY <1>10, <2>1, <2>2 DEF CancelPendingItems, TypeOK, counters
<1>11. QED
  BY <1>1, <1>2, <1>3, <1>4, <1>5, <1>6, <1>7, <1>8, <1>9, <1>10 DEF CallStep

\* Each operator's request keeps every variable to its type.
LEMMA RequestTypes ==
  ASSUME TypeOK, NEW c \in Calls, Request(c)
  PROVE  TypeOK'
<1>1. c \in 1..MaxCalls
  BY DEF Calls
<1>2. CASE RequestResume(c)
  <2>1. call' \in [Calls -> CallRecord] /\ calls' \in 0..MaxCalls
    BY <1>2, CallTypes DEF RequestResume, CallPcs
  <2>2. QED
    BY <1>2, <2>1 DEF RequestResume, TypeOK, itemVars
<1>3. ASSUME NEW i \in Items, RequestRetry(c, i)
      PROVE  TypeOK'
  <2>1. call' \in [Calls -> CallRecord] /\ calls' \in 0..MaxCalls
    BY <1>3, CallTypes DEF RequestRetry, CallPcs
  <2>2. QED
    BY <1>3, <2>1 DEF RequestRetry, TypeOK, itemVars
<1>4. ASSUME NEW i \in Items, RequestCancel(c, i)
      PROVE  TypeOK'
  <2>1. call' \in [Calls -> CallRecord] /\ calls' \in 0..MaxCalls
    BY <1>4, CallTypes DEF RequestCancel, CallPcs
  <2>2. QED
    BY <1>4, <2>1 DEF RequestCancel, TypeOK, itemVars
<1>5. CASE CancelPlan(c)
  <2>1. call' \in [Calls -> CallRecord] /\ calls' \in 0..MaxCalls
    BY <1>5, CallTypes DEF CancelPlan, CallPcs
  <2>2. QED
    BY <1>5, <2>1 DEF CancelPlan, TypeOK, itemVars
<1>6. CASE EscalatePlan(c)
  BY <1>1, <1>6, OrchestrationAssumption DEF EscalatePlan, TypeOK, itemVars
<1>7. ASSUME NEW d \in Deps, FailDependency(c, d)
      PROVE  TypeOK'
  <2>1. DependencyOf[d] \in Items
    BY OrchestrationAssumption
  <2>2. call' \in [Calls -> CallRecord]
    BY <1>7, <2>1 DEF FailDependency, TypeOK, CallRecord
  <2>3. dependency' \in [Deps -> {"PENDING", "RESOLVED", "FAILED"}] /\ calls' \in 0..MaxCalls
    BY <1>1, <1>7, OrchestrationAssumption DEF FailDependency, TypeOK
  <2>4. QED
    BY <1>7, <2>2, <2>3 DEF FailDependency, TypeOK, itemVars
<1>8. ASSUME NEW d \in Deps, ResolveDependency(c, d)
      PROVE  TypeOK'
  BY <1>1, <1>8, OrchestrationAssumption DEF ResolveDependency, TypeOK, itemVars
<1>9. QED
  BY <1>2, <1>3, <1>4, <1>5, <1>6, <1>7, <1>8 DEF Request

\* Every step of the queue keeps every variable to its type.
LEMMA StepTypes ==
  ASSUME TypeOK, PassesOK, CallsOK, [Next]_vars
  PROVE  TypeOK'
<1>1. ASSUME NEW p \in Passes, StartPass(p)
      PROVE  TypeOK'
  <2>1. pass' \in [Passes -> PassRecord]
    BY <1>1, MoveTypes DEF StartPass, PassPcs
  <2>2. item' \in [Items -> ItemRecord]
    <3>1. \A i \in Items : [item[i] EXCEPT !.lock = "free"] \in ItemRecord
      BY DEF TypeOK, ItemRecord
    <3>2. QED
      BY <1>1, <3>1 DEF StartPass, TypeOK
  <2>3. passes' \in 0..MaxPasses
    BY <1>1, OrchestrationAssumption DEF StartPass, TypeOK, Passes
  <2>4. QED
    BY <1>1, <2>1, <2>2, <2>3 DEF StartPass, TypeOK
<1>2. ASSUME NEW i \in Items, LockAges(i)
      PROVE  TypeOK'
  <2>1. item' \in [Items -> ItemRecord]
    BY <1>2 DEF LockAges, TypeOK, ItemRecord
  <2>2. pass' \in [Passes -> PassRecord]
    BY <1>2, HistoryTypes DEF LockAges
  <2>3. QED
    BY <1>2, <2>1, <2>2 DEF LockAges, TypeOK, counters
<1>3. ASSUME NEW i \in Items, ItemAges(i)
      PROVE  TypeOK'
  BY <1>3 DEF ItemAges, TypeOK, itemVars, counters
<1>4. Waiting \in PassRecord /\ Silent \in CallRecord
  BY DEF Waiting, PassRecord, Silent, CallRecord
<1>5. FaultOccurs => faults' \in 0..MaxFaults
  BY OrchestrationAssumption DEF FaultOccurs, TypeOK
<1>6. ASSUME NEW p \in Passes, AbortPass(p)
      PROVE  TypeOK'
  BY <1>4, <1>5, <1>6 DEF AbortPass, TypeOK, itemVars
<1>7. ASSUME NEW c \in Calls, AbortCall(c)
      PROVE  TypeOK'
  BY <1>4, <1>5, <1>7 DEF AbortCall, TypeOK, itemVars
<1>8. CASE Crash
  BY <1>4, <1>5, <1>8 DEF Crash, TypeOK, itemVars
<1>9. CASE UNCHANGED vars
  BY <1>9 DEF vars, TypeOK, counters
<1>10. QED
  BY <1>1, <1>2, <1>3, <1>6, <1>7, <1>8, <1>9, PassStepTypes, CallStepTypes, RequestTypes
     DEF Next

-----------------------------------------------------------------------------
(* Where passes and calls stand.                                           *)

\* What becomes of a pass when the lock of i goes.
Bereft(q, i) ==
  /\ pass'[q].pc = pass[q].pc
  /\ pass'[q].at = pass[q].at
  /\ pass'[q].lost <=> pass[q].lost \/ (AtWork(q, i) /\ item[i].lock = "held")

\* Taking the lock of i away touches only the passes that work under it.
LEMMA LossOfLock ==
  ASSUME TypeOK, NEW i \in Items, pass' = WithoutLock(i, 0)
  PROVE  \A q \in Passes : Bereft(q, i)
<1>1. \A q \in Passes : q # 0 /\ pass[q] \in PassRecord
  BY OrchestrationAssumption DEF TypeOK, Passes
<1>2. QED
  BY <1>1 DEF WithoutLock, Bereft, PassRecord

\* What becomes of the passes when one of them settles its item.
LEMMA Settlement ==
  ASSUME TypeOK, NEW p \in Passes, NEW from, NEW to, NEW status,
         PassSettles(p, from, to, status)
  PROVE  /\ pass[p].pc = from /\ pass'[p].pc = to /\ pass'[p].lost = FALSE
         /\ to # "working" => pass'[p].at = pass[p].at
         /\ \A q \in Passes \ {p} : Bereft(q, pass[p].at)
<1> DEFINE i == pass[p].at
<1>1. \A q \in Passes : pass[q] \in PassRecord
  BY DEF TypeOK
<1>2. \A q \in Passes \ {p} :
        pass'[q] = IF AtWork(q, i) /\ item[i].lock = "held"
                   THEN [pass[q] EXCEPT !.lost = TRUE] ELSE pass[q]
  BY DEF PassSettles, WithoutLock
<1>3. \A q \in Passes \ {p} : Bereft(q, i)
  BY <1>1, <1>2 DEF Bereft, PassRecord
<1>4. /\ WithoutLock(i, p) \in [Passes -> PassRecord]
      /\ pass' = [WithoutLock(i, p) EXCEPT ![p].pc = to, ![p].lost = FALSE,
                ![p].at = IF to = "working" THEN NoItem ELSE i]
  <2>1. \A q \in Passes : [pass[q] EXCEPT !.lost = TRUE] \in PassRecord
    BY DEF TypeOK, PassRecord
  <2>2. QED
    BY <1>1, <2>1 DEF PassSettles, WithoutLock
<1>5. pass'[p].pc = to /\ pass'[p].lost = FALSE
      /\ pass'[p].at = IF to = "working" THEN NoItem ELSE i
  <2> DEFINE others == WithoutLock(i, p)
  <2>1. others[p] \in PassRecord /\ p \in DOMAIN others
    BY <1>4
  <2>2. pass'[p] = [others[p] EXCEPT !.pc = to, !.lost = FALSE,
                                     !.at = IF to = "working" THEN NoItem ELSE i]
    BY <1>4, <2>1
  <2> HIDE DEF others, i
  <2>3. QED
    BY <2>1, <2>2 DEF PassRecord
<1>6. QED
  BY <1>3, <1>5 DEF PassSettles

\* All that a call does to the passes is to take a lock away.
LEMMA CallsAndPasses ==
  ASSUME CallsOK, NEW c \in Calls, Request(c) \/ CallStep(c)
  PROVE  \/ UNCHANGED pass
         \/ call[c].at \in Items /\ pass' = WithoutLock(call[c].at, 0)
<1>1. CASE Request(c)
  BY <1>1 DEF Request, RequestResume, EscalatePlan, CancelPlan, RequestRetry, RequestCancel,
              FailDependency, ResolveDependency
<1>2. CASE RetryItem(c) \/ CancelItem(c)
  BY <1>2 DEF RetryItem, CancelItem, CallEnds, CallsOK
<1>3. QED
  BY <1>1, <1>2 DEF CallStep, ResumePlan, SelectWaiting, EvaluateReadiness, WriteReadiness,
     EndResume, RecordFailedDependency, EscalateDependent, CancelPendingItems

\* Every step leaves each pass with an item where its next step needs one.
LEMMA PassesStep ==
  ASSUME TypeOK, PassesOK, CallsOK, [Next]_vars
  PROVE  PassesOK'
<1> DEFINE Good(r) ==
      /\ r.pc \notin {"idle", "listing", "sla", "working"} => r.at \in Items
      /\ r.lost => r.pc \in {"taken", "running", "executed", "failed", "counted"}
<1>1. SUFFICES ASSUME NEW q \in Passes
               PROVE  Good(pass'[q])
  BY DEF PassesOK
<1>2. /\ Good(pass[q])
      /\ pass \in [Passes -> PassRecord]
  BY DEF PassesOK, TypeOK
<1>3. Good(Waiting)
  BY DEF Waiting
<1>4. ASSUME NEW i, Bereft(q, i)
      PROVE  Good(pass'[q])
  BY <1>2, <1>4 DEF Bereft, AtWork
<1>5. ASSUME NEW p \in Passes, NEW from, NEW to, NEW status, PassSettles(p, from, to, status),
             from \in {"taken", "executed", "counted"}
      PROVE  Good(pass'[q])
  BY <1>2, <1>4, <1>5, Settlement DEF PassesOK
<1>6. ASSUME NEW p \in Passes, NEW from, NEW to, PassGoes(p, from, to),
             to \in {"listing"} \/ from \notin {"idle", "listing", "sla", "working"},
             from \in {"taken", "running", "executed"}
                => to \in {"running", "executed", "failed"},
             from = "failed" => to = "counted",
             from # "counted"
      PROVE  Good(pass'[q])
  BY <1>2, <1>6 DEF PassGoes, PassRecord
<1>7. ASSUME NEW p \in Passes, NEW from, NEW to \in {"idle", "sla", "working"},
             PassLeaves(p, from, to)
      PROVE  Good(pass'[q])
  BY <1>2, <1>7 DEF PassLeaves, PassRecord
<1>8. CASE UNCHANGED pass
  BY <1>2, <1>8
<1>9. CASE \E p \in Passes : StartPass(p) \/ PassStep(p)
  <2>1. PICK p \in Passes : StartPass(p) \/ PassStep(p)
    BY <1>9
  <2>2. CASE StartPass(p)
    BY <2>2, <1>6 DEF StartPass
  <2>3. CASE ListActive(p) \/ WithinSla(p) \/ RecordBreach(p) \/ SelectReady(p)
    <3>1. CASE ListActive(p)
      BY <3>1, <1>2 DEF ListActive, PassRecord
    <3>2. CASE WithinSla(p)
      BY <3>2, <1>2 DEF WithinSla, PassRecord
    <3>3. CASE RecordBreach(p)
      <4>1. PICK i \in Items : pass' = [pass EXCEPT ![p].pc = "breached", ![p].at = i,
                               ![p].todo = @ \ {i}]
        BY <3>3, <1>2 DEF RecordBreach, PassRecord
      <4>2. pass[p].pc = "sla"
        BY <3>3 DEF RecordBreach
      <4>3. QED
        BY <4>1, <4>2, <1>2 DEF PassRecord
    <3>4. CASE SelectReady(p)
      BY <3>4, <1>2 DEF SelectReady, PassRecord
    <3>5. QED
      BY <2>3, <3>1, <3>2, <3>3, <3>4
  <2>4. CASE EscalateBreached(p) \/ EndPass(p) \/ EscalateBlocked(p)
    BY <2>4, <1>7 DEF EscalateBreached, EndPass, EscalateBlocked
  <2>5. CASE TakeItem(p)
    <3>1. PICK i \in Items :
            \/ pass' = [pass EXCEPT ![p].pc = "taken", ![p].at = i, ![p].todo = @ \ {i}]
            \/ pass' = [pass EXCEPT ![p].todo = @ \ {i}]
      BY <2>5, <1>2 DEF TakeItem, PassRecord
    <3>2. pass[p].pc = "working" /\ Good(pass[p])
      BY <2>5 DEF TakeItem, PassesOK
    <3>3. QED
      BY <3>1, <3>2, <1>2 DEF PassRecord
  <2>6. CASE BlockByControls(p) \/ BlockForApproval(p) \/ MarkFailed(p)
    BY <2>6, <1>5 DEF BlockByControls, BlockForApproval, MarkFailed
  <2>7. CASE RecordBlock(p) \/ MarkRunning(p) \/ EngineAnswers(p) \/ CountAttempt(p)
    BY <2>7, <1>6 DEF RecordBlock, MarkRunning, EngineAnswers, CountAttempt
  <2>8. CASE MarkSucceeded(p)
    BY <2>8, <1>5, <1>6 DEF MarkSucceeded
  <2>9. CASE CreateVerificationTask(p)
    BY <2>9, <1>6, <1>7 DEF CreateVerificationTask
  <2>10. QED
    BY <2>1, <2>2, <2>3, <2>4, <2>5, <2>6, <2>7, <2>8, <2>9 DEF PassStep
<1>10. CASE \E c \in Calls : Request(c) \/ CallStep(c)
  <2>1. PICK c \in Calls : Request(c) \/ CallStep(c)
    BY <1>10
  <2>2. CASE UNCHANGED pass
    BY <2>2, <1>8
  <2>3. CASE call[c].at \in Items /\ pass' = WithoutLock(call[c].at, 0)
    BY <2>3, <1>4, LossOfLock
  <2>4. QED
    BY <2>1, <2>2, <2>3, CallsAndPasses
<1>11. ASSUME NEW i \in Items, LockAges(i)
       PROVE  Good(pass'[q])
  BY <1>11, <1>4, LossOfLock DEF LockAges
<1>12. ASSUME NEW p \in Passes, AbortPass(p)
       PROVE  Good(pass'[q])
  BY <1>12, <1>2, <1>3 DEF AbortPass
<1>13. CASE Crash
  BY <1>13, <1>3 DEF Crash
<1>14. ASSUME NEW c \in Calls, AbortCall(c)
       PROVE  Good(pass'[q])
  BY <1>14, <1>8 DEF AbortCall
<1>15. ASSUME NEW i \in Items, ItemAges(i)
       PROVE  Good(pass'[q])
  BY <1>15, <1>8 DEF ItemAges
<1>16. QED
  BY <1>8, <1>9, <1>10, <1>11, <1>12, <1>13, <1>14, <1>15 DEF Next, vars

\* What becomes of the calls when a pass starts or finishes i.
LEMMA Overtaking ==
  ASSUME TypeOK, NEW i \in Items, call' = Overtaken(i)
  PROVE  \A c \in Calls :
           /\ call'[c].pc = call[c].pc
           /\ call'[c].at = call[c].at
           /\ call'[c].todo = call[c].todo
           /\ call'[c].becomes = call[c].becomes
           /\ call[c].raced \subseteq call'[c].raced
           /\ call[c].at = i \/ i \in call[c].todo => i \in call'[c].raced
<1>1. \A c \in Calls : call[c] \in CallRecord
  BY DEF TypeOK
<1>2. QED
  BY <1>1 DEF Overtaken, CallRecord

\* All that a pass does to the calls is to overtake them.
LEMMA PassesAndCalls ==
  ASSUME PassesOK, NEW p \in Passes, StartPass(p) \/ PassStep(p)
  PROVE  /\ UNCHANGED <<calls, faults>>
         /\ \/ UNCHANGED call
            \/ pass[p].at \in Items /\ call' = Overtaken(pass[p].at)
<1>1. CASE MarkRunning(p) \/ MarkSucceeded(p)
  BY <1>1 DEF MarkRunning, MarkSucceeded, PassGoes, PassSettles, PassesOK, counters
<1>2. QED
  BY <1>1 DEF PassStep, counters, StartPass, ListActive, WithinSla, RecordBreach, EscalateBreached,
     SelectReady, TakeItem, EndPass, BlockByControls, RecordBlock, EscalateBlocked,
     BlockForApproval, EngineAnswers, CreateVerificationTask, CountAttempt, MarkFailed

\* Every step leaves each call with an item where its next step needs one.
LEMMA CallsStep ==
  ASSUME TypeOK, PassesOK, CallsOK, [Next]_vars
  PROVE  CallsOK'
<1> DEFINE Held == {"judged", "retry", "cancel", "record", "escalate"}
<1>1. SUFFICES ASSUME NEW b \in Calls
               PROVE  /\ calls' < b => call'[b].pc = "idle"
                      /\ call'[b].pc \in Held => call'[b].at \in Items
  BY DEF CallsOK
<1>2. /\ calls < b => call[b].pc = "idle"
      /\ call[b].pc \in Held => call[b].at \in Items
      /\ call \in [Calls -> CallRecord]
      /\ calls \in Nat /\ b \in Nat
  BY OrchestrationAssumption DEF CallsOK, TypeOK, Calls
<1>3. CASE UNCHANGED <<call, calls>>
  BY <1>2, <1>3
<1>4. ASSUME NEW p \in Passes, StartPass(p) \/ PassStep(p)
      PROVE  /\ calls' < b => call'[b].pc = "idle"
             /\ call'[b].pc \in Held => call'[b].at \in Items
  BY <1>2, <1>4, PassesAndCalls, Overtaking
<1>5. ASSUME NEW c \in Calls, CallStep(c)
      PROVE  /\ calls' < b => call'[b].pc = "idle"
             /\ call'[b].pc \in Held => call'[b].at \in Items
  <2>1. UNCHANGED calls
    BY <1>5 DEF CallStep, ResumePlan, SelectWaiting, EvaluateReadiness, WriteReadiness,
       EndResume, RetryItem, CancelItem, RecordFailedDependency, EscalateDependent,
       CancelPendingItems, counters
  <2>2. call[c].pc # "idle"
    BY <1>5 DEF CallStep, ResumePlan, SelectWaiting, EvaluateReadiness, WriteReadiness,
       EndResume, RetryItem, CancelItem, RecordFailedDependency, EscalateDependent,
       CancelPendingItems, CallEnds
  <2>3. \A a \in Calls \ {c} : call'[a] = call[a]
    BY <1>2, <1>5 DEF CallStep, ResumePlan, SelectWaiting, EvaluateReadiness, WriteReadiness,
       EndResume, RetryItem, CancelItem, RecordFailedDependency, EscalateDependent,
       CancelPendingItems, CallEnds
  <2>4. ASSUME b = c
        PROVE  call'[b].pc \in Held => call'[b].at \in Items
    <3>1. CASE RecordFailedDependency(c)
      BY <1>2, <2>4, <3>1 DEF RecordFailedDependency, CallRecord
    <3>2. CASE EvaluateReadiness(c)
      BY <1>2, <2>4, <3>2 DEF EvaluateReadiness, CallRecord
    <3>3. CASE ResumePlan(c) \/ SelectWaiting(c) \/ WriteReadiness(c)
      BY <1>2, <2>4, <3>3 DEF ResumePlan, SelectWaiting, WriteReadiness, CallRecord
    <3>4. ASSUME NEW from, CallEnds(c, from)
          PROVE  call'[b].pc \notin Held
      BY <1>2, <2>4, <3>4 DEF CallEnds, Silent
    <3>5. QED
      BY <1>5, <3>1, <3>2, <3>3, <3>4 DEF CallStep, EndResume, RetryItem, CancelItem,
         EscalateDependent, CancelPendingItems
  <2>5. QED
    BY <1>2, <2>1, <2>2, <2>3, <2>4
<1>6. ASSUME NEW c \in Calls, Request(c)
      PROVE  /\ calls' < b => call'[b].pc = "idle"
             /\ call'[b].pc \in Held => call'[b].at \in Items
  <2>1. calls' = calls + 1 /\ c = calls + 1
    BY <1>6 DEF Request, RequestResume, EscalatePlan, CancelPlan, RequestRetry, RequestCancel,
       FailDependency, ResolveDependency, Begin
  <2>2. \A a \in Calls \ {c} : call'[a] = call[a]
    BY <1>2, <1>6 DEF Request, RequestResume, EscalatePlan, CancelPlan, RequestRetry,
       RequestCancel, FailDependency, ResolveDependency, Begin
  <2>3. ASSUME b = c
        PROVE  call'[b].pc \in Held => call'[b].at \in Items
    <3>1. CASE RequestResume(c) \/ CancelPlan(c)
      BY <1>2, <2>3, <3>1 DEF RequestResume, CancelPlan, Begin, CallRecord
    <3>2. CASE EscalatePlan(c) \/ \E d \in Deps : ResolveDependency(c, d)
      BY <1>2, <3>2 DEF EscalatePlan, ResolveDependency
    <3>3. CASE \E i \in Items : RequestRetry(c, i) \/ RequestCancel(c, i)
      BY <1>2, <2>3, <3>3 DEF RequestRetry, RequestCancel, Begin, CallRecord
    <3>4. ASSUME NEW d \in Deps, FailDependency(c, d)
          PROVE  call'[b].pc \in Held => call'[b].at \in Items
      <4>1. DependencyOf[d] \in Items
        BY OrchestrationAssumption
      <4>2. QED
        BY <1>2, <2>3, <3>4, <4>1 DEF FailDependency, CallRecord
    <3>5. QED
      BY <1>6, <3>1, <3>2, <3>3, <3>4 DEF Request
  <2>4. QED
    BY <1>2, <2>1, <2>2, <2>3
<1>7. CASE Crash \/ \E c \in Calls : AbortCall(c)
  BY <1>2, <1>7 DEF Crash, AbortCall, Silent
<1>8. CASE \/ \E i \in Items : LockAges(i) \/ ItemAges(i)
           \/ \E p \in Passes : AbortPass(p)
  BY <1>3, <1>8 DEF LockAges, ItemAges, AbortPass, counters
<1>9. QED
  BY <1>3, <1>4, <1>5, <1>6, <1>7, <1>8 DEF Next, vars, counters

-----------------------------------------------------------------------------
(* Locks.                                                                  *)

\* A pass is granted the lock of i.
Begins(p, i) ==
  /\ LockItem(i)
  /\ pass[p].pc = "working"
  /\ pass' = [pass EXCEPT ![p].pc = "taken", ![p].at = i, ![p].todo = @ \ {i}]

\* Nobody begins work, no lost lock comes back, and a lock goes only with a loss.
Recedes ==
  \A q \in Passes, i \in Items :
    AtWork(q, i)' =>
      /\ AtWork(q, i)
      /\ pass[q].lost => pass'[q].lost
      /\ item[i].lock = "held" /\ ~pass'[q].lost => item'[i].lock = "held"

\* What the statements on the queue's rows do to the locks.
LEMMA WrittenLocks ==
  ASSUME TypeOK, NEW i \in Items, NEW status
  PROVE  /\ SetStatus(i, status) => \A j \in Items : item'[j].lock = item[j].lock
         /\ SetStatusAndUnlock(i, status) =>
              \A j \in Items \ {i} : item'[j].lock = item[j].lock
<1>1. item \in [Items -> ItemRecord]
  BY DEF TypeOK
<1>2. QED
  BY <1>1 DEF SetStatus, SetStatusAndUnlock, ItemRecord

\* A lock that is cleared, or grows old, is lost to those at work under it.
LEMMA LossRecedes ==
  ASSUME TypeOK, NEW i \in Items, NEW p,
         \A q \in Passes \ {p} : Bereft(q, i),
         \A j \in Items \ {i} : item'[j].lock = item[j].lock,
         p \in Passes => pass'[p].pc \notin {"taken", "running", "executed"}
  PROVE  Recedes
<1>1. SUFFICES ASSUME NEW q \in Passes, NEW j \in Items, AtWork(q, j)'
               PROVE  /\ AtWork(q, j)
                      /\ pass[q].lost => pass'[q].lost
                      /\ item[j].lock = "held" /\ ~pass'[q].lost => item'[j].lock = "held"
  BY DEF Recedes
<1>2. q # p
  BY <1>1 DEF AtWork
<1>3. Bereft(q, i)
  BY <1>2
<1>4. AtWork(q, j)
  BY <1>1, <1>3 DEF AtWork, Bereft
<1>5. QED
  BY <1>3, <1>4 DEF Bereft, AtWork

\* A step begins one piece of work under the lock it takes, or begins none.
LEMMA LockStep ==
  ASSUME TypeOK, PassesOK, CallsOK, [Next]_vars
  PROVE  Recedes \/ \E p \in Passes, i \in Items : Begins(p, i)
<1> DEFINE Kept == \A i \in Items : item'[i].lock = item[i].lock
<1>1. /\ pass \in [Passes -> PassRecord]
      /\ item \in [Items -> ItemRecord]
  BY DEF TypeOK
<1>2. ASSUME UNCHANGED pass, Kept
      PROVE  Recedes
  BY <1>2 DEF Recedes, AtWork
<1>3. ASSUME NEW p \in Passes, Kept, pass' \in [Passes -> PassRecord],
             \A q \in Passes \ {p} : pass'[q] = pass[q],
             \/ pass'[p].pc \notin {"taken", "running", "executed"}
             \/ /\ pass[p].pc \in {"taken", "running", "executed"}
                /\ pass'[p].at = pass[p].at /\ pass'[p].lost = pass[p].lost
      PROVE  Recedes
  BY <1>3 DEF Recedes, AtWork
<1>4. ASSUME NEW p \in Passes, NEW from \in {"taken", "counted", "executed"},
             NEW to \in {"working", "blocked", "verifying"}, NEW status,
             PassSettles(p, from, to, status)
      PROVE  Recedes
  <2>1. pass[p].at \in Items
    BY <1>4 DEF PassSettles, PassesOK
  <2>2. pass'[p].pc = to /\ \A q \in Passes \ {p} : Bereft(q, pass[p].at)
    BY <1>4, Settlement
  <2>3. \A j \in Items \ {pass[p].at} : item'[j].lock = item[j].lock
    BY <1>4, <2>1, WrittenLocks DEF PassSettles
  <2>4. QED
    BY <2>1, <2>2, <2>3, LossRecedes
<1>5. ASSUME NEW p \in Passes, StartPass(p)
      PROVE  Recedes
  <2>1. \A i \in Items : item[i].lock = "held" => item'[i].lock = "held"
    BY <1>1, <1>5 DEF StartPass
  <2>2. pass' = [pass EXCEPT ![p].pc = "listing"]
    BY <1>5 DEF StartPass, PassGoes
  <2>3. QED
    BY <1>1, <2>1, <2>2 DEF Recedes, AtWork, PassRecord
<1>6. ASSUME NEW p \in Passes, PassStep(p)
      PROVE  Recedes \/ \E i \in Items : Begins(p, i)
  <2>1. CASE ListActive(p) \/ WithinSla(p) \/ RecordBreach(p) \/ SelectReady(p)
    <3>1. UNCHANGED item /\ pass[p].pc \in {"listing", "sla"}
      BY <2>1 DEF ListActive, WithinSla, RecordBreach, SelectReady, itemVars
    <3>2. /\ pass'[p].pc \in {"sla", "breached", "working"}
          /\ \A q \in Passes \ {p} : pass'[q] = pass[q]
      BY <1>1, <2>1 DEF ListActive, WithinSla, RecordBreach, SelectReady, PassRecord
    <3>3. QED
      BY <1>1, <3>1, <3>2 DEF Recedes, AtWork
  <2>2. CASE EscalateBreached(p) \/ EscalateBlocked(p)
    <3>1. pass[p].at \in Items
      BY <2>2 DEF EscalateBreached, EscalateBlocked, PassLeaves, PassesOK
    <3>2. Kept
      BY <2>2, <3>1, WrittenLocks DEF EscalateBreached, EscalateBlocked
    <3>3. /\ pass'[p].pc \in {"sla", "working"}
          /\ \A q \in Passes \ {p} : pass'[q] = pass[q]
      BY <1>1, <2>2 DEF EscalateBreached, EscalateBlocked, PassLeaves, PassRecord
    <3>4. QED
      BY <3>2, <3>3 DEF Recedes, AtWork
  <2>3. CASE EndPass(p) \/ RecordBlock(p) \/ CreateVerificationTask(p)
    <3>1. UNCHANGED item
      BY <2>3 DEF EndPass, RecordBlock, CreateVerificationTask, itemVars
    <3>2. /\ pass'[p].pc \in {"idle", "recorded", "working", "failed"}
          /\ \A q \in Passes \ {p} : pass'[q] = pass[q]
      BY <1>1, <2>3 DEF EndPass, RecordBlock, CreateVerificationTask, PassGoes, PassLeaves,
         PassRecord
    <3>3. QED
      BY <3>1, <3>2 DEF Recedes, AtWork
  <2>4. CASE TakeItem(p)
    <3>1. PICK i \in Items :
            \/ Begins(p, i)
            \/ pass' = [pass EXCEPT ![p].todo = @ \ {i}] /\ UNCHANGED item
      BY <1>1, <2>4 DEF TakeItem, Begins, PassRecord, itemVars
    <3>2. QED
      BY <1>1, <3>1 DEF Recedes, AtWork, PassRecord
  <2>5. CASE BlockByControls(p) \/ BlockForApproval(p) \/ MarkFailed(p)
    BY <1>4, <2>5 DEF BlockByControls, BlockForApproval, MarkFailed
  <2>6. CASE MarkRunning(p)
    <3>1. Kept
      BY <2>6, WrittenLocks DEF MarkRunning, PassGoes, PassesOK
    <3>2. pass[p].pc = "taken" /\ pass' = [pass EXCEPT ![p].pc = "running"]
      BY <2>6 DEF MarkRunning, PassGoes
    <3>3. QED
      BY <1>1, <3>1, <3>2 DEF Recedes, AtWork, PassRecord
  <2>7. CASE EngineAnswers(p)
    <3>1. UNCHANGED item /\ pass[p].pc = "running"
      BY <2>7 DEF EngineAnswers, PassGoes, itemVars
    <3>2. PICK to \in {"executed", "failed"} : pass' = [pass EXCEPT ![p].pc = to]
      BY <2>7 DEF EngineAnswers, PassGoes
    <3>3. QED
      BY <1>1, <3>1, <3>2 DEF Recedes, AtWork, PassRecord
  <2>8. CASE MarkSucceeded(p)
    <3>1. CASE PassGoes(p, "executed", "failed") /\ UNCHANGED item
      BY <1>1, <3>1 DEF PassGoes, Recedes, AtWork, PassRecord
    <3>2. QED
      BY <1>4, <2>8, <3>1 DEF MarkSucceeded, itemVars
  <2>9. CASE CountAttempt(p)
    <3>1. Kept
      BY <1>1, <2>9 DEF CountAttempt, ItemRecord
    <3>2. pass' = [pass EXCEPT ![p].pc = "counted"]
      BY <2>9 DEF CountAttempt, PassGoes
    <3>3. QED
      BY <1>1, <3>1, <3>2 DEF Recedes, AtWork, PassRecord
  <2>10. QED
    BY <1>6, <2>1, <2>2, <2>3, <2>4, <2>5, <2>6, <2>7, <2>8, <2>9 DEF PassStep
<1>7. ASSUME NEW c \in Calls, Request(c)
      PROVE  Recedes
  <2>1. UNCHANGED <<item, pass>>
    BY <1>7 DEF Request, RequestResume, EscalatePlan, CancelPlan, RequestRetry,
       RequestCancel, FailDependency, ResolveDependency, itemVars
  <2>2. QED
    BY <1>2, <2>1
<1>8. ASSUME NEW c \in Calls, CallStep(c)
      PROVE  Recedes
  <2>1. CASE RetryItem(c) \/ CancelItem(c)
    <3>1. call[c].at \in Items
      BY <2>1 DEF RetryItem, CancelItem, CallEnds, CallsOK
    <3>2. \A q \in Passes \ {0} : Bereft(q, call[c].at)
      BY <2>1, <3>1, LossOfLock DEF RetryItem, CancelItem
    <3>3. \A j \in Items \ {call[c].at} : item'[j].lock = item[j].lock
      BY <2>1, <3>1, WrittenLocks DEF RetryItem, CancelItem
    <3>4. 0 \notin Passes
      BY OrchestrationAssumption DEF Passes
    <3>5. QED
      BY <3>1, <3>2, <3>3, <3>4, LossRecedes
  <2>2. CASE WriteReadiness(c) \/ EscalateDependent(c)
    <3>1. call[c].at \in Items
      BY <2>2 DEF WriteReadiness, EscalateDependent, CallEnds, CallsOK
    <3>2. UNCHANGED pass /\ \E status : SetStatus(call[c].at, status)
      BY <2>2 DEF WriteReadiness, EscalateDependent
    <3>3. Kept
      BY <3>1, <3>2, WrittenLocks
    <3>4. QED
      BY <1>2, <3>2, <3>3
  <2>3. CASE CancelPendingItems(c)
    <3>1. UNCHANGED pass /\ Kept
      BY <1>1, <2>3 DEF CancelPendingItems, ItemRecord
    <3>2. QED
      BY <1>2, <3>1
  <2>4. CASE \/ ResumePlan(c) \/ SelectWaiting(c) \/ EvaluateReadiness(c)
             \/ EndResume(c) \/ RecordFailedDependency(c)
    <3>1. UNCHANGED <<item, pass>>
      BY <2>4 DEF ResumePlan, SelectWaiting, EvaluateReadiness, EndResume,
         RecordFailedDependency, itemVars
    <3>2. QED
      BY <1>2, <3>1
  <2>5. QED
    BY <1>8, <2>1, <2>2, <2>3, <2>4 DEF CallStep
<1>9. ASSUME NEW i \in Items, LockAges(i)
      PROVE  Recedes
  <2>1. \A q \in Passes \ {0} : Bereft(q, i)
    BY <1>9, LossOfLock DEF LockAges
  <2>2. \A j \in Items \ {i} : item'[j].lock = item[j].lock
    BY <1>1, <1>9 DEF LockAges
  <2>3. 0 \notin Passes
    BY OrchestrationAssumption DEF Passes
  <2>4. QED
    BY <2>1, <2>2, <2>3, LossRecedes
<1>10. ASSUME NEW p \in Passes, AbortPass(p)
       PROVE  Recedes
  BY <1>1, <1>10 DEF AbortPass, Waiting, Recedes, AtWork, itemVars
<1>11. CASE Crash
  BY <1>11 DEF Crash, Waiting, Recedes, AtWork, itemVars
<1>12. CASE UNCHANGED vars \/ (\E c \in Calls : AbortCall(c)) \/ \E i \in Items : ItemAges(i)
  BY <1>2, <1>12 DEF vars, AbortCall, ItemAges, itemVars
<1>13. QED
  BY <1>5, <1>6, <1>7, <1>8, <1>9, <1>10, <1>11, <1>12 DEF Next

\* A pass that is granted a lock had not lost one, and the others stay as they are.
LEMMA Grant ==
  ASSUME TypeOK, PassesOK, NEW p \in Passes, NEW i \in Items, Begins(p, i)
  PROVE  /\ \A j \in Items : ~AtWork(p, j) /\ (AtWork(p, j)' <=> j = i)
         /\ ~pass[p].lost /\ ~pass'[p].lost
         /\ \A q \in Passes \ {p} : pass'[q] = pass[q]
         /\ item[i].lock # "held" /\ item'[i].lock = "held"
         /\ \A j \in Items \ {i} : item'[j] = item[j]
<1>1. /\ pass \in [Passes -> PassRecord]
      /\ item \in [Items -> ItemRecord]
  BY DEF TypeOK
<1>2. /\ item[i].lock # "held" /\ item'[i].lock = "held"
      /\ \A j \in Items \ {i} : item'[j] = item[j]
  BY <1>1 DEF Begins, LockItem, Lockable, ItemRecord
<1>3. /\ pass[p].pc = "working" /\ ~pass[p].lost
      /\ pass'[p].pc = "taken" /\ pass'[p].at = i /\ pass'[p].lost = pass[p].lost
      /\ \A q \in Passes \ {p} : pass'[q] = pass[q]
  BY <1>1 DEF Begins, PassesOK, PassRecord
<1>4. QED
  BY <1>2, <1>3 DEF AtWork

\* A lock that is held has one pass at work, and that pass has not lost it.
LEMMA LocksStep ==
  ASSUME TypeOK, PassesOK, CallsOK, LocksOK, WorkersExclude, [Next]_vars
  PROVE  LocksOK' /\ WorkersExclude'
<1>1. CASE Recedes
  BY <1>1 DEF Recedes, LocksOK, WorkersExclude
<1>2. ASSUME NEW p \in Passes, NEW i \in Items, Begins(p, i)
      PROVE  LocksOK' /\ WorkersExclude'
  <2>1. \A q \in Passes, j \in Items : q # p \/ j # i =>
          /\ AtWork(q, j)' => AtWork(q, j)
          /\ AtWork(q, j)' => pass'[q].lost = pass[q].lost
    BY <1>2, Grant DEF AtWork
  <2>2. \A q \in Passes : AtWork(q, i) => pass[q].lost
    BY <1>2, Grant DEF LocksOK
  <2>3. LocksOK'
    <3>1. SUFFICES ASSUME NEW q \in Passes, NEW j \in Items, AtWork(q, j)', ~pass'[q].lost
                   PROVE  item'[j].lock = "held"
      BY DEF LocksOK
    <3>2. CASE j = i
      BY <1>2, <3>2, Grant
    <3>3. CASE j # i
      <4>1. item[j].lock = "held"
        BY <2>1, <3>1, <3>3 DEF LocksOK
      <4>2. QED
        BY <1>2, <3>3, <4>1, Grant
    <3>4. QED
      BY <3>2, <3>3
  <2>4. WorkersExclude'
    <3>1. SUFFICES ASSUME NEW q \in Passes, NEW r \in Passes, NEW j \in Items, q # r,
                          AtWork(q, j)', AtWork(r, j)'
                   PROVE  pass'[q].lost \/ pass'[r].lost
      BY DEF WorkersExclude
    <3>2. CASE j # i
      BY <2>1, <3>1, <3>2 DEF WorkersExclude
    <3>3. CASE j = i /\ q # p
      BY <2>1, <2>2, <3>1, <3>3
    <3>4. CASE j = i /\ r # p
      BY <2>1, <2>2, <3>1, <3>4
    <3>5. QED
      BY <3>1, <3>2, <3>3, <3>4
  <2>5. QED
    BY <2>3, <2>4
<1>3. QED
  BY <1>1, <1>2, LockStep

-----------------------------------------------------------------------------
(* Rows.                                                                   *)

\* Why a row is given a status.
Reason(i, status) ==
  /\ status = "READY" => \E c \in Calls : call[c].pc = "judged" /\ call[c].at = i
  /\ status = "ESCALATED" =>
       \/ \E p \in Passes : pass[p].pc \in {"breached", "recorded"} /\ pass[p].at = i
       \/ \E c \in Calls : call[c].pc = "escalate" /\ call[c].at = i
       \/ \E c \in Calls : /\ call[c].pc = "judged" /\ call[c].at = i
                           /\ call[c].becomes = "ESCALATED"
  /\ status \in {"RUNNING", "SUCCEEDED"} => call' = Overtaken(i)
  /\ status = "CANCELLED" => \E c \in Calls : call[c].pc = "cancel" /\ call[c].at = i
  /\ status = "FAILED" => item[i].attempts >= item[i].maxAttempts

\* What a step does to the rows of the queue.
RowStep ==
  \/ \E i \in Items, status \in ItemStatuses :
       /\ SetStatus(i, status) \/ (SetStatusAndUnlock(i, status) /\ status # "READY")
       /\ Reason(i, status)
  \/ \E p \in Passes, i \in Items : Begins(p, i)
  \/ \E i \in Items : /\ item' = [item EXCEPT ![i].lock = "stale"]
                      /\ reopened' = reopened \cup {i}
  \/ UNCHANGED reopened /\ \E i \in Items : item' = [item EXCEPT ![i].attempts = 1]
  \/ /\ UNCHANGED reopened
     /\ item' = [i \in Items |-> IF item[i].status \in Cancellable \cup {"PAUSED"}
                                 THEN [item[i] EXCEPT !.status = "CANCELLED"] ELSE item[i]]
  \/ /\ UNCHANGED reopened
     /\ item' = [i \in Items |-> IF item[i].lock = "stale"
                                 THEN [item[i] EXCEPT !.lock = "free"] ELSE item[i]]
  \/ UNCHANGED itemVars

\* Every step that writes a row is of one of a few kinds.
LEMMA RowSteps ==
  ASSUME TypeOK, PassesOK, CallsOK, [Next]_vars
  PROVE  RowStep
<1>1. ASSUME NEW p \in Passes, PassStep(p)
      PROVE  RowStep
  <2>1. CASE EscalateBreached(p) \/ EscalateBlocked(p)
    <3>1. /\ pass[p].at \in Items /\ pass[p].pc \in {"breached", "recorded"}
          /\ SetStatus(pass[p].at, "ESCALATED")
      BY <2>1 DEF EscalateBreached, EscalateBlocked, PassLeaves, PassesOK
    <3>2. Reason(pass[p].at, "ESCALATED")
      BY <3>1 DEF Reason
    <3>3. QED
      BY <3>1, <3>2 DEF RowStep, ItemStatuses
  <2>2. CASE BlockByControls(p) \/ BlockForApproval(p) \/ MarkFailed(p)
    <3>1. PICK status \in {"BLOCKED", "FAILED", "RETRY_SCHEDULED"} :
            /\ pass[p].at \in Items
            /\ SetStatusAndUnlock(pass[p].at, status)
            /\ status = "FAILED" =>
                 item[pass[p].at].attempts >= item[pass[p].at].maxAttempts
      BY <2>2 DEF BlockByControls, BlockForApproval, MarkFailed, PassSettles, PassesOK
    <3>2. Reason(pass[p].at, status)
      BY <3>1 DEF Reason
    <3>3. QED
      BY <3>1, <3>2 DEF RowStep, ItemStatuses
  <2>3. CASE MarkRunning(p)
    <3>1. /\ pass[p].at \in Items /\ SetStatus(pass[p].at, "RUNNING")
          /\ call' = Overtaken(pass[p].at)
      BY <2>3 DEF MarkRunning, PassGoes, PassesOK
    <3>2. Reason(pass[p].at, "RUNNING")
      BY <3>1 DEF Reason
    <3>3. QED
      BY <3>1, <3>2 DEF RowStep, ItemStatuses
  <2>4. CASE MarkSucceeded(p)
    <3>1. CASE PassSettles(p, "executed", "verifying", "SUCCEEDED")
               /\ call' = Overtaken(pass[p].at)
      <4>1. /\ pass[p].at \in Items /\ SetStatusAndUnlock(pass[p].at, "SUCCEEDED")
            /\ call' = Overtaken(pass[p].at)
        BY <3>1 DEF PassSettles, PassesOK
      <4>2. Reason(pass[p].at, "SUCCEEDED")
        BY <4>1 DEF Reason
      <4>3. QED
        BY <4>1, <4>2 DEF RowStep, ItemStatuses
    <3>2. QED
      BY <2>4, <3>1 DEF MarkSucceeded, RowStep
  <2>5. CASE TakeItem(p)
    <3>1. pass[p].todo \subseteq Items
      BY DEF TypeOK, PassRecord
    <3>2. UNCHANGED itemVars \/ \E i \in Items : Begins(p, i)
      BY <2>5, <3>1 DEF TakeItem, Begins
    <3>3. QED
      BY <3>2 DEF RowStep
  <2>6. CASE CountAttempt(p)
    <3>1. pass[p].at \in Items
      BY <2>6 DEF CountAttempt, PassGoes, PassesOK
    <3>2. QED
      BY <2>6, <3>1 DEF CountAttempt, RowStep
  <2>7. QED
    BY <1>1, <2>1, <2>2, <2>3, <2>4, <2>5, <2>6 DEF RowStep, PassStep, ListActive, WithinSla,
       RecordBreach, SelectReady, EndPass, RecordBlock, EngineAnswers, CreateVerificationTask
<1>2. ASSUME NEW c \in Calls, CallStep(c)
      PROVE  RowStep
  <2>1. CASE WriteReadiness(c)
    <3>1. /\ call[c].at \in Items /\ call[c].becomes \in ItemStatuses
          /\ call[c].becomes \in {"READY", "WAITING_DEPENDENCIES", "ESCALATED"}
          /\ call[c].pc = "judged" /\ SetStatus(call[c].at, call[c].becomes)
      BY <2>1 DEF WriteReadiness, CallsOK, TypeOK, CallRecord, ItemStatuses
    <3>2. Reason(call[c].at, call[c].becomes)
      BY <3>1 DEF Reason
    <3>3. QED
      BY <3>1, <3>2 DEF RowStep
  <2>2. CASE EscalateDependent(c)
    <3>1. /\ call[c].at \in Items /\ call[c].pc = "escalate"
          /\ SetStatus(call[c].at, "ESCALATED")
      BY <2>2 DEF EscalateDependent, CallEnds, CallsOK
    <3>2. Reason(call[c].at, "ESCALATED")
      BY <3>1 DEF Reason
    <3>3. QED
      BY <3>1, <3>2 DEF RowStep, ItemStatuses
  <2>3. CASE CancelItem(c)
    <3>1. /\ call[c].at \in Items /\ call[c].pc = "cancel"
          /\ SetStatusAndUnlock(call[c].at, "CANCELLED")
      BY <2>3 DEF CancelItem, CallEnds, CallsOK
    <3>2. Reason(call[c].at, "CANCELLED")
      BY <3>1 DEF Reason
    <3>3. QED
      BY <3>1, <3>2 DEF RowStep, ItemStatuses
  <2>4. CASE RetryItem(c)
    <3>1. /\ call[c].at \in Items
          /\ SetStatusAndUnlock(call[c].at, "RETRY_SCHEDULED")
      BY <2>4 DEF RetryItem, CallEnds, CallsOK
    <3>2. Reason(call[c].at, "RETRY_SCHEDULED")
      BY DEF Reason
    <3>3. QED
      BY <3>1, <3>2 DEF RowStep, ItemStatuses
  <2>5. QED
    BY <1>2, <2>1, <2>2, <2>3, <2>4 DEF RowStep, CallStep, ResumePlan, SelectWaiting,
       EvaluateReadiness, EndResume, RecordFailedDependency, CancelPendingItems
<1>3. ASSUME NEW c \in Calls, Request(c)
      PROVE  UNCHANGED itemVars
  BY <1>3 DEF Request, RequestResume, EscalatePlan, CancelPlan, RequestRetry,
     RequestCancel, FailDependency, ResolveDependency
<1>4. ASSUME NEW p \in Passes, StartPass(p)
      PROVE  RowStep
  BY <1>4 DEF StartPass, RowStep
<1>5. ASSUME NEW i \in Items, LockAges(i)
      PROVE  RowStep
  BY <1>5 DEF LockAges, RowStep
<1>6. CASE \/ Crash \/ UNCHANGED vars
           \/ \E p \in Passes : AbortPass(p)
           \/ \E c \in Calls : AbortCall(c)
           \/ \E i \in Items : ItemAges(i)
  BY <1>6 DEF Crash, vars, AbortPass, AbortCall, ItemAges, RowStep, itemVars
<1>7. QED
  BY <1>1, <1>2, <1>3, <1>4, <1>5, <1>6 DEF Next, RowStep

\* A status that changes has its reason, or the item was pending when its plan was
\* cancelled.
LEMMA StatusChange ==
  ASSUME TypeOK, RowStep, NEW i \in Items, item'[i].status # item[i].status
  PROVE  \/ Reason(i, item'[i].status)
         \/ item'[i].status = "CANCELLED" /\ item[i].status \in Cancellable \cup {"PAUSED"}
<1>1. item \in [Items -> ItemRecord]
  BY DEF TypeOK
<1>2. ASSUME NEW j \in Items, NEW status \in ItemStatuses, Reason(j, status),
             SetStatus(j, status) \/ SetStatusAndUnlock(j, status)
      PROVE  Reason(i, item'[i].status)
  <2>1. i = j /\ item'[i].status = status
    BY <1>1, <1>2 DEF SetStatus, SetStatusAndUnlock, ItemRecord
  <2>2. QED
    BY <1>2, <2>1
<1>3. ASSUME item' = [j \in Items |-> IF item[j].status \in Cancellable \cup {"PAUSED"}
                            THEN [item[j] EXCEPT !.status = "CANCELLED"] ELSE item[j]]
      PROVE  item'[i].status = "CANCELLED" /\ item[i].status \in Cancellable \cup {"PAUSED"}
  BY <1>1, <1>3 DEF ItemRecord
<1>4. ASSUME NEW j \in Items,
             \/ LockItem(j)
             \/ item' = [item EXCEPT ![j].lock = "stale"]
             \/ item' = [item EXCEPT ![j].attempts = 1]
             \/ item' = [k \in Items |-> IF item[k].lock = "stale"
                                 THEN [item[k] EXCEPT !.lock = "free"] ELSE item[k]]
             \/ UNCHANGED item
      PROVE  FALSE
  BY <1>1, <1>4 DEF LockItem, ItemRecord
<1>5. QED
  BY <1>2, <1>3, <1>4 DEF RowStep, Begins, itemVars

\* A READY item that nobody holds has been made ready again, or was never taken.
LEMMA ReadyStep ==
  ASSUME TypeOK, ReadyOK, RowStep
  PROVE  ReadyOK'
<1>1. item \in [Items -> ItemRecord]
  BY DEF TypeOK
<1>2. SUFFICES ASSUME NEW i \in Items, item'[i].status = "READY", item'[i].lock # "held"
               PROVE  i \in reopened'
  BY DEF ReadyOK
<1>3. item[i].status = "READY" /\ item[i].lock # "held" => i \in reopened
  BY DEF ReadyOK
<1>4. ASSUME NEW j \in Items, NEW status, SetStatus(j, status)
      PROVE  i \in reopened'
  BY <1>1, <1>2, <1>3, <1>4 DEF SetStatus, ItemRecord
<1>5. ASSUME NEW j \in Items, NEW status, SetStatusAndUnlock(j, status), status # "READY"
      PROVE  i \in reopened'
  BY <1>1, <1>2, <1>3, <1>5 DEF SetStatusAndUnlock, ItemRecord
<1>6. ASSUME NEW j \in Items, LockItem(j)
      PROVE  i \in reopened'
  BY <1>1, <1>2, <1>3, <1>6 DEF LockItem, ItemRecord
<1>7. ASSUME NEW j \in Items, item' = [item EXCEPT ![j].lock = "stale"],
             reopened' = reopened \cup {j}
      PROVE  i \in reopened'
  BY <1>1, <1>2, <1>3, <1>7 DEF ItemRecord
<1>8. ASSUME NEW j \in Items, item' = [item EXCEPT ![j].attempts = 1], UNCHANGED reopened
      PROVE  i \in reopened'
  BY <1>1, <1>2, <1>3, <1>8 DEF ItemRecord
<1>9. CASE UNCHANGED reopened /\ item' =
              [k \in Items |-> IF item[k].status \in Cancellable \cup {"PAUSED"}
                               THEN [item[k] EXCEPT !.status = "CANCELLED"] ELSE item[k]]
  BY <1>1, <1>2, <1>3, <1>9 DEF ItemRecord
<1>10. CASE UNCHANGED reopened /\ item' =
              [k \in Items |-> IF item[k].lock = "stale"
                               THEN [item[k] EXCEPT !.lock = "free"] ELSE item[k]]
  BY <1>1, <1>2, <1>3, <1>10 DEF ItemRecord
<1>11. CASE UNCHANGED itemVars
  BY <1>2, <1>3, <1>11 DEF itemVars
<1>12. QED
  BY <1>4, <1>5, <1>6, <1>7, <1>8, <1>9, <1>10, <1>11 DEF RowStep, Begins

\* The table of escalations only grows, and faults are not forgotten.
LEMMA RecordsGrow ==
  ASSUME TypeOK, [Next]_vars
  PROVE  escalations \subseteq escalations' /\ faults' >= faults
<1> DEFINE Kept == UNCHANGED escalations \/ \E i : RecordEscalation(i)
<1>1. ASSUME NEW p \in Passes, StartPass(p) \/ PassStep(p)
      PROVE  Kept /\ UNCHANGED faults
  BY <1>1 DEF PassStep, counters, StartPass, ListActive, WithinSla, RecordBreach,
     EscalateBreached, SelectReady, TakeItem, EndPass, BlockByControls, RecordBlock,
     EscalateBlocked, BlockForApproval, MarkRunning, EngineAnswers, MarkSucceeded,
     CreateVerificationTask, CountAttempt, MarkFailed
<1>2. ASSUME NEW c \in Calls, Request(c)
      PROVE  Kept /\ UNCHANGED faults
  BY <1>2 DEF Request, RequestResume, EscalatePlan, CancelPlan, RequestRetry, RequestCancel,
     FailDependency, ResolveDependency
<1>3. ASSUME NEW c \in Calls, CallStep(c)
      PROVE  Kept /\ UNCHANGED faults
  BY <1>3 DEF CallStep, ResumePlan, SelectWaiting, EvaluateReadiness, WriteReadiness, EndResume,
     RetryItem, CancelItem, RecordFailedDependency, EscalateDependent, CancelPendingItems, counters
<1>4. ASSUME UNCHANGED vars \/ \E i \in Items : LockAges(i) \/ ItemAges(i)
      PROVE  Kept /\ UNCHANGED faults
  BY <1>4 DEF vars, LockAges, ItemAges, counters
<1>5. ASSUME Crash \/ (\E p \in Passes : AbortPass(p)) \/ \E c \in Calls : AbortCall(c)
      PROVE  Kept /\ FaultOccurs
  BY <1>5 DEF Crash, AbortPass, AbortCall
<1>6. faults \in Nat
  BY OrchestrationAssumption DEF TypeOK
<1>7. Kept /\ (UNCHANGED faults \/ FaultOccurs)
  BY <1>1, <1>2, <1>3, <1>4, <1>5 DEF Next
<1>8. QED
  BY <1>6, <1>7 DEF RecordEscalation, FaultOccurs

\* A lock is taken by lockQueueItem alone, for the pass that goes to work under it.
LEMMA LockTaken ==
  ASSUME TypeOK, RowStep, NEW i \in Items, item[i].lock # "held", item'[i].lock = "held"
  PROVE  \E p \in Passes : Begins(p, i)
<1>1. item \in [Items -> ItemRecord]
  BY DEF TypeOK
<1>2. ASSUME NEW p \in Passes, NEW j \in Items, Begins(p, j)
      PROVE  Begins(p, i)
  BY <1>1, <1>2 DEF Begins, LockItem, ItemRecord
<1>3. ASSUME NEW j \in Items, NEW status, SetStatus(j, status) \/ SetStatusAndUnlock(j, status)
      PROVE  FALSE
  BY <1>1, <1>3 DEF SetStatus, SetStatusAndUnlock, ItemRecord
<1>4. ASSUME NEW j \in Items,
             \/ item' = [item EXCEPT ![j].lock = "stale"]
             \/ item' = [item EXCEPT ![j].attempts = 1]
      PROVE  FALSE
  BY <1>1, <1>4 DEF ItemRecord
<1>5. ASSUME \/ item' = [k \in Items |-> IF item[k].status \in Cancellable \cup {"PAUSED"}
                               THEN [item[k] EXCEPT !.status = "CANCELLED"] ELSE item[k]]
             \/ item' = [k \in Items |-> IF item[k].lock = "stale"
                               THEN [item[k] EXCEPT !.lock = "free"] ELSE item[k]]
      PROVE  FALSE
  BY <1>1, <1>5 DEF ItemRecord
<1>6. QED
  BY <1>2, <1>3, <1>4, <1>5 DEF RowStep, itemVars

\* So the item it is taken for was made ready since it was locked last.
LEMMA TakenStep ==
  ASSUME TypeOK, ReadyOK, RowStep, NEW i \in Items, item[i].lock # "held",
         item'[i].lock = "held"
  PROVE  i \in reopened
BY LockTaken DEF Begins, LockItem, Lockable, ReadyOK

\* The pass that will give the lock of i back.
Tends(p, i) == AtWork(p, i) \/ WritesFailure(p, i)

\* A pass leaves its item only as it unlocks it, or in a fault.
LEMMA TendingStays ==
  ASSUME TypeOK, PassesOK, CallsOK, [Next]_vars, faults' = 0,
         NEW q \in Passes, NEW i \in Items, Tends(q, i), ~Tends(q, i)'
  PROVE  item'[i].lock # "held"
<1>1. /\ pass \in [Passes -> PassRecord]
      /\ item \in [Items -> ItemRecord]
      /\ faults \in Nat
  BY OrchestrationAssumption DEF TypeOK
<1>2. /\ pass[q].at = i
      /\ pass[q].pc \in {"taken", "running", "executed", "failed", "counted"}
  BY DEF Tends, AtWork, WritesFailure
<1>3. ~(pass'[q].pc = pass[q].pc /\ pass'[q].at = pass[q].at)
  BY DEF Tends, AtWork, WritesFailure
<1>4. ASSUME NEW p \in Passes, NEW from, NEW to, NEW status, PassSettles(p, from, to, status)
      PROVE  item'[i].lock # "held"
  <2>1. q = p
    BY <1>3, <1>4, Settlement DEF Bereft
  <2>2. QED
    BY <1>1, <1>2, <1>4, <2>1 DEF PassSettles, SetStatusAndUnlock, ItemRecord
<1>5. ASSUME NEW p \in Passes, NEW from, NEW to,
             PassGoes(p, from, to) \/ PassLeaves(p, from, to)
      PROVE  q = p
  BY <1>1, <1>3, <1>5 DEF PassGoes, PassLeaves
<1>6. ASSUME NEW p \in Passes, NEW from, NEW to \in {"running", "executed", "failed", "counted"},
             PassGoes(p, from, to)
      PROVE  FALSE
  <2>1. pass'[q].at = i /\ pass'[q].pc = to
    BY <1>1, <1>2, <1>5, <1>6 DEF PassGoes, PassRecord
  <2>2. QED
    BY <2>1 DEF Tends, AtWork, WritesFailure
<1>7. ASSUME NEW p \in Passes, StartPass(p) \/ PassStep(p)
      PROVE  item'[i].lock # "held"
  <2>1. CASE ListActive(p) \/ WithinSla(p) \/ RecordBreach(p) \/ SelectReady(p) \/ TakeItem(p)
    <3>1. pass[p].pc \in {"listing", "sla", "working"} /\ \A r \in Passes \ {p} : pass'[r] = pass[r]
      BY <1>1, <2>1 DEF ListActive, WithinSla, RecordBreach, SelectReady, TakeItem
    <3>2. QED
      BY <1>2, <1>3, <3>1
  <2>2. CASE \/ StartPass(p) \/ EscalateBreached(p) \/ EndPass(p) \/ RecordBlock(p)
             \/ EscalateBlocked(p) \/ CreateVerificationTask(p)
    <3>1. pass[p].pc \in {"idle", "breached", "working", "blocked", "recorded", "verifying"} /\ q = p
      BY <1>5, <2>2 DEF StartPass, EscalateBreached, EndPass, RecordBlock, EscalateBlocked,
         CreateVerificationTask, PassGoes, PassLeaves
    <3>2. QED
      BY <1>2, <3>1
  <2>3. CASE MarkRunning(p) \/ EngineAnswers(p) \/ CountAttempt(p)
    BY <1>6, <2>3 DEF MarkRunning, EngineAnswers, CountAttempt
  <2>4. CASE BlockByControls(p) \/ BlockForApproval(p) \/ MarkSucceeded(p) \/ MarkFailed(p)
    BY <1>4, <1>6, <2>4 DEF BlockByControls, BlockForApproval, MarkSucceeded, MarkFailed
  <2>5. QED
    BY <1>7, <2>1, <2>2, <2>3, <2>4 DEF PassStep
<1>8. ASSUME NEW c \in Calls, Request(c) \/ CallStep(c)
      PROVE  FALSE
  BY <1>3, <1>8, CallsAndPasses, LossOfLock DEF Bereft
<1>9. ASSUME NEW j \in Items, LockAges(j) \/ ItemAges(j)
      PROVE  FALSE
  BY <1>3, <1>9, LossOfLock DEF LockAges, ItemAges, Bereft
<1>10. CASE UNCHANGED vars
  BY <1>3, <1>10 DEF vars
<1>11. CASE Crash \/ (\E p \in Passes : AbortPass(p)) \/ \E c \in Calls : AbortCall(c)
  <2>1. faults' = faults + 1
    BY <1>11 DEF Crash, AbortPass, AbortCall, FaultOccurs
  <2>2. QED
    BY <1>1, <2>1
<1>12. QED
  BY <1>7, <1>8, <1>9, <1>10, <1>11 DEF Next

\* A lock that is held keeps its pass.
LEMMA HeldStep ==
  ASSUME TypeOK, PassesOK, CallsOK, HeldLocksHavePasses, RowStep, [Next]_vars
  PROVE  HeldLocksHavePasses'
<1>1. SUFFICES ASSUME faults' = 0, NEW i \in Items, item'[i].lock = "held"
               PROVE  \E p \in Passes : Tends(p, i)'
  BY DEF HeldLocksHavePasses, Tends
<1>2. CASE item[i].lock = "held"
  <2>1. faults = 0
    BY <1>1, RecordsGrow, OrchestrationAssumption DEF TypeOK
  <2>2. PICK p \in Passes : Tends(p, i)
    BY <1>2, <2>1 DEF HeldLocksHavePasses, Tends
  <2>3. QED
    BY <1>1, <2>2, TendingStays
<1>3. CASE item[i].lock # "held"
  <2>1. PICK p \in Passes : Begins(p, i)
    BY <1>1, <1>3, LockTaken
  <2>2. AtWork(p, i)'
    BY <2>1, Grant
  <2>3. QED
    BY <2>2 DEF Tends
<1>4. QED
  BY <1>2, <1>3

-----------------------------------------------------------------------------
(* The escalations on record.                                              *)

\* An escalation on record stays on record, or a fault has occurred.
LEMMA OnRecordStays ==
  ASSUME TypeOK, PassesOK, CallsOK, [Next]_vars, NEW i \in Items, OnRecord(i)
  PROVE  OnRecord(i)'
<1>1. /\ call \in [Calls -> CallRecord]
      /\ faults \in Nat /\ faults' \in Nat
  BY StepTypes, OrchestrationAssumption DEF TypeOK
<1>2. CASE i \in escalations \/ faults > 0
  BY <1>1, <1>2, RecordsGrow DEF OnRecord
<1>3. ASSUME NEW b \in Calls, call[b].pc = "record", call[b].at = i
      PROVE  OnRecord(i)'
  <2>1. CASE call'[b].pc = "record" /\ call'[b].at = i
    BY <2>1 DEF OnRecord
  <2>2. ASSUME NEW p \in Passes, StartPass(p) \/ PassStep(p)
        PROVE  OnRecord(i)'
    BY <1>3, <2>1, <2>2, PassesAndCalls, Overtaking
  <2>3. ASSUME NEW c \in Calls, Request(c)
        PROVE  OnRecord(i)'
    <3>1. c # b
      BY <1>1, <1>3, <2>3, OrchestrationAssumption DEF CallsOK, TypeOK, Calls, Request,
         RequestResume, EscalatePlan, CancelPlan, RequestRetry, RequestCancel, FailDependency,
         ResolveDependency, Begin
    <3>2. call'[b] = call[b]
      BY <1>1, <2>3, <3>1 DEF Request, RequestResume, EscalatePlan, CancelPlan, RequestRetry,
         RequestCancel, FailDependency, ResolveDependency, Begin
    <3>3. QED
      BY <1>3, <2>1, <3>2
  <2>4. ASSUME NEW c \in Calls, CallStep(c)
        PROVE  OnRecord(i)'
    <3>1. CASE RecordFailedDependency(b)
      BY <1>3, <3>1 DEF RecordFailedDependency, RecordEscalation, OnRecord
    <3>2. CASE c # b
      <4>1. call'[b] = call[b]
        BY <1>1, <2>4, <3>2 DEF CallStep, ResumePlan, SelectWaiting, EvaluateReadiness,
           WriteReadiness, EndResume, RetryItem, CancelItem, RecordFailedDependency,
           EscalateDependent, CancelPendingItems, CallEnds
      <4>2. QED
        BY <1>3, <2>1, <4>1
    <3>3. QED
      BY <1>3, <2>4, <3>1, <3>2 DEF CallStep, ResumePlan, SelectWaiting, EvaluateReadiness,
         WriteReadiness, EndResume, RetryItem, CancelItem, EscalateDependent,
         CancelPendingItems, CallEnds
  <2>5. CASE Crash \/ \E c \in Calls : AbortCall(c)
    BY <1>1, <2>5 DEF Crash, AbortCall, FaultOccurs, OnRecord
  <2>6. CASE \/ UNCHANGED vars
             \/ \E p \in Passes : AbortPass(p)
             \/ \E j \in Items : LockAges(j) \/ ItemAges(j)
    <3>1. UNCHANGED call
      BY <2>6 DEF vars, AbortPass, LockAges, ItemAges
    <3>2. QED
      BY <1>3, <2>1, <3>1
  <2>7. QED
    BY <2>2, <2>3, <2>4, <2>5, <2>6 DEF Next
<1>4. QED
  BY <1>2, <1>3 DEF OnRecord

\* A pass escalates what it has put on record.
LEMMA PassRecordsStep ==
  ASSUME TypeOK, PassesOK, CallsOK, RecordsOK, [Next]_vars, NEW q \in Passes,
         pass'[q].pc \in {"breached", "recorded"}
  PROVE  pass'[q].at \in escalations'
<1>1. /\ pass \in [Passes -> PassRecord]
      /\ escalations \subseteq escalations'
  BY RecordsGrow DEF TypeOK
<1>2. CASE pass'[q].pc = pass[q].pc /\ pass'[q].at = pass[q].at
  BY <1>1, <1>2 DEF RecordsOK
<1>3. ASSUME NEW i, Bereft(q, i)
      PROVE  pass'[q].at \in escalations'
  BY <1>2, <1>3 DEF Bereft
<1>4. ASSUME NEW p \in Passes, NEW from, NEW to \in {"blocked", "working", "verifying"},
             NEW status, PassSettles(p, from, to, status)
      PROVE  pass'[q].at \in escalations'
  BY <1>3, <1>4, Settlement
<1>5. ASSUME NEW p \in Passes, StartPass(p) \/ PassStep(p)
      PROVE  pass'[q].at \in escalations'
  <2>1. CASE RecordBreach(p)
    <3>1. PICK i \in Items : /\ RecordEscalation(i)
                             /\ pass' = [pass EXCEPT ![p].pc = "breached", ![p].at = i,
                                                     ![p].todo = @ \ {i}]
      BY <1>1, <2>1 DEF RecordBreach, PassRecord
    <3>2. CASE q = p
      BY <1>1, <3>1, <3>2 DEF RecordEscalation, PassRecord
    <3>3. CASE q # p
      BY <1>1, <1>2, <3>1, <3>3
    <3>4. QED
      BY <3>2, <3>3
  <2>2. CASE RecordBlock(p)
    <3>1. CASE q = p
      BY <1>1, <2>2, <3>1 DEF RecordBlock, RecordEscalation, PassGoes, PassRecord
    <3>2. CASE q # p
      BY <1>1, <1>2, <2>2, <3>2 DEF RecordBlock, PassGoes
    <3>3. QED
      BY <3>1, <3>2
  <2>3. CASE BlockByControls(p) \/ BlockForApproval(p) \/ MarkFailed(p)
    BY <1>4, <2>3 DEF BlockByControls, BlockForApproval, MarkFailed
  <2>4. CASE MarkSucceeded(p)
    <3>1. CASE PassGoes(p, "executed", "failed")
      BY <1>1, <1>2, <3>1 DEF PassGoes, PassRecord
    <3>2. QED
      BY <1>4, <2>4, <3>1 DEF MarkSucceeded
  <2>5. CASE \/ EscalateBreached(p) \/ EndPass(p) \/ EscalateBlocked(p)
             \/ MarkRunning(p) \/ EngineAnswers(p) \/ CreateVerificationTask(p)
             \/ CountAttempt(p) \/ StartPass(p)
    BY <1>1, <1>2, <2>5 DEF EscalateBreached, EndPass, EscalateBlocked, MarkRunning,
       EngineAnswers, CreateVerificationTask, CountAttempt, StartPass, PassGoes, PassLeaves,
       PassRecord
  <2>6. CASE ListActive(p) \/ WithinSla(p) \/ SelectReady(p)
    BY <1>1, <1>2, <2>6 DEF ListActive, WithinSla, SelectReady, PassRecord
  <2>7. CASE TakeItem(p)
    <3>1. PICK i : \/ pass' = [pass EXCEPT ![p].pc = "taken", ![p].at = i, ![p].todo = @ \ {i}]
                   \/ pass' = [pass EXCEPT ![p].todo = @ \ {i}]
      BY <2>7 DEF TakeItem
    <3>2. QED
      BY <1>1, <1>2, <3>1 DEF PassRecord
  <2>8. QED
    BY <1>5, <2>1, <2>2, <2>3, <2>4, <2>5, <2>6, <2>7 DEF PassStep
<1>6. ASSUME NEW c \in Calls, Request(c) \/ CallStep(c)
      PROVE  pass'[q].at \in escalations'
  BY <1>2, <1>3, <1>6, CallsAndPasses, LossOfLock
<1>7. ASSUME NEW i \in Items, LockAges(i)
      PROVE  pass'[q].at \in escalations'
  BY <1>3, <1>7, LossOfLock DEF LockAges
<1>8. CASE \/ Crash \/ UNCHANGED vars
           \/ \E p \in Passes : AbortPass(p)
           \/ \E c \in Calls : AbortCall(c)
           \/ \E i \in Items : ItemAges(i)
  BY <1>1, <1>2, <1>8 DEF Crash, vars, AbortPass, AbortCall, ItemAges, Waiting
<1>9. QED
  BY <1>5, <1>6, <1>7, <1>8 DEF Next

\* What a step does to one call: it goes its way, begins, ends or is overtaken.
LEMMA CallMoves ==
  ASSUME TypeOK, PassesOK, CallsOK, [Next]_vars, NEW b \in Calls
  PROVE  \/ CallStep(b) \/ Request(b)
         \/ call'[b] = call[b]
         \/ call'[b] = Silent
         \/ \E i \in Items : call' = Overtaken(i)
<1>1. call \in [Calls -> CallRecord]
  BY DEF TypeOK
<1>2. ASSUME NEW c \in Calls, c # b, CallStep(c)
      PROVE  call'[b] = call[b]
  BY <1>1, <1>2 DEF CallStep, ResumePlan, SelectWaiting, EvaluateReadiness,
     WriteReadiness, EndResume, RetryItem, CancelItem, RecordFailedDependency,
     EscalateDependent, CancelPendingItems, CallEnds
<1>3. ASSUME NEW c \in Calls, c # b, Request(c)
      PROVE  call'[b] = call[b]
  BY <1>1, <1>3 DEF Request, RequestResume, EscalatePlan, CancelPlan, RequestRetry,
     RequestCancel, FailDependency, ResolveDependency, Begin
<1>4. ASSUME NEW p \in Passes, StartPass(p) \/ PassStep(p)
      PROVE  call' = call \/ \E i \in Items : call' = Overtaken(i)
  BY <1>4, PassesAndCalls
<1>5. CASE Crash \/ \E c \in Calls : AbortCall(c)
  BY <1>1, <1>5 DEF Crash, AbortCall
<1>6. ASSUME \/ UNCHANGED vars
             \/ \E p \in Passes : AbortPass(p)
             \/ \E j \in Items : LockAges(j) \/ ItemAges(j)
      PROVE  call' = call
  BY <1>6 DEF vars, AbortPass, LockAges, ItemAges
<1>7. QED
  BY <1>2, <1>3, <1>4, <1>5, <1>6 DEF Next

\* A call that is to escalate an item has recorded the escalation first.
LEMMA CallRecordsStep ==
  ASSUME TypeOK, PassesOK, CallsOK, RecordsOK, [Next]_vars, NEW b \in Calls
  PROVE  /\ call'[b].pc = "escalate" => call'[b].at \in escalations'
         /\ \A i \in Items : call'[b].pc = "judged" /\ call'[b].becomes = "ESCALATED"
                             /\ call'[b].at = i => OnRecord(i)'
<1> DEFINE Good == /\ call'[b].pc = "escalate" => call'[b].at \in escalations'
                   /\ \A i \in Items : call'[b].pc = "judged" /\ call'[b].becomes = "ESCALATED"
                                       /\ call'[b].at = i => OnRecord(i)'
<1>1. call \in [Calls -> CallRecord]
  BY DEF TypeOK
<1>2. /\ call[b].pc = "escalate" => call[b].at \in escalations'
      /\ \A i \in Items : call[b].pc = "judged" /\ call[b].becomes = "ESCALATED"
                          /\ call[b].at = i => OnRecord(i)'
  BY RecordsGrow, OnRecordStays DEF RecordsOK
<1>3. ASSUME /\ call'[b].pc = call[b].pc
             /\ call'[b].at = call[b].at
             /\ call'[b].becomes = call[b].becomes
      PROVE  Good
  BY <1>2, <1>3
<1>4. CASE EvaluateReadiness(b)
  <2> DEFINE of(i, status) == {d \in Deps : DependencyOf[d] = i /\ dependency[d] = status}
  <2>1. PICK i \in call[b].todo :
          call' = [call EXCEPT ![b].pc = "judged", ![b].at = i, ![b].todo = @ \ {i},
                     ![b].becomes = IF of(i, "FAILED") \cap MustSucceed # {} THEN "ESCALATED"
                                    ELSE IF of(i, "PENDING") # {} THEN "WAITING_DEPENDENCIES"
                                    ELSE "READY"]
    BY <1>4 DEF EvaluateReadiness
  <2>2. i \in Items
    BY <1>1 DEF CallRecord
  <2>3. /\ call'[b].pc = "judged" /\ call'[b].at = i
        /\ call'[b].becomes = "ESCALATED" => of(i, "FAILED") \cap MustSucceed # {}
    BY <1>1, <2>1 DEF CallRecord
  <2>4. of(i, "FAILED") \cap MustSucceed # {} => OnRecord(i)
    <3>1. \A d \in of(i, "FAILED") \cap MustSucceed :
            dependency[d] = "FAILED" /\ DependencyOf[d] = i
      OBVIOUS
    <3>2. QED
      BY <3>1 DEF RecordsOK
  <2>5. call'[b].becomes = "ESCALATED" => OnRecord(i)'
    BY <2>2, <2>3, <2>4, OnRecordStays
  <2>6. QED
    BY <2>3, <2>5
<1>5. CASE RecordFailedDependency(b)
  BY <1>1, <1>5 DEF RecordFailedDependency, RecordEscalation, CallRecord
<1>6. CASE ResumePlan(b) \/ SelectWaiting(b) \/ WriteReadiness(b)
  BY <1>1, <1>6 DEF ResumePlan, SelectWaiting, WriteReadiness, CallRecord
<1>7. CASE call'[b] = Silent
  BY <1>7 DEF Silent
<1>8. ASSUME NEW from, CallEnds(b, from)
      PROVE  Good
  BY <1>1, <1>7, <1>8 DEF CallEnds
<1>9. CASE CallStep(b)
  BY <1>4, <1>5, <1>6, <1>8, <1>9 DEF CallStep, EndResume, RetryItem, CancelItem,
     EscalateDependent, CancelPendingItems
<1>10. CASE Request(b)
  <2>1. CASE call' = call
    BY <1>3, <2>1
  <2>2. ASSUME NEW pc \in {"resume", "retry", "cancel", "cancelPlan", "record"}, NEW i,
               call' = [call EXCEPT ![b].pc = pc, ![b].at = i]
        PROVE  Good
    BY <1>1, <2>2 DEF CallRecord
  <2>3. QED
    BY <1>10, <2>1, <2>2 DEF Request, RequestResume, EscalatePlan, CancelPlan, RequestRetry,
       RequestCancel, FailDependency, ResolveDependency, Begin
<1>11. QED
  BY <1>3, <1>7, <1>9, <1>10, CallMoves, Overtaking

\* A dependency that fails has an escalation on record for its item.
LEMMA DependencyRecordsStep ==
  ASSUME TypeOK, PassesOK, CallsOK, RecordsOK, [Next]_vars, NEW d \in MustSucceed,
         dependency'[d] = "FAILED"
  PROVE  OnRecord(DependencyOf[d])'
<1>1. /\ d \in Deps /\ DependencyOf[d] \in Items
      /\ dependency \in [Deps -> {"PENDING", "RESOLVED", "FAILED"}]
      /\ call \in [Calls -> CallRecord]
  BY OrchestrationAssumption DEF TypeOK
<1>2. CASE dependency[d] = "FAILED"
  BY <1>1, <1>2, OnRecordStays DEF RecordsOK
<1>3. ASSUME NEW c \in Calls, NEW e \in Deps, FailDependency(c, e), dependency[d] # "FAILED"
      PROVE  OnRecord(DependencyOf[d])'
  <2>1. e = d
    BY <1>1, <1>3 DEF FailDependency
  <2>2. call'[c].pc = "record" /\ call'[c].at = DependencyOf[d]
    <3>1. call' = [call EXCEPT ![c].pc = "record", ![c].at = DependencyOf[d]]
      BY <1>3, <2>1 DEF FailDependency
    <3>2. QED
      BY <1>1, <3>1 DEF CallRecord
  <2>3. QED
    BY <2>2 DEF OnRecord
<1>4. ASSUME NEW c \in Calls, NEW e \in Deps, ResolveDependency(c, e)
      PROVE  dependency[d] = "FAILED"
  BY <1>1, <1>4 DEF ResolveDependency
<1>5. UNCHANGED dependency \/ \E c \in Calls, e \in Deps : FailDependency(c, e)
                                                         \/ ResolveDependency(c, e)
  <2>1. ASSUME NEW p \in Passes, StartPass(p) \/ PassStep(p)
        PROVE  UNCHANGED dependency
    BY <2>1 DEF PassStep, StartPass, ListActive, WithinSla, RecordBreach,
       EscalateBreached, SelectReady, TakeItem, EndPass, BlockByControls, RecordBlock,
       EscalateBlocked, BlockForApproval, MarkRunning, EngineAnswers, MarkSucceeded,
       CreateVerificationTask, CountAttempt, MarkFailed
  <2>2. ASSUME NEW c \in Calls, CallStep(c)
        PROVE  UNCHANGED dependency
    BY <2>2 DEF CallStep, ResumePlan, SelectWaiting, EvaluateReadiness, WriteReadiness,
       EndResume, RetryItem, CancelItem, RecordFailedDependency, EscalateDependent,
       CancelPendingItems
  <2>3. ASSUME NEW c \in Calls, \/ RequestResume(c) \/ EscalatePlan(c) \/ CancelPlan(c)
                                \/ \E i \in Items : RequestRetry(c, i) \/ RequestCancel(c, i)
        PROVE  UNCHANGED dependency
    BY <2>3 DEF RequestResume, EscalatePlan, CancelPlan, RequestRetry, RequestCancel
  <2>4. CASE \/ Crash \/ UNCHANGED vars
             \/ \E p \in Passes : AbortPass(p)
             \/ \E c \in Calls : AbortCall(c)
             \/ \E i \in Items : LockAges(i) \/ ItemAges(i)
    BY <2>4 DEF Crash, vars, AbortPass, AbortCall, LockAges, ItemAges
  <2>5. QED
    BY <2>1, <2>2, <2>3, <2>4 DEF Next, Request
<1>6. QED
  BY <1>2, <1>3, <1>4, <1>5

\* Every step keeps the records that escalations rest on.
LEMMA RecordsStep ==
  ASSUME TypeOK, PassesOK, CallsOK, RecordsOK, [Next]_vars
  PROVE  RecordsOK'
<1>1. ASSUME NEW i \in Items, item'[i].status = "ESCALATED"
      PROVE  OnRecord(i)'
  <2>1. CASE item[i].status = "ESCALATED"
    BY <2>1, OnRecordStays DEF RecordsOK
  <2>2. CASE item[i].status # "ESCALATED"
    <3>1. Reason(i, "ESCALATED")
      BY <1>1, <2>2, RowSteps, StatusChange
    <3>2. OnRecord(i)
      BY <3>1 DEF Reason, RecordsOK, OnRecord
    <3>3. QED
      BY <3>2, OnRecordStays
  <2>3. QED
    BY <2>1, <2>2
<1>2. \A c \in Calls : call'[c].pc = "judged" => call'[c].at \in Items
  BY CallsStep DEF CallsOK
<1>3. ASSUME NEW c \in Calls, call'[c].pc = "judged", call'[c].becomes = "ESCALATED"
      PROVE  OnRecord(call[c].at)'
  BY <1>2, <1>3, CallRecordsStep DEF OnRecord
<1>4. QED
  BY <1>1, <1>3, PassRecordsStep, CallRecordsStep, DependencyRecordsStep DEF RecordsOK

-----------------------------------------------------------------------------
(* Races.                                                                  *)

\* Every step keeps what is known of the items a call has read.
LEMMA RacesStep ==
  ASSUME TypeOK, PassesOK, CallsOK, RacesOK, [Next]_vars
  PROVE  RacesOK'
<1>1. call \in [Calls -> CallRecord]
  BY DEF TypeOK
<1>2. SUFFICES ASSUME NEW b \in Calls
               PROVE  /\ call'[b].pc = "judged" => call'[b].at \notin call'[b].todo
                      /\ \A i \in Items :
                           HasRead(b, i)' /\ item'[i].status \in {"RUNNING", "SUCCEEDED"}
                             => i \in call'[b].raced
  BY DEF RacesOK
<1> DEFINE Runs(i) == item[i].status \in {"RUNNING", "SUCCEEDED"}
<1>3. /\ call[b].pc = "judged" => call[b].at \notin call[b].todo
      /\ \A i \in Items : HasRead(b, i) /\ Runs(i) => i \in call[b].raced
  BY DEF RacesOK
<1>4. ASSUME NEW i \in Items, item'[i].status \in {"RUNNING", "SUCCEEDED"}, ~Runs(i)
      PROVE  call' = Overtaken(i)
  BY <1>4, RowSteps, StatusChange DEF Reason
<1>5. \A i \in Items : /\ HasRead(b, i)' /\ ~Runs(i)
                       /\ item'[i].status \in {"RUNNING", "SUCCEEDED"}
                       => i \in call'[b].raced
  <2>1. SUFFICES ASSUME NEW i \in Items, HasRead(b, i)', call' = Overtaken(i)
                 PROVE  i \in call'[b].raced
    BY <1>4
  <2>2. call[b].at = i \/ i \in call[b].todo
    BY <2>1, Overtaking DEF HasRead
  <2>3. QED
    BY <2>1, <2>2, Overtaking
<1>6. SUFFICES /\ call'[b].pc = "judged" => call'[b].at \notin call'[b].todo
               /\ \A i \in Items : HasRead(b, i)' /\ Runs(i) => i \in call'[b].raced
  BY <1>5
<1>7. CASE call'[b] = call[b]
  BY <1>3, <1>7 DEF HasRead
<1>8. CASE call'[b] = Silent
  BY <1>8 DEF HasRead, Silent
<1>9. ASSUME NEW j \in Items, call' = Overtaken(j)
      PROVE  /\ call'[b].pc = "judged" => call'[b].at \notin call'[b].todo
             /\ \A i \in Items : HasRead(b, i)' /\ Runs(i) => i \in call'[b].raced
  BY <1>3, <1>9, Overtaking DEF HasRead
<1>10. CASE CallStep(b)
  <2>1. CASE ResumePlan(b) \/ RecordFailedDependency(b)
    BY <1>1, <2>1 DEF ResumePlan, RecordFailedDependency, CallRecord, HasRead
  <2>2. CASE SelectWaiting(b)
    <3>1. /\ call'[b].pc = "readying"
          /\ call'[b].todo =
               {i \in Items : item[i].status \in {"PAUSED", "WAITING_DEPENDENCIES"}}
      BY <1>1, <2>2 DEF SelectWaiting, CallRecord
    <3>2. QED
      BY <3>1 DEF HasRead
  <2>3. CASE EvaluateReadiness(b)
    <3>1. PICK i \in call[b].todo :
            /\ call[b].pc = "readying" /\ call'[b].pc = "judged" /\ call'[b].at = i
            /\ call'[b].todo = call[b].todo \ {i}
            /\ call'[b].raced = call[b].raced
      BY <1>1, <2>3 DEF EvaluateReadiness, CallRecord
    <3>2. QED
      BY <1>3, <3>1 DEF HasRead
  <2>4. CASE WriteReadiness(b)
    <3>1. /\ call[b].pc = "judged" /\ call'[b].pc = "readying"
          /\ call'[b].todo = call[b].todo
          /\ call'[b].raced = call[b].raced \ {call[b].at}
      BY <1>1, <2>4 DEF WriteReadiness, CallRecord
    <3>2. QED
      BY <1>3, <3>1 DEF HasRead
  <2>5. CASE EndResume(b) \/ RetryItem(b) \/ CancelItem(b) \/ EscalateDependent(b)
             \/ CancelPendingItems(b)
    BY <1>1, <1>8, <2>5 DEF EndResume, RetryItem, CancelItem, EscalateDependent,
       CancelPendingItems, CallEnds
  <2>6. QED
    BY <1>10, <2>1, <2>2, <2>3, <2>4, <2>5 DEF CallStep
<1>11. CASE Request(b)
  <2>1. CASE call' = call
    BY <1>7, <2>1
  <2>2. ASSUME NEW pc \in {"resume", "retry", "cancelPlan", "record"}, NEW j,
               call' = [call EXCEPT ![b].pc = pc, ![b].at = j]
        PROVE  /\ call'[b].pc = "judged" => call'[b].at \notin call'[b].todo
               /\ \A i \in Items : HasRead(b, i)' /\ Runs(i) => i \in call'[b].raced
    BY <1>1, <2>2 DEF CallRecord, HasRead
  <2>3. ASSUME NEW j \in Items, RequestCancel(b, j)
        PROVE  /\ call'[b].pc = "judged" => call'[b].at \notin call'[b].todo
               /\ \A i \in Items : HasRead(b, i)' /\ Runs(i) => i \in call'[b].raced
    <3>1. call'[b].pc = "cancel" /\ call'[b].at = j /\ ~Runs(j)
      BY <1>1, <2>3 DEF RequestCancel, Begin, CallRecord, Cancellable
    <3>2. QED
      BY <3>1 DEF HasRead
  <2>4. QED
    BY <1>11, <2>1, <2>2, <2>3 DEF Request, RequestResume, EscalatePlan, CancelPlan,
       RequestRetry, FailDependency, ResolveDependency, Begin
<1>12. QED
  BY <1>7, <1>8, <1>9, <1>10, <1>11, CallMoves

\* An item that ran is made READY or cancelled by a call that was overtaken.
LEMMA UndoneStep ==
  ASSUME TypeOK, PassesOK, CallsOK, RacesOK, [Next]_vars, NEW i \in Items,
         item[i].status \in {"RUNNING", "SUCCEEDED"},
         item'[i].status \in {"READY", "CANCELLED"}
  PROVE  \E c \in Calls : /\ call[c].pc \in {"cancel", "judged"}
                          /\ call[c].at = i /\ i \in call[c].raced
<1>1. Reason(i, item'[i].status)
  BY RowSteps, StatusChange DEF Cancellable
<1>2. PICK c \in Calls : call[c].pc \in {"cancel", "judged"} /\ call[c].at = i
  BY <1>1 DEF Reason
<1>3. QED
  BY <1>2 DEF RacesOK, HasRead

-----------------------------------------------------------------------------
(* The invariant.                                                          *)

\* The invariant holds at the start ...
LEMMA InvariantInit ==
  ASSUME Init
  PROVE  IInv
<1>1. PICK row \in [Items -> Enqueued] :
        item = [i \in Items |->
               [status |-> row[i].status, lock |-> "free", attempts |-> 0,
                maxAttempts |-> row[i].maxAttempts, unapproved |-> row[i].unapproved]]
  BY DEF Init
<1>2. \A i \in Items : row[i] \in
        [status: {"PENDING", "WAITING_APPROVAL", "READY", "WAITING_DEPENDENCIES",
                  "PAUSED", "BLOCKED"},
         maxAttempts: Nat \ {0}, unapproved: BOOLEAN]
  BY OrchestrationAssumption
<1>3. /\ item \in [Items -> ItemRecord]
      /\ \A i \in Items : item[i].status \in {"PENDING", "WAITING_APPROVAL", "READY",
                                  "WAITING_DEPENDENCIES", "PAUSED", "BLOCKED"}
  BY <1>1, <1>2 DEF ItemRecord, ItemStatuses
<1>4. Waiting \in PassRecord /\ Silent \in CallRecord
  BY DEF Waiting, PassRecord, Silent, CallRecord
<1>5. TypeOK
  BY <1>3, <1>4, OrchestrationAssumption DEF Init, TypeOK
<1>6. \A p \in Passes : pass[p].pc = "idle" /\ pass[p].lost = FALSE
  BY DEF Init, Waiting
<1>7. \A c \in Calls : call[c].pc = "idle"
  BY DEF Init, Silent
<1>8. PassesOK /\ CallsOK /\ LocksOK /\ WorkersExclude /\ HeldLocksHavePasses
  BY <1>1, <1>6, <1>7 DEF PassesOK, CallsOK, LocksOK, WorkersExclude, HeldLocksHavePasses, AtWork
<1>9. ReadyOK
  BY <1>3 DEF Init, ReadyOK
<1>10. RecordsOK
  <2>1. \A d \in MustSucceed : dependency[d] = "PENDING"
    BY OrchestrationAssumption DEF Init
  <2>2. QED
    BY <1>3, <1>6, <1>7, <2>1 DEF RecordsOK
<1>11. RacesOK
  BY <1>7 DEF RacesOK, HasRead
<1>12. QED
  BY <1>5, <1>8, <1>9, <1>10, <1>11 DEF IInv, Known

\* ... is kept by every step ...
LEMMA InvariantStep ==
  ASSUME IInv, [Next]_vars
  PROVE  IInv'
BY StepTypes, PassesStep, CallsStep, LocksStep, RowSteps, HeldStep, ReadyStep, RecordsStep,
   RacesStep DEF IInv, Known

\* ... and so holds for ever.
LEMMA Invariance ==
  Spec => []IInv
<1>1. Init => IInv
  BY InvariantInit
<1>2. IInv /\ [Next]_vars => IInv'
  BY InvariantStep
<1>3. QED
  BY <1>1, <1>2, PTL DEF Spec

-----------------------------------------------------------------------------
(* The theorems.                                                           *)

\* Rows, passes and calls keep to their types.
THEOREM OrchestrationTyping ==
  Spec => []TypeOK
<1>1. IInv => TypeOK
  BY DEF IInv, Known
<1>2. QED
  BY <1>1, Invariance, PTL

\* Two passes are at work on one item only after one of them lost its lock, for any
\* number of passes and calls (lockQueueItem).
THEOREM Exclusion ==
  Spec => []WorkersExclude
<1>1. IInv => WorkersExclude
  BY DEF IInv
<1>2. QED
  BY <1>1, Invariance, PTL

\* A lock that is held has a pass that will give it back, unless a fault intervened: no
\* way out of processReadyItem forgets to unlock.
THEOREM HeldLocks ==
  Spec => []HeldLocksHavePasses
<1>1. IInv => HeldLocksHavePasses
  BY DEF IInv
<1>2. QED
  BY <1>1, Invariance, PTL

\* An item is locked again, and so executed again, only after it was made READY again
\* or its lock grew old.
THEOREM TakenOnce ==
  Spec => TakenOncePerReadiness
<1>1. IInv /\ [Next]_vars =>
        [\A i \in Items : item[i].lock # "held" /\ item'[i].lock = "held"
                            => i \in reopened]_vars
  BY RowSteps, TakenStep DEF IInv, Known
<1>2. QED
  BY <1>1, Invariance, PTL DEF Spec, TakenOncePerReadiness

\* An ESCALATED item has its row, a call about to write it, or a fault behind it.
THEOREM EscalationsRecorded ==
  Spec => []EscalatedItemsAreOnRecord
<1>1. IInv => EscalatedItemsAreOnRecord
  BY DEF IInv, RecordsOK, OnRecord, EscalatedItemsAreOnRecord
<1>2. QED
  BY <1>1, Invariance, PTL

\* An item that runs or has succeeded is made READY again, or cancelled, only by a
\* call that had read it before.
THEOREM UndoneInARace ==
  Spec => RunsAreUndoneInARace
<1>1. IInv /\ [Next]_vars =>
        [\A i \in Items :
           /\ item[i].status \in {"RUNNING", "SUCCEEDED"}
           /\ item'[i].status \in {"READY", "CANCELLED"}
           => \E c \in Calls : /\ call[c].pc \in {"cancel", "judged"}
                               /\ call[c].at = i /\ i \in call[c].raced]_vars
  BY UndoneStep DEF IInv, Known
<1>2. QED
  BY <1>1, Invariance, PTL DEF Spec, RunsAreUndoneInARace
=============================================================================
