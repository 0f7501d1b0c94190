------------------------- MODULE GovernedResultProofs -------------------------
(***************************************************************************)
(* Proofs about the recorded result of governed execution: an action is    *)
(* followed by a result, a result by no further action, and the whole      *)
(* implements GovernedAction.  All rest on where the calls of execute      *)
(* stand.                                                                  *)
(***************************************************************************)
EXTENDS GovernedExecutionProofs

\* Where a call of execute stands until its result is recorded.
ExecutePlaces ==
  {"execute: request", "execute: readiness", "execute: dry run",
   "execute: recommendation", "execute: start", "execute: act", "execute: record"}

\* The calls that execute are those that stand there.
LEMMA ExecutingPlaces == Executing = {p \in Callers : call[p].at \in ExecutePlaces}
  BY DEF Executing, Preparing, IsAt, ExecutePlaces

\* Where the record of a call says it stands.
LEMMA PlaceOf ==
  /\ Idle.at = "idle"
  /\ \A pc : [at |-> pc].at = pc
  /\ \A pc, w : [at |-> pc, workflow |-> w].at = pc
  /\ \A pc, w, s, f : [at |-> pc, workflow |-> w, state |-> s, final |-> f].at = pc
  /\ \A pc, s : [at |-> pc, state |-> s].at = pc /\ [at |-> pc, state |-> s].state = s
  /\ \A pc, row : [at |-> pc, row |-> row].at = pc
  /\ \A pc, r : [at |-> pc, readiness |-> r].at = pc
  BY DEF Idle

\* A step of a request in flight moves that request's call alone.
LEMMA OthersWait ==
  ASSUME Typed, NEW p \in Callers, Begins(p) \/ Continues(p)
  PROVE  \A q \in Callers : q # p => call'[q] = call[q]
<1>1. ASSUME NEW c, Goes(p, c)
      PROVE  \A q \in Callers : q # p => call'[q] = call[q]
  BY <1>1 DEF Typed, TypeOK, Goes
<1>2. ASSUME Begins(p) PROVE \A q \in Callers : q # p => call'[q] = call[q]
  BY <1>1, <1>2
     DEF Begins, SubmitValidates, Approve, Reject, DirectReads, CancelReads, DryRunReads,
         ExecuteReadsResult
<1>3. ASSUME Continues(p) PROVE \A q \in Callers : q # p => call'[q] = call[q]
  BY <1>1, <1>3
     DEF Continues, SubmitChecks, SubmitSaves, Link, CreateReads, CreateLooks, CreateInserts,
         DirectInserts, CancelWrites, DryRunSimulates, DryRunInserts, DryRunUpdates,
         ExecuteReadsRequest, ExecuteReadsReadiness, ExecuteReadsDryRun,
         ExecuteReadsRecommendation, ExecuteStarts, PassesTo, ExecuteActs, ExecuteRecords,
         ExecuteUpdatesState, ExecuteUpdatesReadiness, Returns
<1>4. QED
  BY <1>2, <1>3

-----------------------------------------------------------------------------
(* An action is followed by a result.                                      *)

\* Unless something failed, a call that acted and did not record yet is about to.
ActRecorded ==
  faults = 0 /\ acts > 0 /\ result = "NONE" =>
    \E p \in Callers : call[p].at = "execute: record"

\* Acting leads to recording, and only recording leads away from it.
LEMMA ActRecordedKept ==
  ASSUME Typed, ActRecorded, [Next]_vars
  PROVE  ActRecorded'
<1>1. faults \in Nat /\ call \in [Callers -> CallRecord]
  BY AuthorityAssumption DEF Typed, TypeOK
<1>2. ASSUME UNCHANGED <<acts, result>>, faults' = faults \/ faults' # 0,
             \A q \in Callers : call[q].at = "execute: record" => call'[q] = call[q]
      PROVE  ActRecorded'
  BY <1>2 DEF ActRecorded
<1>3. ASSUME NEW p \in Callers, ExecuteActs(p) PROVE ActRecorded'
  <2>1. Goes(p, [at |-> "execute: record", state |-> "EXECUTED"])
    BY <1>3 DEF ExecuteActs
  <2>2. call'[p].at = "execute: record"
    BY <1>1, <2>1, PlaceOf DEF Goes
  <2>3. QED
    BY <2>2 DEF ActRecorded
<1>4. ASSUME NEW p \in Callers, ExecuteRecords(p) PROVE ActRecorded'
  <2>1. call[p].state # "NONE"
    BY <1>1, <1>4, CallFields DEF ExecuteRecords, IsAt
  <2>2. result' # "NONE"
    BY <1>4, <2>1 DEF ExecuteRecords
  <2>3. QED
    BY <2>2 DEF ActRecorded
<1>5. ASSUME NEW p \in Callers, Begins(p) PROVE ActRecorded'
  <2>1. UNCHANGED <<acts, result, faults>> /\ IsAt(p, "idle")
    BY <1>5 DEF Begins, SubmitValidates, Approve, Reject, DirectReads, CancelReads,
                DryRunReads, ExecuteReadsResult, authorityVars, executionVars
  <2>2. \A q \in Callers : q # p => call'[q] = call[q]
    BY <1>5, OthersWait
  <2>3. QED
    BY <1>2, <2>1, <2>2 DEF IsAt
<1>6. ASSUME NEW p \in Callers, Continues(p), ~ExecuteActs(p), ~ExecuteRecords(p)
      PROVE  ActRecorded'
  <2>1. UNCHANGED <<acts, result, faults>> /\ ~IsAt(p, "execute: record")
    BY <1>6
       DEF Continues, SubmitChecks, SubmitSaves, Link, CreateReads, CreateLooks,
           CreateInserts, DirectInserts, CancelWrites, DryRunSimulates, DryRunInserts,
           DryRunUpdates, ExecuteReadsRequest, ExecuteReadsReadiness, ExecuteReadsDryRun,
           ExecuteReadsRecommendation, ExecuteStarts, PassesTo, ExecuteUpdatesState,
           ExecuteUpdatesReadiness, IsAt, authorityVars, executionVars
  <2>2. \A q \in Callers : q # p => call'[q] = call[q]
    BY <1>6, OthersWait
  <2>3. QED
    BY <1>2, <2>1, <2>2 DEF IsAt
<1>7. ASSUME (\E p \in Callers : QueryFails(p)) \/ Restart PROVE ActRecorded'
  <2>1. faults' = faults + 1
    BY <1>7 DEF QueryFails, Restart
  <2>2. faults' # 0
    BY <1>1, <2>1
  <2>3. QED
    BY <2>2 DEF ActRecorded
<1>8. ASSUME UNCHANGED <<acts, result, faults, call>> PROVE ActRecorded'
  BY <1>2, <1>8
<1>9. ASSUME RecommendationChanges \/ Environment PROVE ActRecorded'
  BY <1>7, <1>8, <1>9
     DEF RecommendationChanges, Environment, WorkflowOverdue, RequestOverdue, authorityVars,
         executionVars
<1>10. QED
  BY <1>3, <1>4, <1>5, <1>6, <1>8, <1>9 DEF Next, vars

\* Without a fault, an action on the provider is followed by a recorded result
\* before the last call of execute returns (recordResult, after
\* executeM365RemoveLicense).
THEOREM ActsLeaveResults == Spec => []ActLeavesResult
<1>1. Init => ActRecorded
  <2>1. Init => acts = 0
    BY DEF Init
  <2>2. acts = 0 => ~(acts > 0)
    OBVIOUS
  <2>3. QED
    BY <2>1, <2>2 DEF ActRecorded
<1>2. IInv => Typed
  BY DEF IInv
<1>3. ActRecorded /\ Typed /\ [Next]_vars => ActRecorded'
  BY ActRecordedKept
<1>4. ActRecorded => ActLeavesResult
  BY ExecutingPlaces DEF ActRecorded, ActLeavesResult, ExecutePlaces
<1>5. QED
  BY <1>1, <1>2, <1>3, <1>4, Invariant, PTL DEF Spec

-----------------------------------------------------------------------------
(* The repeats of an action are bounded.                                   *)

\* Until a result is recorded, an action belongs to a call about to record it or was
\* lost with a fault; from then on the calls that may still act have to fit as well.
RepeatsOK ==
  IF result = "NONE"
  THEN acts <= Cardinality(HaveActed) + Cardinality(Callers) * faults
  ELSE acts + Cardinality(Preparing) <= Cardinality(Callers) * (1 + faults)

\* Where a call of execute stands until it acts.
PreparePlaces == ExecutePlaces \ {"execute: record"}

LEMMA PreparingPlaces == Preparing = {p \in Callers : call[p].at \in PreparePlaces}
  BY DEF Preparing, PreparePlaces, ExecutePlaces

\* No call both may still act and has acted, so there is a caller for each.
LEMMA CallersCount ==
  /\ Cardinality(Callers) \in Nat
  /\ Preparing \subseteq Callers /\ HaveActed \subseteq Callers
  /\ \A S \in SUBSET Callers : IsFiniteSet(S) /\ Cardinality(S) \in 0..Cardinality(Callers)
  /\ \A S, T \in SUBSET Callers : S \subseteq T => Cardinality(S) <= Cardinality(T)
  /\ Cardinality(HaveActed) + Cardinality(Preparing) <= Cardinality(Callers)
<1>1. IsFiniteSet(Callers) /\ Cardinality(Callers) \in Nat
  BY AuthorityAssumption, FS_CardinalityType
<1>2. Preparing \subseteq Callers /\ HaveActed \subseteq Callers
  BY DEF Preparing, HaveActed
<1>3. \A S \in SUBSET Callers : IsFiniteSet(S) /\ Cardinality(S) \in 0..Cardinality(Callers)
  <2>1. \A S \in SUBSET Callers : IsFiniteSet(S) /\ Cardinality(S) <= Cardinality(Callers)
    BY <1>1, FS_Subset
  <2>2. QED
    BY <1>1, <2>1, FS_CardinalityType
<1>4. \A S, T \in SUBSET Callers : S \subseteq T => Cardinality(S) <= Cardinality(T)
  BY <1>3, FS_Subset
<1>5. Cardinality(HaveActed) + Cardinality(Preparing) <= Cardinality(Callers)
  <2>1. HaveActed \cap Preparing = {}
    BY DEF HaveActed, Preparing
  <2>2. Cardinality(HaveActed \cup Preparing)
          = Cardinality(HaveActed) + Cardinality(Preparing) - Cardinality(HaveActed \cap Preparing)
    BY <1>2, <1>3, FS_Union
  <2>3. Cardinality(HaveActed \cap Preparing) = 0
    BY <2>1, FS_EmptySet
  <2>4. Cardinality(HaveActed \cup Preparing) \in 0..Cardinality(Callers)
    BY <1>2, <1>3
  <2>5. Cardinality(HaveActed) \in Nat /\ Cardinality(Preparing) \in Nat
    BY <1>1, <1>2, <1>3
  <2>6. QED
    BY <1>1, <2>2, <2>3, <2>4, <2>5
<1>6. QED
  BY <1>1, <1>2, <1>3, <1>4, <1>5

\* One more fault allows one more action of every caller.
LEMMA FaultsAllow ==
  ASSUME NEW n \in Nat, NEW f \in Nat
  PROVE  n * f \in Nat /\ n * (1 + f) = n * f + n /\ n * (f + 1) = n * f + n
OBVIOUS

LEMMA RepeatsKept ==
  ASSUME Typed, RepeatsOK, [Next]_vars
  PROVE  RepeatsOK'
<1> DEFINE n == Cardinality(Callers)
<1>1. /\ faults \in Nat /\ acts \in Nat /\ call \in [Callers -> CallRecord]
      /\ result \in {"NONE", "BLOCKED", "EXECUTED"}
  BY AuthorityAssumption DEF Typed, TypeOK
<1>2. /\ n \in Nat
      /\ Cardinality(HaveActed) \in 0..n /\ Cardinality(Preparing) \in 0..n
      /\ Cardinality(HaveActed) + Cardinality(Preparing) <= n
      /\ n * faults \in Nat /\ n * (1 + faults) = n * faults + n
  BY <1>1, CallersCount, FaultsAllow
<1>3. HaveActed' \in SUBSET Callers /\ Preparing' \in SUBSET Callers
  BY DEF HaveActed, Preparing
<1>4. Cardinality(HaveActed') \in 0..n /\ Cardinality(Preparing') \in 0..n
  BY <1>3, CallersCount
<1>5. ASSUME UNCHANGED <<acts, result, faults>>,
             result = "NONE" => HaveActed \subseteq HaveActed',
             result # "NONE" => Preparing' \subseteq Preparing
      PROVE  RepeatsOK'
  <2>1. CASE result = "NONE"
    <3>1. Cardinality(HaveActed) <= Cardinality(HaveActed')
      BY <1>3, <1>5, <2>1, CallersCount
    <3>2. QED
      BY <1>1, <1>2, <1>4, <1>5, <2>1, <3>1 DEF RepeatsOK
  <2>2. CASE result # "NONE"
    <3>1. Cardinality(Preparing') <= Cardinality(Preparing)
      BY <1>3, <1>5, <2>2, CallersCount
    <3>2. QED
      BY <1>1, <1>2, <1>4, <1>5, <2>2, <3>1 DEF RepeatsOK
  <2>3. QED
    BY <2>1, <2>2
<1>6. ASSUME NEW p \in Callers, NEW c, Goes(p, c), Begins(p) \/ Continues(p)
      PROVE  /\ call'[p] = c /\ \A q \in Callers : q # p => call'[q] = call[q]
             /\ c.at \in PreparePlaces => Preparing' = Preparing \cup {p}
             /\ c.at \notin PreparePlaces => Preparing' = Preparing \ {p}
             /\ call[p].at # "execute: record" => HaveActed \subseteq HaveActed'
  <2>1. call'[p] = c /\ \A q \in Callers : q # p => call'[q] = call[q]
    BY <1>1, <1>6, OthersWait DEF Goes
  <2>2. Preparing' = {q \in Callers : call'[q].at \in PreparePlaces}
    BY DEF Preparing, PreparePlaces, ExecutePlaces
  <2>3. QED
    BY <2>1, <2>2, PreparingPlaces DEF HaveActed
<1> DEFINE Quiet(p) ==
      UNCHANGED <<acts, result, faults>> /\ call[p].at # "execute: record"
<1>7. ASSUME NEW p \in Callers, Begins(p) \/ Continues(p), Quiet(p),
              NEW c, Goes(p, c),
              c.at \in PreparePlaces => p \in Preparing \/ result = "NONE"
       PROVE  RepeatsOK'
  <2>1. UNCHANGED <<acts, result, faults>> /\ HaveActed \subseteq HaveActed'
    BY <1>6, <1>7
  <2>2. result # "NONE" => Preparing' \subseteq Preparing
    BY <1>6, <1>7
  <2>3. QED
    BY <1>5, <2>1, <2>2
<1>8. ASSUME NEW p \in Callers, ExecuteActs(p) PROVE RepeatsOK'
  <2>1. /\ UNCHANGED <<result, faults>> /\ acts' = acts + 1
        /\ Goes(p, [at |-> "execute: record", state |-> "EXECUTED"])
        /\ call[p].at = "execute: act"
    BY <1>8 DEF ExecuteActs, authorityVars, IsAt
  <2>2. /\ call'[p] = [at |-> "execute: record", state |-> "EXECUTED"]
        /\ \A q \in Callers : q # p => call'[q] = call[q]
        /\ Preparing' = Preparing \ {p}
    <3>1. [at |-> "execute: record", state |-> "EXECUTED"].at \notin PreparePlaces
      BY PlaceOf DEF PreparePlaces
    <3>2. Begins(p) \/ Continues(p)
      BY <1>8 DEF Continues
    <3>3. QED
      BY <1>6, <2>1, <3>1, <3>2
  <2>3. p \in Preparing /\ p \notin HaveActed /\ HaveActed' = HaveActed \cup {p}
    <3>1. p \in Preparing /\ p \notin HaveActed
      BY <2>1 DEF Preparing, HaveActed
    <3>2. call'[p].at = "execute: record" /\ call'[p].state = "EXECUTED"
      <4>1. [at |-> "execute: record", state |-> "EXECUTED"].at = "execute: record"
        BY PlaceOf
      <4>2. [at |-> "execute: record", state |-> "EXECUTED"].state = "EXECUTED"
        BY PlaceOf
      <4>3. call'[p] = [at |-> "execute: record", state |-> "EXECUTED"]
        BY <2>2
      <4>4. QED
        BY <4>1, <4>2, <4>3, Zenon
    <3>3. p \in HaveActed'
      BY <3>2 DEF HaveActed
    <3>4. \A q \in Callers : q # p => (q \in HaveActed' <=> q \in HaveActed)
      BY <2>2 DEF HaveActed
    <3>5. QED
      BY <1>3, <3>1, <3>3, <3>4, CallersCount
  <2>4. Cardinality(HaveActed') = Cardinality(HaveActed) + 1
    BY <2>3, CallersCount, FS_AddElement
  <2>5. Cardinality(Preparing') = Cardinality(Preparing) - 1
    BY <2>2, <2>3, CallersCount, FS_RemoveElement
  <2>6. /\ acts' = acts + 1 /\ faults' = faults /\ result' = result
        /\ n * (1 + faults') = n * (1 + faults) /\ n * faults' = n * faults
    BY <2>1
  <2>7. QED
    <3>1. CASE result = "NONE"
      BY <1>1, <1>2, <1>4, <2>4, <2>6, <3>1 DEF RepeatsOK
    <3>2. CASE result # "NONE"
      BY <1>1, <1>2, <1>4, <2>5, <2>6, <3>2 DEF RepeatsOK
    <3>3. QED
      BY <3>1, <3>2
<1>9. ASSUME NEW p \in Callers, ExecuteRecords(p) PROVE RepeatsOK'
  <2>1. /\ UNCHANGED <<acts, faults>> /\ call[p].at = "execute: record"
        /\ call[p].state # "NONE"
    BY <1>1, <1>9, CallFields DEF ExecuteRecords, authorityVars, IsAt
  <2>2. Preparing' \subseteq Preparing
    <3>1. ASSUME NEW c, Goes(p, c), c.at \notin PreparePlaces
          PROVE  Preparing' \subseteq Preparing
      BY <1>6, <1>9, <3>1 DEF Continues
    <3>2. CASE result = "NONE"
      BY <1>9, <3>1, <3>2, PlaceOf DEF ExecuteRecords, PreparePlaces, ExecutePlaces
    <3>3. CASE result # "NONE"
      BY <1>9, <3>1, <3>3, PlaceOf DEF ExecuteRecords, Returns, PreparePlaces, ExecutePlaces
    <3>4. QED
      BY <3>2, <3>3
  <2>3. CASE result = "NONE"
    <3>1. result' # "NONE" /\ acts' = acts /\ n * (1 + faults') = n * (1 + faults)
      BY <1>9, <2>1, <2>3 DEF ExecuteRecords
    <3>2. Cardinality(Preparing') <= Cardinality(Preparing)
      BY <1>3, <2>2, CallersCount
    <3>3. QED
      BY <1>1, <1>2, <1>4, <2>3, <3>1, <3>2 DEF RepeatsOK
  <2>4. CASE result # "NONE"
    BY <1>5, <1>9, <2>1, <2>2, <2>4 DEF ExecuteRecords
  <2>5. QED
    BY <2>3, <2>4
<1>10. ASSUME NEW p \in Callers, Begins(p) PROVE RepeatsOK'
  <2>1. Quiet(p)
    BY <1>10 DEF Begins, SubmitValidates, Approve, Reject, DirectReads, CancelReads,
                DryRunReads, ExecuteReadsResult, authorityVars, executionVars, IsAt
  <2>2. CASE ExecuteReadsResult(p)
    <3>1. result = "NONE" /\ Goes(p, [at |-> "execute: request"])
      BY <2>2 DEF ExecuteReadsResult
    <3>2. QED
      BY <1>7, <1>10, <2>1, <3>1
  <2>3. CASE ~ExecuteReadsResult(p)
    BY <1>7, <1>10, <2>1, <2>3, PlaceOf
       DEF Begins, SubmitValidates, Approve, Reject, DirectReads, CancelReads, DryRunReads,
           PreparePlaces, ExecutePlaces
  <2>4. QED
    BY <2>2, <2>3
<1>11. ASSUME NEW p \in Callers, Continues(p), ~ExecuteActs(p), ~ExecuteRecords(p)
       PROVE  RepeatsOK'
  <2>1. Quiet(p)
    BY <1>11
       DEF Continues, SubmitChecks, SubmitSaves, Link, CreateReads, CreateLooks,
           CreateInserts, DirectInserts, CancelWrites, DryRunSimulates, DryRunInserts,
           DryRunUpdates, ExecuteReadsRequest, ExecuteReadsReadiness, ExecuteReadsDryRun,
           ExecuteReadsRecommendation, ExecuteStarts, PassesTo, ExecuteUpdatesState,
           ExecuteUpdatesReadiness, IsAt, authorityVars, executionVars
  <2>2. CASE \/ ExecuteReadsRequest(p) \/ ExecuteReadsReadiness(p) \/ ExecuteReadsDryRun(p)
             \/ ExecuteReadsRecommendation(p) \/ ExecuteStarts(p)
    <3>1. p \in Preparing
      BY <2>2
         DEF ExecuteReadsRequest, ExecuteReadsReadiness, ExecuteReadsDryRun,
             ExecuteReadsRecommendation, ExecuteStarts, IsAt, Preparing
    <3>2. QED
      BY <1>7, <1>11, <2>1, <2>2, <3>1
         DEF ExecuteReadsRequest, ExecuteReadsReadiness, ExecuteReadsDryRun,
             ExecuteReadsRecommendation, ExecuteStarts, PassesTo
  <2>3. CASE \/ SubmitChecks(p) \/ (\E risk \in Submitted : SubmitSaves(p, risk)) \/ Link(p)
             \/ CreateReads(p) \/ CreateLooks(p) \/ CreateInserts(p)
    BY <1>7, <1>11, <2>1, <2>3, PlaceOf
       DEF SubmitChecks, SubmitSaves, Link, CreateReads, CreateLooks, CreateInserts, Returns,
           PreparePlaces, ExecutePlaces
  <2>4. CASE \/ DirectInserts(p) \/ CancelWrites(p)
             \/ DryRunSimulates(p) \/ DryRunInserts(p) \/ DryRunUpdates(p)
             \/ ExecuteUpdatesState(p) \/ ExecuteUpdatesReadiness(p)
    BY <1>7, <1>11, <2>1, <2>4, PlaceOf
       DEF DirectInserts, CancelWrites, DryRunSimulates, DryRunInserts, DryRunUpdates,
           ExecuteUpdatesState, ExecuteUpdatesReadiness, Returns, PreparePlaces, ExecutePlaces
  <2>5. QED
    BY <1>11, <2>2, <2>3, <2>4 DEF Continues
<1>12. ASSUME (\E p \in Callers : QueryFails(p)) \/ Restart, UNCHANGED executionVars
       PROVE  RepeatsOK'
  <2>1. faults' = faults + 1 /\ UNCHANGED <<acts, result>>
    BY <1>12 DEF QueryFails, Restart, executionVars
  <2>2. \A q \in Callers : call'[q] = Idle \/ call'[q] = call[q]
    BY <1>1, <1>12 DEF QueryFails, Restart, Returns, Goes
  <2>3. Preparing' \subseteq Preparing
    BY <2>2, PlaceOf DEF Preparing
  <2>4. Cardinality(Preparing') <= Cardinality(Preparing)
    BY <1>3, <2>3, CallersCount
  <2>5. n * faults' = n * faults + n /\ n * (1 + faults') = n * faults + n + n
    <3>1. n * (1 + faults') = n * faults' + n
      BY <1>1, <1>2, <2>1, FaultsAllow
    <3>2. n * faults' = n * faults + n
      BY <1>1, <1>2, <2>1, FaultsAllow
    <3>3. QED
      BY <3>1, <3>2
  <2>6. QED
    BY <1>1, <1>2, <1>4, <2>1, <2>4, <2>5 DEF RepeatsOK
<1>13. ASSUME UNCHANGED <<acts, result, faults, call>> PROVE RepeatsOK'
  <2>1. HaveActed' = HaveActed /\ Preparing' = Preparing
    BY <1>13 DEF HaveActed, Preparing
  <2>2. QED
    BY <1>5, <1>13, <2>1
<1>14. ASSUME RecommendationChanges \/ Environment PROVE RepeatsOK'
  BY <1>12, <1>13, <1>14
     DEF RecommendationChanges, Environment, WorkflowOverdue, RequestOverdue, authorityVars,
         executionVars
<1>15. QED
  BY <1>8, <1>9, <1>10, <1>11, <1>13, <1>14 DEF Next, vars

\* The provider is acted on at most once by each request that can be in flight at a
\* time, and as often again after each failed query or restart: execute returns a
\* recorded result, and the unique index lets one call record (recordResult).
THEOREM BoundedActs == Spec => []ActsAreBounded
<1>1. Init => RepeatsOK
  <2>1. ASSUME Init PROVE RepeatsOK
    <3>1. acts = 0 /\ result = "NONE" /\ faults = 0
      BY <2>1 DEF Init, AuthorityInit
    <3>2. Cardinality(HaveActed) \in Nat /\ Cardinality(Callers) * faults \in Nat
      BY <3>1, CallersCount, FaultsAllow
    <3>3. QED
      BY <3>1, <3>2 DEF RepeatsOK
  <2>2. QED
    BY <2>1
<1>2. IInv => Typed
  BY DEF IInv
<1>3. RepeatsOK /\ Typed /\ [Next]_vars => RepeatsOK'
  BY RepeatsKept
<1>4. RepeatsOK /\ Typed => ActsAreBounded
  <2>1. ASSUME RepeatsOK, Typed PROVE ActsAreBounded
    <3>1. faults \in Nat /\ acts \in Nat
      BY <2>1, AuthorityAssumption DEF Typed, TypeOK
    <3>2. /\ Cardinality(HaveActed) \in 0..Cardinality(Callers)
          /\ Cardinality(Preparing) \in Nat /\ Cardinality(Callers) \in Nat
      BY CallersCount
    <3>3. /\ Cardinality(Callers) * faults \in Nat
          /\ Cardinality(Callers) * (1 + faults)
               = Cardinality(Callers) * faults + Cardinality(Callers)
      BY <3>1, <3>2, FaultsAllow
    <3>4. QED
      BY <2>1, <3>1, <3>2, <3>3 DEF RepeatsOK, ActsAreBounded
  <2>2. QED
    BY <2>1
<1>5. QED
  BY <1>1, <1>2, <1>3, <1>4, Invariant, PTL DEF Spec

-----------------------------------------------------------------------------
(* A result is followed by no further action.                              *)

\* A result is recorded and nothing executes.
Concluded == result # "NONE" /\ Executing = {}

\* A step keeps the result and what was done, and nothing begins to execute.
StaysConcluded == UNCHANGED <<acts, result>> /\ Executing' = {}

\* It stays so: a new call of execute returns the result.
LEMMA ConcludedKept ==
  ASSUME Typed, Concluded, [Next]_vars
  PROVE  StaysConcluded
<1>1. \A q \in Callers : call[q].at \notin ExecutePlaces
  BY ExecutingPlaces DEF Concluded
<1>2. ASSUME UNCHANGED <<acts, result>>,
             \A q \in Callers : call'[q].at \notin ExecutePlaces
      PROVE  StaysConcluded
  <2>1. Executing' = {}
    BY <1>2 DEF Executing, Preparing, IsAt, ExecutePlaces
  <2>2. QED
    BY <1>2, <2>1 DEF StaysConcluded
<1>3. ASSUME NEW p \in Callers, Begins(p) \/ Continues(p),
             NEW c, Goes(p, c), c.at \notin ExecutePlaces, UNCHANGED <<acts, result>>
      PROVE  StaysConcluded
  <2>1. call'[p] = c /\ \A q \in Callers : q # p => call'[q] = call[q]
    BY <1>3, OthersWait DEF Goes, Typed, TypeOK
  <2>2. QED
    BY <1>1, <1>2, <1>3, <2>1
<1>4. ASSUME NEW p \in Callers, Begins(p) PROVE StaysConcluded
  <2>1. UNCHANGED <<acts, result>> /\ ~ExecuteReadsResult(p)
    BY <1>4 DEF Begins, DirectReads, CancelReads, DryRunReads, ExecuteReadsResult,
                executionVars, Concluded
  <2>2. QED
    BY <1>3, <1>4, <2>1, PlaceOf
       DEF Begins, SubmitValidates, Approve, Reject, DirectReads, CancelReads, DryRunReads,
           ExecutePlaces
<1>5. ASSUME NEW p \in Callers, Continues(p) PROVE StaysConcluded
  <2>1. \/ SubmitChecks(p) \/ (\E risk \in Submitted : SubmitSaves(p, risk)) \/ Link(p)
        \/ CreateReads(p) \/ CreateLooks(p) \/ CreateInserts(p)
        \/ DirectInserts(p) \/ CancelWrites(p)
        \/ DryRunSimulates(p) \/ DryRunInserts(p) \/ DryRunUpdates(p)
        \/ ExecuteUpdatesState(p) \/ ExecuteUpdatesReadiness(p)
    BY <1>1, <1>5
       DEF Continues, ExecuteReadsRequest, ExecuteReadsReadiness, ExecuteReadsDryRun,
           ExecuteReadsRecommendation, ExecuteStarts, ExecuteActs, ExecuteRecords, IsAt,
           ExecutePlaces
  <2>2. UNCHANGED <<acts, result>>
    BY <1>5, <2>1
       DEF Continues, CreateReads, CreateLooks, CreateInserts, DirectInserts, CancelWrites,
           DryRunSimulates, DryRunInserts, DryRunUpdates, ExecuteUpdatesState,
           ExecuteUpdatesReadiness, SubmitChecks, SubmitSaves, Link, executionVars,
           ExecuteReadsRequest, ExecuteReadsReadiness, ExecuteReadsDryRun,
           ExecuteReadsRecommendation, ExecuteStarts, PassesTo, ExecuteActs, ExecuteRecords,
           IsAt
  <2>3. CASE \/ SubmitChecks(p) \/ (\E risk \in Submitted : SubmitSaves(p, risk)) \/ Link(p)
             \/ CreateReads(p) \/ CreateLooks(p) \/ CreateInserts(p)
    BY <1>3, <1>5, <2>2, <2>3, PlaceOf
       DEF SubmitChecks, SubmitSaves, Link, CreateReads, CreateLooks, CreateInserts, Returns,
           ExecutePlaces
  <2>4. CASE \/ DirectInserts(p) \/ CancelWrites(p)
             \/ DryRunSimulates(p) \/ DryRunInserts(p) \/ DryRunUpdates(p)
             \/ ExecuteUpdatesState(p) \/ ExecuteUpdatesReadiness(p)
    BY <1>3, <1>5, <2>2, <2>4, PlaceOf
       DEF DirectInserts, CancelWrites, DryRunSimulates, DryRunInserts, DryRunUpdates,
           ExecuteUpdatesState, ExecuteUpdatesReadiness, Returns, ExecutePlaces
  <2>5. QED
    BY <2>1, <2>3, <2>4
<1>6. ASSUME NEW p \in Callers, QueryFails(p), UNCHANGED executionVars PROVE StaysConcluded
  <2>1. \A q \in Callers : call'[q] = Idle \/ call'[q] = call[q]
    BY <1>6 DEF QueryFails, Returns, Goes, Typed, TypeOK
  <2>2. \A q \in Callers : call'[q].at \notin ExecutePlaces
    BY <1>1, <2>1, PlaceOf DEF ExecutePlaces
  <2>3. QED
    BY <1>2, <1>6, <2>2 DEF executionVars
<1>7. ASSUME Restart, UNCHANGED executionVars PROVE StaysConcluded
  BY <1>2, <1>7, PlaceOf DEF Restart, ExecutePlaces, executionVars
<1>8. ASSUME UNCHANGED <<acts, result, call>> PROVE StaysConcluded
  BY <1>1, <1>2, <1>8
<1>9. ASSUME RecommendationChanges \/ Environment PROVE StaysConcluded
  BY <1>6, <1>7, <1>8, <1>9
     DEF RecommendationChanges, Environment, WorkflowOverdue, RequestOverdue, executionVars
<1>10. QED
  BY <1>4, <1>5, <1>8, <1>9 DEF Next, vars

\* Once a result is recorded and no call of execute is under way, the provider is
\* never acted on again (execute returns the recorded result).
THEOREM FinalResult == Spec => ResultIsFinal
<1>1. IInv => Typed
  BY DEF IInv
<1>2. ASSUME Typed, [Next]_vars, result # "NONE", Executing = {}
      PROVE  result' = result /\ Executing' = {} /\ acts' = acts
  BY <1>2, ConcludedKept DEF Concluded, StaysConcluded
<1>3. Typed /\ [Next]_vars =>
        [result # "NONE" /\ Executing = {} =>
           result' = result /\ Executing' = {} /\ acts' = acts]_vars
  BY <1>2
<1>4. QED
  BY <1>1, <1>3, Invariant, PTL DEF Spec, ResultIsFinal
-----------------------------------------------------------------------------
(* What holds if executions take turns.                                    *)

\* No two calls of execute are between their look for a result and its record.
InTurn == \A p, q \in Executing : p = q

\* Only a call that finds no result joins those that may still act.
LEMMA PreparingShrinks ==
  ASSUME Typed, [Next]_vars, \A p \in Callers : ~ExecuteReadsResult(p)
  PROVE  Preparing' \subseteq Preparing
<1>1. call \in [Callers -> CallRecord]
  BY DEF Typed, TypeOK
<1>2. ASSUME NEW p \in Callers, Begins(p) \/ Continues(p),
             NEW c, Goes(p, c), c.at \in PreparePlaces => p \in Preparing
      PROVE  Preparing' \subseteq Preparing
  <2>1. call'[p] = c /\ \A q \in Callers : q # p => call'[q] = call[q]
    BY <1>1, <1>2, OthersWait DEF Goes
  <2>2. QED
    BY <1>2, <2>1 DEF Preparing, PreparePlaces, ExecutePlaces
<1>3. ASSUME NEW p \in Callers, Begins(p) PROVE Preparing' \subseteq Preparing
  BY <1>2, <1>3, PlaceOf
     DEF Begins, SubmitValidates, Approve, Reject, DirectReads, CancelReads, DryRunReads,
         PreparePlaces, ExecutePlaces
<1>4. ASSUME NEW p \in Callers, Continues(p) PROVE Preparing' \subseteq Preparing
  <2>1. CASE \/ ExecuteReadsRequest(p) \/ ExecuteReadsReadiness(p) \/ ExecuteReadsDryRun(p)
             \/ ExecuteReadsRecommendation(p) \/ ExecuteStarts(p) \/ ExecuteActs(p)
    <3>1. p \in Preparing
      BY <2>1
         DEF ExecuteReadsRequest, ExecuteReadsReadiness, ExecuteReadsDryRun,
             ExecuteReadsRecommendation, ExecuteStarts, ExecuteActs, IsAt, Preparing
    <3>2. QED
      BY <1>2, <1>4, <2>1, <3>1
         DEF ExecuteReadsRequest, ExecuteReadsReadiness, ExecuteReadsDryRun,
             ExecuteReadsRecommendation, ExecuteStarts, ExecuteActs, PassesTo
  <2>2. CASE \/ SubmitChecks(p) \/ (\E risk \in Submitted : SubmitSaves(p, risk)) \/ Link(p)
             \/ CreateReads(p) \/ CreateLooks(p) \/ CreateInserts(p)
    BY <1>2, <1>4, <2>2, PlaceOf
       DEF SubmitChecks, SubmitSaves, Link, CreateReads, CreateLooks, CreateInserts, Returns,
           PreparePlaces, ExecutePlaces
  <2>3. CASE \/ DirectInserts(p) \/ CancelWrites(p)
             \/ DryRunSimulates(p) \/ DryRunInserts(p) \/ DryRunUpdates(p)
             \/ ExecuteRecords(p) \/ ExecuteUpdatesState(p) \/ ExecuteUpdatesReadiness(p)
    BY <1>2, <1>4, <2>3, PlaceOf
       DEF DirectInserts, CancelWrites, DryRunSimulates, DryRunInserts, DryRunUpdates,
           ExecuteRecords, ExecuteUpdatesState, ExecuteUpdatesReadiness, Returns,
           PreparePlaces, ExecutePlaces
  <2>4. QED
    BY <1>4, <2>1, <2>2, <2>3 DEF Continues
<1>5. ASSUME \A q \in Callers : call'[q] = Idle \/ call'[q] = call[q]
      PROVE  Preparing' \subseteq Preparing
  BY <1>5, PlaceOf DEF Preparing
<1>6. ASSUME RecommendationChanges \/ Environment PROVE Preparing' \subseteq Preparing
  <2>1. \A q \in Callers : call'[q] = Idle \/ call'[q] = call[q]
    BY <1>1, <1>6
       DEF RecommendationChanges, Environment, WorkflowOverdue, RequestOverdue, QueryFails,
           Restart, Returns, Goes
  <2>2. QED
    BY <1>5, <2>1
<1>7. ASSUME UNCHANGED vars PROVE Preparing' \subseteq Preparing
  BY <1>7 DEF vars, Preparing
<1>8. QED
  BY <1>3, <1>4, <1>6, <1>7 DEF Next

\* Only ExecuteActs acts, and faults are not taken back.
LEMMA ActsMove ==
  ASSUME Typed, [Next]_vars
  PROVE  /\ (\A p \in Callers : ~ExecuteActs(p)) => acts' = acts
         /\ faults' = faults \/ faults' = faults + 1
<1>1. ASSUME NEW p \in Callers, Begins(p) PROVE UNCHANGED <<acts, faults>>
  BY <1>1 DEF Begins, SubmitValidates, Approve, Reject, DirectReads, CancelReads,
              DryRunReads, ExecuteReadsResult, authorityVars, executionVars
<1>2. ASSUME NEW p \in Callers, Continues(p), ~ExecuteActs(p) PROVE UNCHANGED <<acts, faults>>
  BY <1>2
     DEF Continues, SubmitChecks, SubmitSaves, Link, CreateReads, CreateLooks,
         CreateInserts, DirectInserts, CancelWrites, DryRunSimulates, DryRunInserts,
         DryRunUpdates, ExecuteReadsRequest, ExecuteReadsReadiness, ExecuteReadsDryRun,
         ExecuteReadsRecommendation, ExecuteStarts, PassesTo, ExecuteRecords,
         ExecuteUpdatesState, ExecuteUpdatesReadiness, authorityVars, executionVars
<1>3. ASSUME NEW p \in Callers, ExecuteActs(p) PROVE faults' = faults
  BY <1>3 DEF ExecuteActs, authorityVars
<1>4. ASSUME RecommendationChanges \/ Environment
      PROVE  acts' = acts /\ (faults' = faults \/ faults' = faults + 1)
  BY <1>4 DEF RecommendationChanges, Environment, WorkflowOverdue, RequestOverdue, QueryFails,
              Restart, authorityVars, executionVars
<1>5. ASSUME UNCHANGED vars PROVE UNCHANGED <<acts, faults>>
  BY <1>5 DEF vars
<1>6. QED
  BY <1>1, <1>2, <1>3, <1>4, <1>5 DEF Next

\* Unless something failed, the provider was acted on at most once, and once it was,
\* no call may act any more.
ActedOnce == faults = 0 => acts <= 1 /\ (acts > 0 => Preparing = {})

\* A call that joins those that may act would overlap with the one that acted.
LEMMA ActedOnceKept ==
  ASSUME Typed, ActedOnce, ActRecorded, InTurn, InTurn', [Next]_vars
  PROVE  ActedOnce'
<1>1. /\ faults \in Nat /\ acts \in Nat /\ call \in [Callers -> CallRecord]
  BY AuthorityAssumption DEF Typed, TypeOK
<1>2. faults' = 0 => faults = 0
  BY <1>1, ActsMove
<1>3. ASSUME NEW p \in Callers, ExecuteReadsResult(p) PROVE ActedOnce'
  <2>1. /\ acts' = acts /\ faults' = faults /\ result = "NONE" /\ call[p].at = "idle"
        /\ Goes(p, [at |-> "execute: request"])
    BY <1>3 DEF ExecuteReadsResult, authorityVars, executionVars, IsAt
  <2>2. ASSUME faults = 0, acts > 0 PROVE FALSE
    <3>1. PICK q \in Callers : call[q].at = "execute: record"
      BY <2>1, <2>2 DEF ActRecorded
    <3>2. q # p /\ call'[q].at = "execute: record" /\ call'[p].at = "execute: request"
      BY <1>1, <2>1, <3>1, PlaceOf DEF Goes
    <3>3. p \in Executing' /\ q \in Executing'
      BY <3>2, ExecutingPlaces DEF Executing, Preparing, IsAt
    <3>4. QED
      BY <3>2, <3>3 DEF InTurn
  <2>3. QED
    BY <1>1, <2>1, <2>2 DEF ActedOnce
<1>4. ASSUME NEW p \in Callers, ExecuteActs(p) PROVE ActedOnce'
  <2>1. /\ acts' = acts + 1 /\ call[p].at = "execute: act"
        /\ Goes(p, [at |-> "execute: record", state |-> "EXECUTED"])
    BY <1>4 DEF ExecuteActs, IsAt
  <2>2. p \in Preparing
    BY <2>1 DEF Preparing
  <2>3. faults = 0 => acts = 0
    BY <1>1, <2>2 DEF ActedOnce
  <2>4. call'[p].at = "execute: record" /\ \A q \in Callers : q # p => call'[q] = call[q]
    BY <1>1, <2>1, PlaceOf DEF Goes
  <2>5. \A q \in Preparing : q = p
    BY <2>2 DEF InTurn, Executing
  <2>6. Preparing' = {}
    BY <2>4, <2>5 DEF Preparing
  <2>7. faults' = 0 => acts' <= 1
    <3>1. faults' = 0 => acts' = 0 + 1
      BY <1>2, <2>1, <2>3
    <3>2. QED
      BY <3>1
  <2>8. QED
    BY <2>6, <2>7 DEF ActedOnce
<1>5. ASSUME \A p \in Callers : ~ExecuteReadsResult(p) /\ ~ExecuteActs(p) PROVE ActedOnce'
  <2>1. acts' = acts /\ Preparing' \subseteq Preparing
    BY <1>5, ActsMove, PreparingShrinks
  <2>2. QED
    BY <1>2, <2>1 DEF ActedOnce
<1>6. QED
  BY <1>3, <1>4, <1>5

\* "idempotency prevents duplicate execution": so it does, if nothing fails, for calls
\* of execute that do not overlap before their result is recorded, whatever else
\* overlaps with them.
THEOREM ExecutedInTurn == Spec /\ []InTurn => [](faults = 0 => ExecutedOnce)
<1>1. Init => ActedOnce /\ ActRecorded
  <2>1. Init => acts = 0
    BY DEF Init
  <2>2. acts = 0 => acts <= 1 /\ ~(acts > 0)
    OBVIOUS
  <2>3. QED
    BY <2>1, <2>2 DEF ActedOnce, ActRecorded
<1>2. IInv => Typed
  BY DEF IInv
<1>3. ActRecorded /\ Typed /\ [Next]_vars => ActRecorded'
  BY ActRecordedKept
<1>4. ActedOnce /\ ActRecorded /\ Typed /\ InTurn /\ InTurn' /\ [Next]_vars => ActedOnce'
  BY ActedOnceKept
<1>5. ActedOnce => (faults = 0 => ExecutedOnce)
  BY DEF ActedOnce, ExecutedOnce
<1>6. QED
  BY <1>1, <1>2, <1>3, <1>4, <1>5, Invariant, PTL DEF Spec

\* The places a call of execute reaches only from a request that was not CANCELLED.
PassedPlaces == PreparePlaces \ {"execute: request"}

\* A cancelled request of which nothing was executed: until a result is recorded its row
\* says CANCELLED, no call looks at the row once a result is, and none has passed it.
CancelledOK ==
  /\ acts = 0 /\ Requested
  /\ result = "NONE" => request.state = "CANCELLED"
  /\ \A p \in Callers :
       /\ call[p].at \notin PassedPlaces
       /\ call[p].at = "execute: request" => result = "NONE"
       /\ call[p].at = "execute: state" => result # "NONE"

\* What calls may not do to a cancelled request is done by calls of execute alone.
LEMMA CancelledByOthers ==
  ASSUME Typed, CancelledOK, acts' = acts, result' = result, Requested',
         result = "NONE" => request'.state = request.state,
         \A q \in Callers :
           call'[q] = call[q] \/ call'[q].at \notin ExecutePlaces \cup {"execute: state"}
  PROVE  CancelledOK'
<1>1. \A q \in Callers :
        /\ call'[q].at \notin PassedPlaces
        /\ call'[q].at = "execute: request" => result = "NONE"
        /\ call'[q].at = "execute: state" => result # "NONE"
  BY DEF CancelledOK, PassedPlaces, PreparePlaces, ExecutePlaces
<1>2. QED
  BY <1>1 DEF CancelledOK

\* Before a result is recorded only those calls have passed the look for one; the call
\* that records it executes alone, so none is about to look at the row it then rewrites.
LEMMA CancelledKept ==
  ASSUME Typed, CancelledOK, InTurn, [Next]_vars
  PROVE  CancelledOK'
<1>1. /\ call \in [Callers -> CallRecord] /\ request \in Request \cup {NoRequest}
      /\ Requested /\ request \in Request
  BY DEF Typed, TypeOK, CancelledOK, Requested
<1>2. \A c, s : /\ [request EXCEPT !.state = s] # NoRequest
                /\ [request EXCEPT !.state = s].state = s
                /\ [request EXCEPT !.readiness = c] # NoRequest
                /\ [request EXCEPT !.readiness = c].state = request.state
                /\ [request EXCEPT !.overdue = c] # NoRequest
                /\ [request EXCEPT !.overdue = c].state = request.state
  BY <1>1 DEF Request, NoRequest
<1>3. ASSUME NEW p \in Callers, Begins(p) \/ Continues(p), NEW c, Goes(p, c),
             c.at \notin ExecutePlaces \cup {"execute: state"},
             UNCHANGED <<acts, result>>, Requested',
             result = "NONE" => request'.state = request.state
      PROVE  CancelledOK'
  <2>1. call'[p] = c /\ \A q \in Callers : q # p => call'[q] = call[q]
    BY <1>1, <1>3, OthersWait DEF Goes
  <2>2. \A q \in Callers :
          call'[q] = call[q] \/ call'[q].at \notin ExecutePlaces \cup {"execute: state"}
    BY <1>3, <2>1
  <2>3. QED
    BY <1>3, <2>2, CancelledByOthers
<1>4. ASSUME NEW p \in Callers, Begins(p) PROVE CancelledOK'
  <2>1. CASE ExecuteReadsResult(p)
    <3>1. /\ UNCHANGED <<acts, result, request>> /\ result = "NONE"
          /\ Goes(p, [at |-> "execute: request"])
      BY <2>1 DEF ExecuteReadsResult, executionVars
    <3>2. /\ call'[p].at = "execute: request"
          /\ \A q \in Callers : q # p => call'[q] = call[q]
      BY <1>1, <1>4, <3>1, OthersWait, PlaceOf DEF Goes
    <3>3. QED
      BY <1>1, <3>1, <3>2 DEF CancelledOK, Requested, PassedPlaces
  <2>2. CASE ~ExecuteReadsResult(p)
    <3>1. UNCHANGED <<acts, result, request>>
      BY <1>4, <2>2
         DEF Begins, SubmitValidates, Approve, Reject, DirectReads, CancelReads, DryRunReads,
             executionVars
    <3>2. Requested' /\ request'.state = request.state
      BY <1>1, <3>1 DEF Requested
    <3>3. ASSUME NEW c, Goes(p, c), c.at \notin ExecutePlaces \cup {"execute: state"}
          PROVE  CancelledOK'
      BY <1>3, <1>4, <3>1, <3>2, <3>3
    <3>4. QED
      BY <1>4, <2>2, <3>3, PlaceOf
         DEF Begins, SubmitValidates, Approve, Reject, DirectReads, CancelReads, DryRunReads,
             ExecutePlaces
  <2>3. QED
    BY <2>1, <2>2
<1>5. ASSUME NEW p \in Callers, Continues(p) PROVE CancelledOK'
  <2>1. CASE ExecuteReadsRequest(p)
    <3>1. request.state = "CANCELLED"
      BY <2>1 DEF ExecuteReadsRequest, IsAt, CancelledOK
    <3>2. /\ UNCHANGED <<acts, result, request>>
          /\ Goes(p, [at |-> "execute: record", state |-> "BLOCKED"])
      BY <2>1, <3>1 DEF ExecuteReadsRequest, PassesTo, executionVars
    <3>3. /\ call'[p].at = "execute: record"
          /\ \A q \in Callers : q # p => call'[q] = call[q]
      BY <1>1, <1>5, <3>2, OthersWait, PlaceOf DEF Goes
    <3>4. QED
      BY <1>1, <3>2, <3>3
         DEF CancelledOK, Requested, PassedPlaces, PreparePlaces, ExecutePlaces
  <2>2. CASE \/ ExecuteReadsReadiness(p) \/ ExecuteReadsDryRun(p)
             \/ ExecuteReadsRecommendation(p) \/ ExecuteStarts(p) \/ ExecuteActs(p)
    BY <2>2
       DEF ExecuteReadsReadiness, ExecuteReadsDryRun, ExecuteReadsRecommendation,
           ExecuteStarts, ExecuteActs, IsAt, CancelledOK, PassedPlaces, PreparePlaces,
           ExecutePlaces
  <2>3. CASE ExecuteRecords(p)
    <3>1. p \in Executing
      BY <2>3 DEF ExecuteRecords, Executing
    <3>2. \A q \in Callers : q # p => call[q].at # "execute: request"
      BY <3>1, ExecutingPlaces DEF InTurn, ExecutePlaces
    <3>3. /\ UNCHANGED <<acts, request>> /\ result' # "NONE"
          /\ \/ Goes(p, [at |-> "execute: state", state |-> call[p].state])
             \/ Goes(p, Idle)
      BY <1>1, <2>3, CallFields DEF ExecuteRecords, Returns, IsAt
    <3>4. /\ call'[p].at \in {"execute: state", "idle"}
          /\ \A q \in Callers : q # p => call'[q] = call[q]
      <4>1. ASSUME NEW c, Goes(p, c), c.at \in {"execute: state", "idle"}
            PROVE  call'[p].at \in {"execute: state", "idle"}
        BY <1>1, <4>1 DEF Goes
      <4>2. call'[p].at \in {"execute: state", "idle"}
        BY <3>3, <4>1, PlaceOf
      <4>3. \A q \in Callers : q # p => call'[q] = call[q]
        BY <1>5, OthersWait
      <4>4. QED
        BY <4>2, <4>3
    <3>5. QED
      BY <1>1, <3>2, <3>3, <3>4
         DEF CancelledOK, Requested, PassedPlaces, PreparePlaces, ExecutePlaces
  <2>4. CASE ExecuteUpdatesState(p)
    <3>1. /\ UNCHANGED <<acts, result>> /\ result # "NONE"
          /\ request' = [request EXCEPT !.state = call[p].state]
          /\ Goes(p, [at |-> "execute: update", state |-> call[p].state])
      BY <2>4 DEF ExecuteUpdatesState, IsAt, CancelledOK
    <3>2. Requested'
      BY <1>2, <3>1 DEF Requested
    <3>3. QED
      BY <1>3, <1>5, <3>1, <3>2, PlaceOf DEF ExecutePlaces
  <2>5. CASE CancelWrites(p)
    <3>1. /\ UNCHANGED <<acts, result>> /\ Goes(p, Idle)
          /\ request' = [request EXCEPT !.state = "CANCELLED"]
      BY <2>5 DEF CancelWrites, Returns
    <3>2. Requested' /\ (result = "NONE" => request'.state = request.state)
      BY <1>2, <3>1 DEF Requested, CancelledOK
    <3>3. QED
      BY <1>3, <1>5, <3>1, <3>2, PlaceOf DEF ExecutePlaces
  <2>6. CASE \/ SubmitChecks(p) /\ UNCHANGED executionVars
             \/ (\E risk \in Submitted : SubmitSaves(p, risk)) /\ UNCHANGED executionVars
             \/ Link(p) /\ UNCHANGED executionVars
             \/ CreateReads(p) \/ CreateLooks(p) \/ CreateInserts(p) \/ DirectInserts(p)
             \/ DryRunSimulates(p) \/ DryRunInserts(p)
    <3>1. UNCHANGED <<acts, result, request>>
      BY <1>1, <2>6
         DEF CreateReads, CreateLooks, CreateInserts, DirectInserts, DryRunSimulates,
             DryRunInserts, executionVars
    <3>2. Requested' /\ request'.state = request.state
      BY <1>1, <3>1 DEF Requested
    <3>3. ASSUME NEW c, Goes(p, c), c.at \notin ExecutePlaces \cup {"execute: state"}
          PROVE  CancelledOK'
      BY <1>3, <1>5, <3>1, <3>2, <3>3
    <3>4. QED
      BY <2>6, <3>3, PlaceOf
         DEF SubmitChecks, SubmitSaves, Link, CreateReads, CreateLooks, CreateInserts,
             DirectInserts, DryRunSimulates, DryRunInserts, Returns, ExecutePlaces
  <2>7. CASE DryRunUpdates(p) \/ ExecuteUpdatesReadiness(p)
    <3>1. UNCHANGED <<acts, result>> /\ Goes(p, Idle)
      BY <2>7 DEF DryRunUpdates, ExecuteUpdatesReadiness, Returns
    <3>2. Requested' /\ request'.state = request.state
      BY <1>2, <2>7 DEF DryRunUpdates, ExecuteUpdatesReadiness, Requested
    <3>3. QED
      BY <1>3, <1>5, <3>1, <3>2, PlaceOf DEF ExecutePlaces
  <2>8. QED
    BY <1>5, <2>1, <2>2, <2>3, <2>4, <2>5, <2>6, <2>7 DEF Continues
<1>6. ASSUME RecommendationChanges \/ Environment PROVE CancelledOK'
  <2>1. UNCHANGED <<acts, result>>
    BY <1>6 DEF RecommendationChanges, Environment, RequestOverdue, executionVars
  <2>2. Requested' /\ request'.state = request.state
    BY <1>1, <1>2, <1>6
       DEF RecommendationChanges, Environment, RequestOverdue, executionVars, Requested
  <2>3. \A q \in Callers : call'[q] = Idle \/ call'[q] = call[q]
    BY <1>1, <1>6
       DEF RecommendationChanges, Environment, WorkflowOverdue, RequestOverdue, QueryFails,
           Restart, Returns, Goes
  <2>4. \A q \in Callers :
          call'[q] = call[q] \/ call'[q].at \notin ExecutePlaces \cup {"execute: state"}
    BY <2>3, PlaceOf DEF ExecutePlaces
  <2>5. QED
    BY <2>1, <2>2, <2>4, CancelledByOthers
<1>7. ASSUME UNCHANGED vars PROVE CancelledOK'
  BY <1>7 DEF vars, CancelledOK, Requested
<1>8. QED
  BY <1>4, <1>5, <1>6, <1>7 DEF Next

\* REQUEST_CANCELLED is among the blocks of execute: it is, for a request that was
\* cancelled while no call was under way, if calls of execute do not overlap before
\* their result is recorded, whatever fails.
THEOREM CancelledInTurn == Spec /\ []InTurn => CancelledIsNotExecuted
<1> DEFINE Cancelled == /\ Requested /\ request.state = "CANCELLED"
                        /\ \A p \in Callers : IsAt(p, "idle")
                        /\ acts = 0
<1>1. Cancelled => CancelledOK
  BY DEF CancelledOK, IsAt, PassedPlaces, PreparePlaces, ExecutePlaces
<1>2. IInv => Typed
  BY DEF IInv
<1>3. CancelledOK /\ Typed /\ InTurn /\ [Next]_vars => CancelledOK'
  BY CancelledKept
<1>4. CancelledOK => acts = 0
  BY DEF CancelledOK
<1>5. Spec /\ []InTurn => [](Cancelled => [](acts = 0))
  <2> HIDE DEF Cancelled
  <2>1. QED
    BY <1>1, <1>2, <1>3, <1>4, Invariant, PTL DEF Spec
<1>6. QED
  BY <1>5 DEF CancelledIsNotExecuted

-----------------------------------------------------------------------------
(* Governed execution implements GovernedAction.                           *)

\* A step of call p moves it alone between those that have acted and those that have not.
LEMMA ExecutionMoves ==
  ASSUME Typed, NEW p \in Callers, Begins(p) \/ Continues(p), NEW c, Goes(p, c)
  PROVE  /\ (c.at \in PreparePlaces \/ (c.at = "execute: record" /\ c.state # "EXECUTED")) =>
              HaveNotActed' = HaveNotActed \cup {p} /\ HaveActed' = HaveActed \ {p}
         /\ (c.at = "execute: record" /\ c.state = "EXECUTED") =>
              HaveNotActed' = HaveNotActed \ {p} /\ HaveActed' = HaveActed \cup {p}
         /\ c.at \notin ExecutePlaces =>
              HaveNotActed' = HaveNotActed \ {p} /\ HaveActed' = HaveActed \ {p}
<1>1. call'[p] = c /\ \A q \in Callers : q # p => call'[q] = call[q]
  BY OthersWait DEF Goes, Typed, TypeOK
<1>2. \A q \in Callers : q \in HaveActed <=>
        call[q].at = "execute: record" /\ call[q].state = "EXECUTED"
  BY DEF HaveActed
<1>3. \A q \in Callers : q \in HaveActed' <=>
        call'[q].at = "execute: record" /\ call'[q].state = "EXECUTED"
  BY DEF HaveActed
<1>4. \A q \in Callers : q \in HaveNotActed <=>
        call[q].at \in ExecutePlaces /\ ~(call[q].at = "execute: record" /\ call[q].state = "EXECUTED")
  BY ExecutingPlaces, <1>2 DEF HaveNotActed
<1>5. \A q \in Callers : q \in HaveNotActed' <=>
        call'[q].at \in ExecutePlaces /\ ~(call'[q].at = "execute: record" /\ call'[q].state = "EXECUTED")
  <2>1. Executing' = {q \in Callers : call'[q].at \in ExecutePlaces}
    BY DEF Executing, Preparing, IsAt, ExecutePlaces
  <2>2. QED
    BY <1>3, <2>1 DEF HaveNotActed
<1>6. /\ HaveActed \subseteq Callers /\ HaveActed' \subseteq Callers
      /\ HaveNotActed \subseteq Callers /\ HaveNotActed' \subseteq Callers
  BY DEF HaveActed, HaveNotActed, Executing, Preparing
<1>7. PreparePlaces \subseteq ExecutePlaces /\ "execute: record" \notin PreparePlaces
      /\ "execute: record" \in ExecutePlaces
  BY DEF PreparePlaces, ExecutePlaces
<1>8. \A q \in Callers : q # p =>
        (q \in HaveActed' <=> q \in HaveActed) /\ (q \in HaveNotActed' <=> q \in HaveNotActed)
  BY <1>1, <1>2, <1>3, <1>4, <1>5
<1>9. ASSUME c.at \in PreparePlaces \/ (c.at = "execute: record" /\ c.state # "EXECUTED")
      PROVE  HaveNotActed' = HaveNotActed \cup {p} /\ HaveActed' = HaveActed \ {p}
  <2>1. p \in HaveNotActed' /\ p \notin HaveActed'
    BY <1>1, <1>3, <1>5, <1>7, <1>9
  <2>2. QED
    BY <1>6, <1>8, <2>1
<1>10. ASSUME c.at = "execute: record", c.state = "EXECUTED"
       PROVE  HaveNotActed' = HaveNotActed \ {p} /\ HaveActed' = HaveActed \cup {p}
  <2>1. p \notin HaveNotActed' /\ p \in HaveActed'
    BY <1>1, <1>3, <1>5, <1>7, <1>10
  <2>2. QED
    BY <1>6, <1>8, <2>1
<1>11. ASSUME c.at \notin ExecutePlaces
       PROVE  HaveNotActed' = HaveNotActed \ {p} /\ HaveActed' = HaveActed \ {p}
  <2>1. p \notin HaveNotActed' /\ p \notin HaveActed'
    BY <1>1, <1>3, <1>5, <1>7, <1>11
  <2>2. QED
    BY <1>6, <1>8, <2>1
<1>12. QED
  BY <1>9, <1>10, <1>11

\* Where a call stands says whether it executes, and whether it has acted.
LEMMA ExecutionStands ==
  ASSUME NEW p \in Callers
  PROVE  /\ call[p].at \in PreparePlaces => p \in HaveNotActed /\ p \notin HaveActed
         /\ call[p].at \notin ExecutePlaces => p \notin HaveNotActed /\ p \notin HaveActed
         /\ call[p].at = "execute: record" =>
              IF call[p].state = "EXECUTED" THEN p \in HaveActed /\ p \notin HaveNotActed
                                            ELSE p \in HaveNotActed /\ p \notin HaveActed
<1>1. /\ PreparePlaces \subseteq ExecutePlaces /\ "execute: record" \notin PreparePlaces
      /\ "execute: record" \in ExecutePlaces
  BY DEF PreparePlaces, ExecutePlaces
<1>2. p \in Executing <=> call[p].at \in ExecutePlaces
  BY ExecutingPlaces
<1>3. QED
  BY <1>1, <1>2 DEF HaveActed, HaveNotActed

\* All other steps leave the executions, their acts and the result as they are.
LEMMA ExecutionsStay ==
  ASSUME Typed, NEW p \in Callers, Begins(p) \/ Continues(p),
         ~ExecuteReadsResult(p), ~ExecuteActs(p), ~ExecuteRecords(p)
  PROVE  UNCHANGED <<HaveNotActed, HaveActed, acts, result, faults>>
<1>1. UNCHANGED <<acts, result, faults>>
  <2>1. CASE Begins(p)
    BY <2>1
       DEF Begins, SubmitValidates, Approve, Reject, DirectReads, CancelReads, DryRunReads,
           authorityVars, executionVars
  <2>2. CASE Continues(p)
    BY <2>2
       DEF Continues, SubmitChecks, SubmitSaves, Link, CreateReads, CreateLooks,
           CreateInserts, DirectInserts, CancelWrites, DryRunSimulates, DryRunInserts,
           DryRunUpdates, ExecuteReadsRequest, ExecuteReadsReadiness, ExecuteReadsDryRun,
           ExecuteReadsRecommendation, ExecuteStarts, PassesTo, ExecuteUpdatesState,
           ExecuteUpdatesReadiness, authorityVars, executionVars
  <2>3. QED
    BY <2>1, <2>2
<1>2. ASSUME call[p].at \notin ExecutePlaces, NEW c, Goes(p, c), c.at \notin ExecutePlaces
      PROVE  UNCHANGED <<HaveNotActed, HaveActed>>
  BY <1>2, ExecutionMoves, ExecutionStands
<1>3. ASSUME call[p].at \in PreparePlaces, NEW c, Goes(p, c),
             c.at \in PreparePlaces \/ (c.at = "execute: record" /\ c.state # "EXECUTED")
      PROVE  UNCHANGED <<HaveNotActed, HaveActed>>
  BY <1>3, ExecutionMoves, ExecutionStands
<1>4. ASSUME Begins(p) PROVE UNCHANGED <<HaveNotActed, HaveActed>>
  BY <1>2, <1>4, PlaceOf
     DEF Begins, SubmitValidates, Approve, Reject, DirectReads, CancelReads, DryRunReads,
         IsAt, ExecutePlaces
<1>5. ASSUME Continues(p) PROVE UNCHANGED <<HaveNotActed, HaveActed>>
  <2>1. ASSUME NEW ok \in BOOLEAN, NEW pc \in PreparePlaces, PassesTo(p, ok, pc),
               call[p].at \in PreparePlaces
        PROVE  UNCHANGED <<HaveNotActed, HaveActed>>
    <3>1. CASE ok
      <4>1. Goes(p, [at |-> pc]) /\ [at |-> pc].at \in PreparePlaces
        BY <2>1, <3>1, PlaceOf DEF PassesTo
      <4>2. QED
        BY <1>3, <2>1, <4>1
    <3>2. CASE ~ok
      <4>1. Goes(p, [at |-> "execute: record", state |-> "BLOCKED"])
        BY <2>1, <3>2 DEF PassesTo
      <4>2. /\ [at |-> "execute: record", state |-> "BLOCKED"].at = "execute: record"
            /\ [at |-> "execute: record", state |-> "BLOCKED"].state # "EXECUTED"
        BY PlaceOf
      <4>3. QED
        BY <1>3, <2>1, <4>1, <4>2
    <3>3. QED
      BY <3>1, <3>2
  <2>2. CASE \/ ExecuteReadsRequest(p) \/ ExecuteReadsReadiness(p) \/ ExecuteReadsDryRun(p)
             \/ ExecuteReadsRecommendation(p) \/ ExecuteStarts(p)
    BY <2>1, <2>2
       DEF ExecuteReadsRequest, ExecuteReadsReadiness, ExecuteReadsDryRun,
           ExecuteReadsRecommendation, ExecuteStarts, IsAt, PreparePlaces, ExecutePlaces
  <2>3. CASE \/ SubmitChecks(p) \/ (\E risk \in Submitted : SubmitSaves(p, risk)) \/ Link(p)
             \/ CreateReads(p) \/ CreateLooks(p) \/ CreateInserts(p)
    BY <1>2, <1>5, <2>3, PlaceOf
       DEF SubmitChecks, SubmitSaves, Link, CreateReads, CreateLooks, CreateInserts, Returns,
           IsAt, ExecutePlaces
  <2>4. CASE \/ DirectInserts(p) \/ CancelWrites(p)
             \/ DryRunSimulates(p) \/ DryRunInserts(p) \/ DryRunUpdates(p)
             \/ ExecuteUpdatesState(p) \/ ExecuteUpdatesReadiness(p)
    BY <1>2, <1>5, <2>4, PlaceOf
       DEF DirectInserts, CancelWrites, DryRunSimulates, DryRunInserts, DryRunUpdates,
           ExecuteUpdatesState, ExecuteUpdatesReadiness, Returns, IsAt, ExecutePlaces
  <2>5. QED
    BY <1>5, <2>2, <2>3, <2>4 DEF Continues
<1>6. QED
  BY <1>1, <1>4, <1>5

\* A fault is counted, and can only take executions away.
LEMMA FaultsTake ==
  ASSUME Typed, (\E p \in Callers : QueryFails(p)) \/ Restart, UNCHANGED executionVars
  PROVE  Governed!Fail
<1>1. \A q \in Callers : call'[q] = Idle \/ call'[q] = call[q]
  BY DEF QueryFails, Restart, Returns, Goes, Typed, TypeOK
<1>2. HaveActed' \subseteq HaveActed
  BY <1>1, PlaceOf DEF HaveActed
<1>3. Executing' \subseteq Executing
  BY <1>1, PlaceOf DEF Executing, Preparing, IsAt
<1>4. HaveNotActed' \subseteq HaveNotActed
  <2>1. \A q \in HaveNotActed' : q \in Executing /\ call'[q] = call[q]
    BY <1>1, <1>3, PlaceOf DEF HaveNotActed, Executing, Preparing, IsAt
  <2>2. QED
    BY <2>1 DEF HaveNotActed, HaveActed
<1>5. faults' = faults + 1 /\ UNCHANGED <<granted, request, acts, result>>
  BY DEF QueryFails, Restart, executionVars
<1>6. QED
  BY <1>2, <1>4, <1>5 DEF Governed!Fail, Requested

Approved == {w \in WorkflowIds : granted[w] # Missing}
Subject  == IF Requested THEN request.workflow ELSE -1

\* What the steps change of what GovernedAction sees.
LEMMA VisibleSteps ==
  ASSUME Typed, Next
  PROVE  \/ \E p \in Callers :
              \/ /\ \E w \in WorkflowIds, a \in Actors, role \in Roles : Approve(p, w, a, role)
                 /\ Begins(p)
                 /\ UNCHANGED executionVars
              \/ (CreateInserts(p) \/ DirectInserts(p)) /\ Continues(p)
              \/ ExecuteReadsResult(p) \/ ExecuteActs(p) \/ ExecuteRecords(p)
              \/ QueryFails(p) /\ UNCHANGED executionVars
         \/ Restart /\ UNCHANGED executionVars
         \/ UNCHANGED <<granted, HaveNotActed, HaveActed, acts, result, faults>>
<1>1. ASSUME NEW p \in Callers, Begins(p), ~ExecuteReadsResult(p),
             ~\E w \in WorkflowIds, a \in Actors, role \in Roles : Approve(p, w, a, role)
      PROVE  UNCHANGED <<granted, HaveNotActed, HaveActed, acts, result, faults>>
  <2>1. UNCHANGED granted
    BY <1>1
       DEF Begins, SubmitValidates, Reject, DirectReads, CancelReads, DryRunReads,
           authorityVars
  <2>2. ~ExecuteActs(p) /\ ~ExecuteRecords(p)
    BY <1>1
       DEF Begins, SubmitValidates, Reject, DirectReads, CancelReads, DryRunReads,
           ExecuteActs, ExecuteRecords, IsAt
  <2>3. QED
    BY <1>1, <2>1, <2>2, ExecutionsStay
<1>2. ASSUME NEW p \in Callers, Begins(p),
             NEW w \in WorkflowIds, NEW a \in Actors, NEW role \in Roles,
             Approve(p, w, a, role)
      PROVE  UNCHANGED executionVars
  BY <1>2 DEF Begins, DirectReads, CancelReads, DryRunReads, ExecuteReadsResult
<1>3. ASSUME NEW p \in Callers, Continues(p),
             ~(\/ CreateInserts(p) \/ DirectInserts(p)
               \/ ExecuteActs(p) \/ ExecuteRecords(p))
      PROVE  UNCHANGED <<granted, HaveNotActed, HaveActed, acts, result, faults>>
  <2>1. UNCHANGED granted
    BY <1>3
       DEF Continues, SubmitChecks, SubmitSaves, Link, CreateReads, CreateLooks, CancelWrites,
           DryRunSimulates, DryRunInserts, DryRunUpdates, ExecuteReadsRequest,
           ExecuteReadsReadiness, ExecuteReadsDryRun, ExecuteReadsRecommendation,
           ExecuteStarts, PassesTo, ExecuteUpdatesState, ExecuteUpdatesReadiness,
           authorityVars
  <2>2. ~IsAt(p, "idle")
    BY <1>3
       DEF Continues, SubmitChecks, SubmitSaves, Link, CreateReads, CreateLooks, CancelWrites,
           DryRunSimulates, DryRunInserts, DryRunUpdates, ExecuteReadsRequest,
           ExecuteReadsReadiness, ExecuteReadsDryRun, ExecuteReadsRecommendation,
           ExecuteStarts, PassesTo, ExecuteUpdatesState, ExecuteUpdatesReadiness, IsAt
  <2>3. ~ExecuteReadsResult(p)
    BY <2>2 DEF ExecuteReadsResult
  <2>4. QED
    BY <1>3, <2>1, <2>3, ExecutionsStay
<1>4. ASSUME RecommendationChanges \/ (\E w \in WorkflowIds : WorkflowOverdue(w) /\ UNCHANGED executionVars)
             \/ RequestOverdue
      PROVE  UNCHANGED <<granted, HaveNotActed, HaveActed, acts, result, faults>>
  <2>1. UNCHANGED <<granted, call, acts, result, faults>>
    BY <1>4 DEF RecommendationChanges, WorkflowOverdue, RequestOverdue, authorityVars, executionVars
  <2>2. QED
    BY <2>1 DEF HaveNotActed, HaveActed, Executing, Preparing, IsAt
<1>5. QED
  BY <1>1, <1>2, <1>3, <1>4 DEF Next, Environment

\* The subject changes only when a request is created.
LEMMA SubjectKept ==
  ASSUME CallsOK, Grows, Next,
         ~\E p \in Callers : (CreateInserts(p) \/ DirectInserts(p)) /\ ~Requested
  PROVE  UNCHANGED Subject
<1>1. CASE Requested
  BY <1>1 DEF Grows, Requested, Subject
<1>2. CASE ~Requested
  <2>1. UNCHANGED request
    BY <1>2, RequestCreated
  <2>2. QED
    BY <2>1 DEF Subject, Requested
<1>3. QED
  BY <1>1, <1>2

\* Every step is one that GovernedAction allows, or one that it does not see.
LEMMA StepIsGoverned ==
  ASSUME IInv, Next
  PROVE  [Governed!Next]_(Governed!vars)
<1>1. Typed /\ CallsOK /\ WorkflowsOK /\ RequestOK
  BY DEF IInv
<1>2. Grows
  BY <1>1, NextGrows
<1>3. ASSUME NEW p \in Callers, NEW w \in WorkflowIds, NEW a \in Actors, NEW role \in Roles,
             Approve(p, w, a, role), Begins(p), UNCHANGED executionVars
      PROVE  [Governed!Next]_(Governed!vars)
  <2> DEFINE f == ApproveWorkflow(workflows[w], a, role)
  <2>1. UNCHANGED <<acts, result, faults, Subject>>
    BY <1>3 DEF Approve, executionVars, Subject, Requested
  <2>2. UNCHANGED <<HaveNotActed, HaveActed>>
    <3>1. ~ExecuteReadsResult(p) /\ ~ExecuteActs(p) /\ ~ExecuteRecords(p)
      BY <1>1, <1>3, PlaceOf
         DEF Approve, ExecuteReadsResult, ExecuteActs, ExecuteRecords, IsAt, Goes, Typed, TypeOK
    <3>2. QED
      BY <1>1, <1>3, <3>1, ExecutionsStay
  <2>3. f \in Workflow
    BY <1>1, <1>3, WorkflowTypes DEF Approve, Stored, Typed, TypeOK
  <2>4. granted' = granted \/ granted' = [granted EXCEPT ![w] = f]
    BY <1>3 DEF Approve
  <2> HIDE DEF f
  <2>5. Approved' = Approved \/ Approved' = Approved \cup {w}
    <3>1. granted \in [WorkflowIds -> Workflow \cup {Missing}]
      BY <1>1 DEF Typed, TypeOK
    <3>2. CASE granted' = [granted EXCEPT ![w] = f]
      <4>1. \A x \in WorkflowIds : granted'[x] # Missing <=> granted[x] # Missing \/ x = w
        BY <2>3, <3>1, <3>2, NullsAreNone
      <4>2. QED
        BY <4>1 DEF Approved
    <3>3. QED
      BY <2>4, <3>2 DEF Approved
  <2>6. CASE Approved' = Approved
    BY <2>1, <2>2, <2>6 DEF Governed!vars, Approved, Subject
  <2>7. CASE Approved' = Approved \cup {w}
    <3>1. Governed!Approve(w)
      BY <2>1, <2>2, <2>7 DEF Governed!Approve, Approved, Subject
    <3>2. QED
      BY <3>1 DEF Governed!Next
  <2>8. QED
    BY <2>5, <2>6, <2>7
<1>4. ASSUME NEW p \in Callers, CreateInserts(p) \/ DirectInserts(p), Continues(p)
      PROVE  UNCHANGED <<granted, acts, result, faults, HaveNotActed, HaveActed>>
  <2>1. UNCHANGED <<granted, acts, result, faults>>
    BY <1>4 DEF CreateInserts, DirectInserts, authorityVars
  <2>2. ~ExecuteReadsResult(p) /\ ~ExecuteActs(p) /\ ~ExecuteRecords(p)
    BY <1>4 DEF CreateInserts, DirectInserts, ExecuteReadsResult, ExecuteActs, ExecuteRecords, IsAt
  <2>3. QED
    BY <1>1, <1>4, <2>1, <2>2, ExecutionsStay
<1>5. ASSUME NEW p \in Callers, CreateInserts(p) \/ DirectInserts(p), Continues(p), ~Requested
      PROVE  [Governed!Next]_(Governed!vars)
  <2>1. UNCHANGED <<granted, acts, result, faults, HaveNotActed, HaveActed>>
    BY <1>4, <1>5
  <2>2. Subject = -1
    BY <1>5 DEF Subject
  <2>3. PICK w \in Approved \cup {None} : request'.workflow = w /\ request' # NoRequest
    <3>1. CASE CreateInserts(p)
      <4>1. call[p].workflow \in Approved
        BY <1>1, <3>1, CallFields
           DEF CreateInserts, IsAt, CallsOK, CallOK, Creating, Granted, Typed, TypeOK, Approved
      <4>2. request' = NewRequest(call[p].workflow, "REQUESTED", "PENDING_DRY_RUN")
        BY <1>5, <3>1 DEF CreateInserts
      <4>3. QED
        BY <4>1, <4>2 DEF NewRequest, NoRequest
    <3>2. CASE DirectInserts(p)
      <4>1. call[p].state # "NO_REQUEST"
        BY <1>1, <3>2, CallFields DEF DirectInserts, IsAt, Typed, TypeOK
      <4>2. request' = NewRequest(None, call[p].state, "UNSET")
        BY <1>5, <3>2 DEF DirectInserts
      <4>3. QED
        BY <4>1, <4>2 DEF NewRequest, NoRequest
    <3>3. QED
      BY <1>5, <3>1, <3>2
  <2>4. Subject' = w
    BY <2>3 DEF Subject, Requested
  <2>5. w \in WorkflowIds \cup {None}
    BY <2>3 DEF Approved
  <2>6. Governed!Ask(w)
    BY <2>1, <2>2, <2>3, <2>4 DEF Governed!Ask, Approved, Subject
  <2>7. QED
    BY <2>5, <2>6 DEF Governed!Next
<1>6. ASSUME UNCHANGED <<granted, HaveNotActed, HaveActed, acts, result, faults>>,
             UNCHANGED Subject
      PROVE  [Governed!Next]_(Governed!vars)
  BY <1>6 DEF Governed!vars, Subject
<1>7. ASSUME UNCHANGED <<granted, HaveNotActed, HaveActed, acts, result, faults>>
      PROVE  [Governed!Next]_(Governed!vars)
  <2>1. CASE \E p \in Callers : (CreateInserts(p) \/ DirectInserts(p)) /\ ~Requested
    <3>1. PICK p \in Callers : (CreateInserts(p) \/ DirectInserts(p)) /\ ~Requested
      BY <2>1
    <3>2. Continues(p)
      BY <3>1 DEF Continues
    <3>3. QED
      BY <1>5, <3>1, <3>2
  <2>2. CASE ~\E p \in Callers : (CreateInserts(p) \/ DirectInserts(p)) /\ ~Requested
    BY <1>1, <1>2, <1>6, <1>7, <2>2, SubjectKept
  <2>3. QED
    BY <2>1, <2>2
<1>8. Requested => Subject # -1
  <2>1. Requested => request.workflow \in WorkflowIds \cup {None}
    BY <1>1 DEF Typed, TypeOK, Requested, Request
  <2>2. \A w \in WorkflowIds \cup {None} : w # -1
    BY RecommendationAssumption DEF WorkflowIds, None
  <2>3. QED
    BY <2>1, <2>2 DEF Subject
<1>9. ASSUME NEW p \in Callers, ExecuteReadsResult(p) PROVE [Governed!Next]_(Governed!vars)
  <2>1. /\ UNCHANGED <<granted, acts, result, faults, Subject>>
        /\ Requested /\ result = "NONE" /\ call[p].at = "idle"
        /\ Goes(p, [at |-> "execute: request"])
    BY <1>9 DEF ExecuteReadsResult, authorityVars, executionVars, Subject, Requested, IsAt
  <2>2. p \notin HaveNotActed /\ p \notin HaveActed
    BY <2>1, ExecutionStands DEF ExecutePlaces
  <2>3. HaveNotActed' = HaveNotActed \cup {p} /\ HaveActed' = HaveActed
    <3>1. Begins(p)
      BY <1>9 DEF Begins
    <3>2. [at |-> "execute: request"].at \in PreparePlaces
      BY PlaceOf DEF PreparePlaces, ExecutePlaces
    <3>3. ASSUME NEW c, Goes(p, c), c.at \in PreparePlaces
          PROVE  HaveNotActed' = HaveNotActed \cup {p} /\ HaveActed' = HaveActed
      <4>1. HaveNotActed' = HaveNotActed \cup {p} /\ HaveActed' = HaveActed \ {p}
        BY <1>1, <3>1, <3>3, ExecutionMoves
      <4>2. QED
        BY <2>2, <4>1
    <3>4. QED
      BY <2>1, <3>2, <3>3
  <2>4. Governed!Begin(p)
    BY <1>8, <2>1, <2>2, <2>3 DEF Governed!Begin, Approved, Subject
  <2>5. QED
    BY <2>4 DEF Governed!Next
<1>10. ASSUME NEW p \in Callers, ExecuteActs(p) PROVE [Governed!Next]_(Governed!vars)
  <2>1. /\ acts' = acts + 1 /\ call[p].at = "execute: act"
        /\ UNCHANGED <<granted, request, result, faults>>
        /\ Goes(p, [at |-> "execute: record", state |-> "EXECUTED"])
    BY <1>10 DEF ExecuteActs, authorityVars, IsAt
  <2>2. Requested /\ request.workflow # None
    BY <1>1, <1>10 DEF CallsOK, CallOK, UsesRequest, Cleared, ExecuteActs, IsAt
  <2>3. request.workflow \in Approved
    <3>1. request.workflow \in WorkflowIds
      BY <1>1, <2>2 DEF Typed, TypeOK, Requested, Request
    <3>2. QED
      BY <1>1, <2>2, <3>1 DEF RequestOK, Granted, Approved
  <2>4. Subject \in Approved /\ UNCHANGED Subject
    BY <2>1, <2>2, <2>3 DEF Subject, Requested
  <2>5. p \in HaveNotActed
    BY <2>1, ExecutionStands DEF PreparePlaces, ExecutePlaces
  <2>6. HaveNotActed' = HaveNotActed \ {p} /\ HaveActed' = HaveActed \cup {p}
    <3>1. /\ Continues(p)
          /\ [at |-> "execute: record", state |-> "EXECUTED"].at = "execute: record"
          /\ [at |-> "execute: record", state |-> "EXECUTED"].state = "EXECUTED"
      BY <1>10, PlaceOf DEF Continues
    <3>2. QED
      BY <1>1, <2>1, <3>1, ExecutionMoves
  <2>7. Governed!Perform(p)
    BY <2>1, <2>4, <2>5, <2>6 DEF Governed!Perform, Approved, Subject
  <2>8. QED
    BY <2>7 DEF Governed!Next
<1>11. ASSUME NEW p \in Callers, ExecuteRecords(p) PROVE [Governed!Next]_(Governed!vars)
  <2>1. /\ UNCHANGED <<granted, acts, faults, Subject>>
        /\ call[p].at = "execute: record"
    BY <1>11 DEF ExecuteRecords, authorityVars, Subject, Requested, IsAt
  <2>2. call[p].state \in {"BLOCKED", "EXECUTED"}
    BY <1>1, <2>1, CallFields DEF Typed, TypeOK
  <2>3. /\ p \in HaveNotActed \cup HaveActed
        /\ call[p].state = IF p \in HaveActed THEN "EXECUTED" ELSE "BLOCKED"
    BY <2>1, <2>2, ExecutionStands
  <2>4. HaveNotActed' = HaveNotActed \ {p} /\ HaveActed' = HaveActed \ {p}
    <3>1. Continues(p)
      BY <1>11 DEF Continues
    <3>2. ASSUME NEW c, Goes(p, c), c.at \notin ExecutePlaces
          PROVE  HaveNotActed' = HaveNotActed \ {p} /\ HaveActed' = HaveActed \ {p}
      BY <1>1, <3>1, <3>2, ExecutionMoves
    <3>3. QED
      BY <1>11, <3>2, PlaceOf DEF ExecuteRecords, Returns, ExecutePlaces
  <2>5. result' = IF result # "NONE" THEN result ELSE call[p].state
    BY <1>11 DEF ExecuteRecords
  <2>6. Governed!End(p)
    BY <2>1, <2>3, <2>4, <2>5 DEF Governed!End, Approved, Subject
  <2>7. QED
    BY <2>6 DEF Governed!Next
<1>12. ASSUME (\E p \in Callers : QueryFails(p)) \/ Restart, UNCHANGED executionVars
       PROVE  [Governed!Next]_(Governed!vars)
  BY <1>1, <1>12, FaultsTake DEF Governed!Next
<1>13. QED
  BY <1>1, <1>3, <1>4, <1>7, <1>9, <1>10, <1>11, <1>12, VisibleSteps

\* Steps that change nothing included.
LEMMA GovernedStep == IInv /\ [Next]_vars => [Governed!Next]_(Governed!vars)
<1>1. CASE UNCHANGED vars
  BY <1>1 DEF vars, Governed!vars, Requested, HaveNotActed, HaveActed, Executing, Preparing, IsAt
<1>2. QED
  BY <1>1, StepIsGoverned

\* Governed execution implements GovernedAction: whatever requests run at once, the
\* provider is acted on only in the name of an approved workflow and once by each call,
\* the request keeps the workflow it was created for, and the outcome that the first call
\* to end records is final and says what that call did.
THEOREM Refinement == Spec => ImplementsGovernedAction
<1>1. Init => Governed!Init
  <2> SUFFICES ASSUME Init PROVE Governed!Init
    OBVIOUS
  <2>1. /\ granted = [w \in WorkflowIds |-> Missing]
        /\ request = NoRequest /\ acts = 0 /\ result = "NONE" /\ faults = 0
        /\ call = [p \in Callers |-> Idle]
    BY DEF Init, AuthorityInit
  <2>2. HaveNotActed = {} /\ HaveActed = {}
    <3>1. \A p \in Callers : call[p].at = "idle"
      BY <2>1, PlaceOf
    <3>2. QED
      BY <3>1 DEF HaveNotActed, HaveActed, Executing, Preparing, IsAt
  <2>3. QED
    BY <2>1, <2>2 DEF Governed!Init, Requested
<1>2. QED
  BY <1>1, GovernedStep, Invariant, PTL DEF Spec, ImplementsGovernedAction, Governed!Spec

\* Unless something failed: while there is no outcome, an action has an execution about
\* to record it, and BLOCKED means that nothing was done and nothing is left to do it.
BlockedIsIdle ==
  faults = 0 =>
    /\ result = "NONE" /\ acts > 0 => HaveActed # {}
    /\ result = "BLOCKED" => acts = 0 /\ HaveNotActed = {}

\* It stays so for executions that take turns, by what GovernedAction allows alone.
LEMMA BlockedIsIdleKept ==
  ASSUME Typed, BlockedIsIdle, InTurn, [Governed!Next]_(Governed!vars)
  PROVE  BlockedIsIdle'
<1>1. faults \in Nat /\ acts \in Nat
  BY AuthorityAssumption DEF Typed, TypeOK
<1>2. \A p, q \in HaveNotActed \cup HaveActed : p = q
  BY DEF InTurn, HaveNotActed, HaveActed, Executing, IsAt
<1>3. CASE \/ UNCHANGED Governed!vars
           \/ \E w \in WorkflowIds : Governed!Approve(w)
           \/ \E w \in WorkflowIds \cup {None} : Governed!Ask(w)
  BY <1>3 DEF Governed!vars, Governed!Approve, Governed!Ask, BlockedIsIdle
<1>4. ASSUME NEW p \in Callers, Governed!Begin(p) PROVE BlockedIsIdle'
  BY <1>4 DEF Governed!Begin, BlockedIsIdle
<1>5. ASSUME NEW p \in Callers, Governed!Perform(p) PROVE BlockedIsIdle'
  <2>1. /\ p \in HaveNotActed /\ HaveActed' = HaveActed \cup {p}
        /\ UNCHANGED <<result, faults>>
    BY <1>5 DEF Governed!Perform
  <2>2. faults = 0 => result # "BLOCKED"
    BY <2>1 DEF BlockedIsIdle
  <2>3. QED
    BY <2>1, <2>2 DEF BlockedIsIdle
<1>6. ASSUME NEW p \in Callers, Governed!End(p) PROVE BlockedIsIdle'
  <2>1. /\ p \in HaveNotActed \cup HaveActed
        /\ result' = IF result # "NONE" THEN result
                     ELSE IF p \in HaveActed THEN "EXECUTED" ELSE "BLOCKED"
        /\ HaveNotActed' = HaveNotActed \ {p}
        /\ UNCHANGED <<acts, faults>>
    BY <1>6 DEF Governed!End
  <2>2. result' # "NONE"
    BY <2>1
  <2>3. HaveNotActed' = {}
    BY <1>2, <2>1
  <2>4. ASSUME faults = 0, result' = "BLOCKED" PROVE acts = 0
    <3>1. CASE result = "NONE"
      <4>1. p \notin HaveActed
        BY <2>1, <2>4, <3>1
      <4>2. HaveActed = {}
        BY <1>2, <2>1, <4>1
      <4>3. QED
        BY <1>1, <2>4, <3>1, <4>2 DEF BlockedIsIdle
    <3>2. CASE result # "NONE"
      BY <2>1, <2>4, <3>2 DEF BlockedIsIdle
    <3>3. QED
      BY <3>1, <3>2
  <2>5. QED
    BY <2>1, <2>2, <2>3, <2>4 DEF BlockedIsIdle
<1>7. CASE Governed!Fail
  <2>1. faults' # 0
    BY <1>1, <1>7 DEF Governed!Fail
  <2>2. QED
    BY <2>1 DEF BlockedIsIdle
<1>8. QED
  BY <1>3, <1>4, <1>5, <1>6, <1>7 DEF Governed!Next

\* A recorded BLOCKED is true of the recommendation, and not of one call only, if nothing
\* fails and the calls of execute do not overlap before their result is recorded: the
\* provider has not been acted on.  (It may have been if two calls overlap, or after a
\* fault between an act and its record.)
THEOREM BlockedInTurn ==
  Spec /\ []InTurn => [](faults = 0 /\ result = "BLOCKED" => acts = 0)
<1>1. Init => BlockedIsIdle
  BY DEF Init, BlockedIsIdle
<1>2. IInv /\ [Next]_vars => Typed /\ [Governed!Next]_(Governed!vars)
  BY GovernedStep DEF IInv
<1>3. Typed /\ BlockedIsIdle /\ InTurn /\ [Governed!Next]_(Governed!vars) => BlockedIsIdle'
  BY BlockedIsIdleKept
<1>4. BlockedIsIdle => (faults = 0 /\ result = "BLOCKED" => acts = 0)
  BY DEF BlockedIsIdle
<1>5. QED
  BY <1>1, <1>2, <1>3, <1>4, Invariant, PTL DEF Spec
=============================================================================
