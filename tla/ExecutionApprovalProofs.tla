---------------------- MODULE ExecutionApprovalProofs ----------------------
(***************************************************************************)
(* Proofs about ExecutionApproval, for any number of overlapping calls,    *)
(* any actors, evidence and required approvals.                            *)
(*                                                                         *)
(* A decision is computed from the row as a call has read it.  What the    *)
(* row must be for that to be harmless is said of every row a call holds:  *)
(* its approvals are approvals that were given by now, in their order      *)
(* (ReadsOK), because nothing ever takes an approval out of the history.   *)
(***************************************************************************)
EXTENDS ExecutionApproval, TLAPS

-----------------------------------------------------------------------------
(* Lists picked from others.                                               *)

\* A list of approvals that were given stays one when another is given.
LEMMA PickedGrows ==
  ASSUME NEW s \in Seq(Actors), NEW t \in Seq(Actors), NEW a \in Actors, PickedFrom(s, t)
  PROVE  PickedFrom(s, Append(t, a))
<1>1. PICK at \in [1..Len(s) -> 1..Len(t)] :
        /\ \A i, j \in 1..Len(s) : i < j => at[i] < at[j]
        /\ \A i \in 1..Len(s) : s[i] = t[at[i]]
  BY DEF PickedFrom
<1>2. Len(Append(t, a)) = Len(t) + 1 /\ \A k \in 1..Len(t) : Append(t, a)[k] = t[k]
  OBVIOUS
<1>3. at \in [1..Len(s) -> 1..Len(Append(t, a))]
  BY <1>2
<1>4. \A i \in 1..Len(s) : s[i] = Append(t, a)[at[i]]
  BY <1>1, <1>2
<1>5. QED
  BY <1>1, <1>3, <1>4 DEF PickedFrom

\* So does one extended by the approval given.
LEMMA PickedAppends ==
  ASSUME NEW s \in Seq(Actors), NEW t \in Seq(Actors), NEW a \in Actors, PickedFrom(s, t)
  PROVE  PickedFrom(Append(s, a), Append(t, a))
<1>1. PICK at \in [1..Len(s) -> 1..Len(t)] :
        /\ \A i, j \in 1..Len(s) : i < j => at[i] < at[j]
        /\ \A i \in 1..Len(s) : s[i] = t[at[i]]
  BY DEF PickedFrom
<1>2. /\ Len(Append(t, a)) = Len(t) + 1 /\ Len(t) \in Nat
      /\ Append(t, a)[Len(t) + 1] = a
      /\ \A k \in 1..Len(t) : Append(t, a)[k] = t[k]
  OBVIOUS
<1>3. /\ Len(Append(s, a)) = Len(s) + 1 /\ Len(s) \in Nat
      /\ Append(s, a)[Len(s) + 1] = a
      /\ \A k \in 1..Len(s) : Append(s, a)[k] = s[k]
  OBVIOUS
<1> DEFINE to == [i \in 1..Len(Append(s, a)) |-> IF i \in 1..Len(s) THEN at[i] ELSE Len(t) + 1]
<1>4. /\ \A i \in 1..Len(s) : to[i] = at[i] /\ at[i] \in 1..Len(t)
      /\ to[Len(s) + 1] = Len(t) + 1
  BY <1>3
<1>5. to \in [1..Len(Append(s, a)) -> 1..Len(Append(t, a))]
  BY <1>2, <1>3
<1>6. \A i \in 1..Len(Append(s, a)) : i \in 1..Len(s) \/ i = Len(s) + 1
  BY <1>3
<1> HIDE DEF to
<1>7. ASSUME NEW i \in 1..Len(Append(s, a)), NEW j \in 1..Len(Append(s, a)), i < j
      PROVE  to[i] < to[j]
  <2>1. i \in 1..Len(s)
    BY <1>3, <1>7
  <2>2. CASE j \in 1..Len(s)
    BY <1>1, <1>4, <1>7, <2>1, <2>2
  <2>3. CASE j = Len(s) + 1
    BY <1>2, <1>4, <2>1, <2>3
  <2>4. QED
    BY <1>6, <2>2, <2>3
<1>8. ASSUME NEW i \in 1..Len(Append(s, a)) PROVE Append(s, a)[i] = Append(t, a)[to[i]]
  <2>1. CASE i \in 1..Len(s)
    BY <1>1, <1>2, <1>3, <1>4, <2>1
  <2>2. CASE i = Len(s) + 1
    BY <1>2, <1>3, <1>4, <2>2
  <2>3. QED
    BY <1>6, <2>1, <2>2
<1>9. QED
  BY <1>5, <1>7, <1>8 DEF PickedFrom

\* Nothing is picked from nothing.
LEMMA PickedFromNothing == PickedFrom(<<>>, <<>>)
<1>1. Len(<<>>) = 0
  OBVIOUS
<1>2. [i \in 1..Len(<<>>) |-> i] \in [1..Len(<<>>) -> 1..Len(<<>>)]
  OBVIOUS
<1>3. \A i \in 1..Len(<<>>) : FALSE
  BY <1>1
<1>4. QED
  BY <1>2, <1>3 DEF PickedFrom

-----------------------------------------------------------------------------
(* Types.                                                                  *)

\* What a call takes with it has its type.
LEMMA CallFields ==
  ASSUME TypeOK, NEW p \in Callers, call[p] # Idle
  PROVE  /\ call[p].actor \in Actors
         /\ call[p].added \in SUBSET Keys
         /\ call[p].read \in Row
  BY DEF TypeOK, Call

\* A call that has an operation to complete is not idle.
LEMMA CallWaits ==
  ASSUME NEW p, call[p].op \in {"approve", "reject", "expire"}
  PROVE  call[p] # Idle
  BY DEF Idle

\* A decision on a row is the row with other values of the same types.
LEMMA DecisionTypes ==
  ASSUME NEW r \in Row, NEW a \in Actors, NEW added \in SUBSET Keys
  PROVE  /\ Approved(r, a, added) \in Row
         /\ Rejected(r, a, added) \in Row
         /\ Expired(r) \in Row
<1>1. /\ Append(r.approvedBy, a) \in Seq(Actors) /\ Append(r.rejectedBy, a) \in Seq(Actors)
      /\ Len(r.approvedBy) + 1 \in Nat /\ r.evidence \cup added \in SUBSET Keys
      /\ (r.evidence \ {Reason}) \cup added \in SUBSET Keys
  BY DEF Row
<1>2. \A approvedBy \in Seq(Actors), n \in Nat, status \in Statuses, keys \in SUBSET Keys :
        /\ [r EXCEPT !.approvedBy = approvedBy, !.currentApprovals = n, !.status = status,
                     !.evidence = keys] \in Row
        /\ [r EXCEPT !.rejectedBy = approvedBy, !.status = status, !.evidence = keys] \in Row
        /\ [r EXCEPT !.status = status] \in Row
  BY DEF Row
<1>3. (IF Len(r.approvedBy) + 1 >= Required THEN "APPROVED" ELSE "PENDING") \in Statuses
      /\ "REJECTED" \in Statuses /\ "EXPIRED" \in Statuses
  BY DEF Statuses
<1>4. QED
  BY <1>1, <1>2, <1>3 DEF Approved, Rejected, Expired

\* A hash of a row has the type of a hash.
LEMMA HashTypes ==
  ASSUME NEW r \in Row, NEW inOrder \in BOOLEAN
  PROVE  Hash(r, inOrder) \in [of: DecisionFields, inOrder: BOOLEAN]
  BY DEF Row, DecisionFields, Hash, Fields

\* The order of merged keys is jsonb's or not.
LEMMA OrderTypes ==
  \A keys, added : MergedInOrder(keys, added) \subseteq BOOLEAN
  BY DEF MergedInOrder

\* What approve and reject write, whatever order the keys of the evidence came in.
ApproveWritten(p) ==
  LET next == Approved(call[p].read, call[p].actor, call[p].added) IN
  \E inOrder \in BOOLEAN :
    row' = [row EXCEPT !.approvedBy = next.approvedBy,
                       !.currentApprovals = next.currentApprovals,
                       !.status = next.status, !.evidence = next.evidence,
                       !.hash = Hash(next, inOrder)]

RejectWritten(p) ==
  LET next == Rejected(call[p].read, call[p].actor, call[p].added) IN
  \E inOrder \in BOOLEAN :
    row' = [row EXCEPT !.rejectedBy = next.rejectedBy,
                       !.status = next.status, !.evidence = next.evidence,
                       !.hash = Hash(next, inOrder)]

LEMMA Written ==
  ASSUME NEW p
  PROVE  /\ ApproveWrites(p) => ApproveWritten(p)
         /\ RejectWrites(p) => RejectWritten(p)
<1>1. MergedInOrder(call[p].read.evidence, call[p].added) \subseteq BOOLEAN
  BY OrderTypes
<1>2. ASSUME ApproveWrites(p) PROVE ApproveWritten(p)
  BY <1>1, <1>2, Zenon DEF ApproveWrites, ApproveWritten
<1>3. ASSUME RejectWrites(p) PROVE RejectWritten(p)
  BY <1>1, <1>3, Zenon DEF RejectWrites, RejectWritten
<1>4. QED
  BY <1>2, <1>3

\* The row as a write leaves it: types.
LEMMA RowTypes ==
  ASSUME NEW r \in Row, NEW next \in Row, NEW inOrder \in BOOLEAN
  PROVE  /\ [r EXCEPT !.approvedBy = next.approvedBy,
                      !.currentApprovals = next.currentApprovals,
                      !.status = next.status, !.evidence = next.evidence,
                      !.hash = Hash(next, inOrder)] \in Row
         /\ [r EXCEPT !.rejectedBy = next.rejectedBy,
                      !.status = next.status, !.evidence = next.evidence,
                      !.hash = Hash(next, inOrder)] \in Row
         /\ [r EXCEPT !.status = next.status, !.hash = Hash(next, inOrder)] \in Row
<1>1. Hash(next, inOrder) \in [of: DecisionFields, inOrder: BOOLEAN]
  BY HashTypes
<1> DEFINE h == Hash(next, inOrder)
<1> HIDE DEF h
<1>2. h \in [of: DecisionFields, inOrder: BOOLEAN]
  BY <1>1 DEF h
<1>3. /\ [r EXCEPT !.approvedBy = next.approvedBy,
                   !.currentApprovals = next.currentApprovals,
                   !.status = next.status, !.evidence = next.evidence, !.hash = h] \in Row
      /\ [r EXCEPT !.rejectedBy = next.rejectedBy,
                   !.status = next.status, !.evidence = next.evidence, !.hash = h] \in Row
      /\ [r EXCEPT !.status = next.status, !.hash = h] \in Row
  BY <1>2 DEF Row
<1>4. QED
  BY <1>3 DEF h

\* The row as it is requested has its type.
LEMMA RequestTypes == ASSUME Init PROVE row \in Row
<1>1. PICK keys \in SUBSET Keys, inOrder \in BOOLEAN :
        LET r == [status |-> "PENDING", approvedBy |-> <<>>, currentApprovals |-> 0,
                  rejectedBy |-> <<>>, evidence |-> keys]
        IN row = [status |-> r.status, approvedBy |-> r.approvedBy,
                  currentApprovals |-> r.currentApprovals, rejectedBy |-> r.rejectedBy,
                  evidence |-> r.evidence, hash |-> Hash(r, inOrder)]
  BY DEF Init, RequestApproval
<1>2. <<>> \in Seq(Actors)
  OBVIOUS
<1>3. QED
  BY <1>1, <1>2 DEF Row, DecisionFields, Statuses, Hash, Fields

\* Every step keeps the types.
LEMMA TypeKept == ASSUME TypeOK, [Next]_vars PROVE TypeOK'
<1>1. /\ row \in Row /\ call \in [Callers -> Call \cup {Idle}]
      /\ given \in Seq(Actors) /\ refused \in Seq(Actors)
      /\ stale \in BOOLEAN /\ overlapped \in BOOLEAN
  BY DEF TypeOK
<1>2. ASSUME NEW p \in Callers, NEW op \in {"approve", "reject", "expire"},
             NEW actor \in Actors, NEW added \in SUBSET Keys, Reads(p, op, actor, added)
      PROVE  TypeOK'
  <2>1. [op |-> op, actor |-> actor, added |-> added, read |-> row] \in Call
    BY <1>1 DEF Call
  <2>2. QED
    BY <1>1, <1>2, <2>1 DEF Reads, TypeOK
<1>3. ASSUME NEW p \in Callers, Returns(p) PROVE call' \in [Callers -> Call \cup {Idle}]
  BY <1>1, <1>3 DEF Returns
<1>4. ASSUME NEW p \in Callers, Writes(p)
      PROVE  stale' \in BOOLEAN /\ overlapped' \in BOOLEAN
  BY <1>1, <1>4 DEF Writes
<1>5. ASSUME NEW p \in Callers, ApproveWrites(p) PROVE TypeOK'
  <2>1. /\ call[p].op = "approve" /\ Writes(p) /\ Returns(p)
        /\ given' = Append(given, call[p].actor) /\ refused' = refused
    BY <1>5 DEF ApproveWrites
  <2>2. call[p].actor \in Actors /\ call[p].added \in SUBSET Keys /\ call[p].read \in Row
    BY <2>1, CallFields, CallWaits
  <2>3. Approved(call[p].read, call[p].actor, call[p].added) \in Row
    BY <2>2, DecisionTypes
  <2>4. row' \in Row
    <3> DEFINE next == Approved(call[p].read, call[p].actor, call[p].added)
    <3>1. PICK inOrder \in BOOLEAN :
            row' = [row EXCEPT !.approvedBy = next.approvedBy,
                               !.currentApprovals = next.currentApprovals,
                               !.status = next.status, !.evidence = next.evidence,
                               !.hash = Hash(next, inOrder)]
      BY <1>5, Written DEF ApproveWritten
    <3>2. next \in Row
      BY <2>3
    <3> HIDE DEF next
    <3>3. QED
      BY <1>1, <3>1, <3>2, RowTypes
  <2>5. QED
    BY <1>1, <1>3, <1>4, <2>1, <2>2, <2>4 DEF TypeOK
<1>6. ASSUME NEW p \in Callers, RejectWrites(p) PROVE TypeOK'
  <2>1. /\ call[p].op = "reject" /\ Writes(p) /\ Returns(p)
        /\ refused' = Append(refused, call[p].actor) /\ given' = given
    BY <1>6 DEF RejectWrites
  <2>2. call[p].actor \in Actors /\ call[p].added \in SUBSET Keys /\ call[p].read \in Row
    BY <2>1, CallFields, CallWaits
  <2>3. Rejected(call[p].read, call[p].actor, call[p].added) \in Row
    BY <2>2, DecisionTypes
  <2>4. row' \in Row
    <3> DEFINE next == Rejected(call[p].read, call[p].actor, call[p].added)
    <3>1. PICK inOrder \in BOOLEAN :
            row' = [row EXCEPT !.rejectedBy = next.rejectedBy,
                               !.status = next.status, !.evidence = next.evidence,
                               !.hash = Hash(next, inOrder)]
      BY <1>6, Written DEF RejectWritten
    <3>2. next \in Row
      BY <2>3
    <3> HIDE DEF next
    <3>3. QED
      BY <1>1, <3>1, <3>2, RowTypes
  <2>5. QED
    BY <1>1, <1>3, <1>4, <2>1, <2>2, <2>4 DEF TypeOK
<1>7. ASSUME NEW p \in Callers, ExpireWrites(p) PROVE TypeOK'
  <2>1. call[p].op = "expire" /\ Returns(p) /\ UNCHANGED <<given, refused>>
    BY <1>7 DEF ExpireWrites
  <2>2. call[p].read \in Row
    BY <2>1, CallFields, CallWaits
  <2>3. Expired(call[p].read) \in Row
    BY <2>2, DecisionTypes DEF Row, Statuses, Expired
  <2>4. row' \in Row
    BY <1>1, <1>7, <2>3, RowTypes DEF ExpireWrites
  <2>5. stale' \in BOOLEAN /\ overlapped' \in BOOLEAN
    BY <1>1, <1>4, <1>7 DEF ExpireWrites
  <2>6. QED
    BY <1>1, <1>3, <2>1, <2>4, <2>5 DEF TypeOK
<1>8. ASSUME NEW p \in Callers, CallFails(p) PROVE TypeOK'
  BY <1>1, <1>3, <1>8 DEF CallFails, TypeOK
<1>9. ASSUME UNCHANGED vars PROVE TypeOK'
  BY <1>1, <1>9 DEF vars, TypeOK
<1>10. ASSUME NEW p \in Callers,
              \/ \E actor \in Actors, added \in SUBSET Keys : ApproveReads(p, actor, added)
              \/ \E actor \in Actors, added \in SUBSET {Reason} : RejectReads(p, actor, added)
              \/ ExpireReads(p)
       PROVE  TypeOK'
  BY <1>2, <1>10, ApprovalAssumption DEF ApproveReads, RejectReads, ExpireReads
<1>11. QED
  BY <1>5, <1>6, <1>7, <1>8, <1>9, <1>10 DEF Next

\* The row, the calls and the rows they have read keep their types.
THEOREM ApprovalTyping == Spec => []TypeOK
<1>1. Init => TypeOK
  <2>1. <<>> \in Seq(Actors)
    OBVIOUS
  <2>2. QED
    BY <2>1, RequestTypes DEF Init, TypeOK
<1>2. TypeOK /\ [Next]_vars => TypeOK'
  BY TypeKept
<1>3. QED
  BY <1>1, <1>2, PTL DEF Spec

-----------------------------------------------------------------------------
(* No approval is invented.                                                *)

\* The approvals a row lists are among those of a list, and its count and status say so.
ListOK(r, list) ==
  /\ PickedFrom(r.approvedBy, list)
  /\ r.currentApprovals = Len(r.approvedBy)
  /\ r.status = "APPROVED" => r.currentApprovals >= Required

\* The approvals of the row every call has read were given.
ReadsOK == \A p \in Callers : call[p] # Idle => ListOK(call[p].read, given)

\* A list that was right is still right when another approval is given.
LEMMA ListGrows ==
  ASSUME TypeOK, NEW r \in Row, ListOK(r, given), NEW a \in Actors,
         given' = given \/ given' = Append(given, a)
  PROVE  ListOK(r, given')
<1>1. r.approvedBy \in Seq(Actors) /\ given \in Seq(Actors)
  BY DEF TypeOK, Row
<1>2. QED
  BY <1>1, PickedGrows DEF ListOK

\* Every step keeps the rows right: the row itself and those in flight.
LEMMA ListsKept ==
  ASSUME TypeOK, ListOK(row, given), ReadsOK, [Next]_vars
  PROVE  ListOK(row, given)' /\ ReadsOK'
<1>1. row \in Row /\ given \in Seq(Actors) /\ call \in [Callers -> Call \cup {Idle}]
  BY DEF TypeOK
<1>2. ASSUME NEW p \in Callers, call' = [call EXCEPT ![p] = Idle],
             NEW a \in Actors, given' = given \/ given' = Append(given, a)
      PROVE  ReadsOK'
  <2>1. ASSUME NEW q \in Callers, call'[q] # Idle PROVE ListOK(call'[q].read, given')
    <3>1. call'[q] = call[q] /\ call[q] # Idle
      BY <1>1, <1>2, <2>1
    <3>2. call[q].read \in Row /\ ListOK(call[q].read, given)
      BY <3>1, CallFields DEF ReadsOK
    <3>3. QED
      BY <1>2, <3>1, <3>2, ListGrows
  <2>2. QED
    BY <2>1 DEF ReadsOK
<1>3. ASSUME NEW p \in Callers, NEW op, NEW actor \in Actors, NEW added,
             Reads(p, op, actor, added)
      PROVE  ListOK(row, given)' /\ ReadsOK'
  <2>1. row' = row /\ given' = given
    BY <1>3 DEF Reads
  <2>2. ASSUME NEW q \in Callers, call'[q] # Idle PROVE ListOK(call'[q].read, given')
    <3>1. \/ call'[q] = call[q]
          \/ call'[q] = [op |-> op, actor |-> actor, added |-> added, read |-> row]
      BY <1>1, <1>3 DEF Reads
    <3>2. ListOK(call'[q].read, given)
      BY <2>2, <3>1 DEF ReadsOK
    <3>3. QED
      BY <2>1, <3>2
  <2>3. QED
    BY <2>1, <2>2 DEF ReadsOK
<1>4. ASSUME NEW p \in Callers, ApproveWrites(p) PROVE ListOK(row, given)' /\ ReadsOK'
  <2> DEFINE r == call[p].read
             a == call[p].actor
             next == Approved(r, a, call[p].added)
  <2>1. call[p].op = "approve" /\ Returns(p) /\ given' = Append(given, a)
    BY <1>4 DEF ApproveWrites
  <2>2. a \in Actors /\ r \in Row /\ ListOK(r, given)
    BY <2>1, CallFields, CallWaits DEF ReadsOK
  <2>3. r.approvedBy \in Seq(Actors) /\ PickedFrom(r.approvedBy, given)
    BY <2>2 DEF Row, ListOK
  <2>4. /\ next.approvedBy = Append(r.approvedBy, a)
        /\ next.currentApprovals = Len(r.approvedBy) + 1
        /\ next.status = "APPROVED" => Len(r.approvedBy) + 1 >= Required
    BY <2>2 DEF Approved, Row
  <2>5. /\ row'.approvedBy = next.approvedBy
        /\ row'.currentApprovals = next.currentApprovals
        /\ row'.status = next.status
    <3>1. PICK inOrder \in BOOLEAN :
            row' = [row EXCEPT !.approvedBy = next.approvedBy,
                               !.currentApprovals = next.currentApprovals,
                               !.status = next.status, !.evidence = next.evidence,
                               !.hash = Hash(next, inOrder)]
      BY <1>4, Written DEF ApproveWritten
    <3> HIDE DEF next
    <3>2. QED
      BY <1>1, <3>1 DEF Row
  <2>6. Len(Append(r.approvedBy, a)) = Len(r.approvedBy) + 1
    BY <2>2, <2>3
  <2>7. PickedFrom(Append(r.approvedBy, a), given')
    BY <1>1, <2>1, <2>2, <2>3, PickedAppends
  <2> HIDE DEF next
  <2>8. ListOK(row, given)'
    BY <2>4, <2>5, <2>6, <2>7 DEF ListOK
  <2>9. QED
    BY <1>2, <2>1, <2>2, <2>8 DEF Returns
<1>5. ASSUME NEW p \in Callers, RejectWrites(p) PROVE ListOK(row, given)' /\ ReadsOK'
  <2>1. call[p].op = "reject" /\ Returns(p) /\ given' = given /\ call[p].actor \in Actors
    BY <1>5, CallFields, CallWaits DEF RejectWrites
  <2>2. Rejected(call[p].read, call[p].actor, call[p].added).status = "REJECTED"
    BY <2>1, CallFields, CallWaits DEF Rejected, Row
  <2>3. /\ row'.approvedBy = row.approvedBy
        /\ row'.currentApprovals = row.currentApprovals
        /\ row'.status = "REJECTED"
    BY <1>1, <1>5, <2>2 DEF RejectWrites, Row
  <2>4. ListOK(row, given)'
    BY <2>1, <2>3 DEF ListOK
  <2>5. QED
    BY <1>2, <2>1, <2>4 DEF Returns
<1>6. ASSUME NEW p \in Callers, ExpireWrites(p) PROVE ListOK(row, given)' /\ ReadsOK'
  <2>1. call[p].op = "expire" /\ Returns(p) /\ given' = given /\ call[p].actor \in Actors
    BY <1>6, CallFields, CallWaits DEF ExpireWrites
  <2>2. Expired(call[p].read).status = "EXPIRED"
    BY <2>1, CallFields, CallWaits DEF Expired, Row
  <2>3. /\ row'.approvedBy = row.approvedBy
        /\ row'.currentApprovals = row.currentApprovals
        /\ row'.status = "EXPIRED" \/ row' = row
    BY <1>1, <1>6, <2>2 DEF ExpireWrites, Row
  <2>4. ListOK(row, given)'
    BY <2>1, <2>3 DEF ListOK
  <2>5. QED
    BY <1>2, <2>1, <2>4 DEF Returns
<1>7. ASSUME NEW p \in Callers, CallFails(p) PROVE ListOK(row, given)' /\ ReadsOK'
  <2>1. call[p].actor \in Actors /\ Returns(p) /\ UNCHANGED <<row, given>>
    BY <1>7, CallFields DEF CallFails
  <2>2. QED
    BY <1>2, <2>1 DEF Returns, ListOK
<1>8. ASSUME UNCHANGED vars PROVE ListOK(row, given)' /\ ReadsOK'
  BY <1>8 DEF vars, ListOK, ReadsOK
<1>9. ASSUME NEW p \in Callers,
             \/ \E actor \in Actors, added \in SUBSET Keys : ApproveReads(p, actor, added)
             \/ \E actor \in Actors, added \in SUBSET {Reason} : RejectReads(p, actor, added)
             \/ ExpireReads(p)
      PROVE  ListOK(row, given)' /\ ReadsOK'
  BY <1>3, <1>9 DEF ApproveReads, RejectReads, ExpireReads
<1>10. QED
  BY <1>4, <1>5, <1>6, <1>7, <1>8, <1>9 DEF Next

\* Overlapping calls may lose approvals but invent none (approve).
THEOREM GivenApprovals == Spec => []ApprovalsAreGiven
<1>1. Init => ListOK(row, given) /\ ReadsOK
  <2>1. ASSUME Init PROVE ListOK(row, given) /\ ReadsOK
    <3>1. /\ row.approvedBy = <<>> /\ given = <<>>
          /\ row.currentApprovals = 0 /\ row.status = "PENDING"
      BY <2>1 DEF Init, RequestApproval
    <3>2. Len(<<>>) = 0
      OBVIOUS
    <3>3. QED
      BY <2>1, <3>1, <3>2, PickedFromNothing DEF Init, ListOK, ReadsOK
  <2>2. QED
    BY <2>1
<1>2. TypeOK /\ (ListOK(row, given) /\ ReadsOK) /\ [Next]_vars => (ListOK(row, given) /\ ReadsOK)'
  BY ListsKept
<1>3. ListOK(row, given) /\ ReadsOK => ApprovalsAreGiven
  BY DEF ListOK, ApprovalsAreGiven
<1>4. QED
  BY <1>1, <1>2, <1>3, ApprovalTyping, PTL DEF Spec

-----------------------------------------------------------------------------
(* What a hash that does not verify means.                                 *)

\* The hash is of the fields of the row, and no decision was lost.
HashOK == ~stale => row.hash.of = Fields(row)

ListsComplete == ~overlapped => row.approvedBy = given /\ row.rejectedBy = refused

\* A row written from the row it replaces has the fields that were hashed.
LEMMA FieldsWritten ==
  ASSUME NEW r \in Row, NEW a \in Actors, NEW added \in SUBSET Keys, NEW h
  PROVE  LET toApprove == Approved(r, a, added)
             toReject  == Rejected(r, a, added)
             toExpire  == Expired(r)
         IN
         /\ Fields([r EXCEPT !.approvedBy = toApprove.approvedBy,
                             !.currentApprovals = toApprove.currentApprovals,
                             !.status = toApprove.status, !.evidence = toApprove.evidence,
                             !.hash = h]) = Fields(toApprove)
         /\ Fields([r EXCEPT !.rejectedBy = toReject.rejectedBy,
                             !.status = toReject.status, !.evidence = toReject.evidence,
                             !.hash = h]) = Fields(toReject)
         /\ Fields([r EXCEPT !.status = toExpire.status, !.hash = h]) = Fields(toExpire)
  BY DEF Approved, Rejected, Expired, Fields, Row

\* Every step keeps the hash right, or is a write that was overtaken.
LEMMA HashKept ==
  ASSUME TypeOK, HashOK, ListsComplete, [Next]_vars
  PROVE  HashOK' /\ ListsComplete'
<1>1. row \in Row
  BY DEF TypeOK
<1>2. ASSUME UNCHANGED <<row, given, refused, stale, overlapped>>
      PROVE  HashOK' /\ ListsComplete'
  BY <1>2 DEF HashOK, ListsComplete, Fields
<1>3. ASSUME NEW p \in Callers, Writes(p), call[p].read # row
      PROVE  HashOK' /\ ListsComplete'
  BY <1>3 DEF Writes, HashOK, ListsComplete
<1>4. ASSUME NEW p \in Callers, Writes(p), call[p].read = row
      PROVE  overlapped' = overlapped
  BY <1>4 DEF Writes, TypeOK
<1>5. ASSUME NEW p \in Callers, ApproveWrites(p), call[p].read = row
      PROVE  HashOK' /\ ListsComplete'
  <2>1. /\ call[p].op = "approve" /\ Writes(p) /\ refused' = refused
        /\ given' = Append(given, call[p].actor)
    BY <1>5 DEF ApproveWrites
  <2>2. call[p].actor \in Actors /\ call[p].added \in SUBSET Keys
    BY <2>1, CallFields, CallWaits
  <2> DEFINE next == Approved(row, call[p].actor, call[p].added)
  <2>3. PICK inOrder \in BOOLEAN :
          row' = [row EXCEPT !.approvedBy = next.approvedBy,
                             !.currentApprovals = next.currentApprovals,
                             !.status = next.status, !.evidence = next.evidence,
                             !.hash = Hash(next, inOrder)]
    BY <1>5, Written DEF ApproveWritten
  <2>4. Fields(row') = Fields(next)
    BY <1>1, <2>2, <2>3, FieldsWritten
  <2>5. next.approvedBy = Append(row.approvedBy, call[p].actor)
    BY <1>1 DEF Approved, Row
  <2> HIDE DEF next
  <2>6. /\ row'.hash = Hash(next, inOrder) /\ row'.approvedBy = next.approvedBy
        /\ row'.rejectedBy = row.rejectedBy
    BY <1>1, <2>3 DEF Row
  <2>7. row'.hash.of = Fields(next)
    BY <2>6 DEF Hash
  <2>8. HashOK'
    BY <2>4, <2>7 DEF HashOK, Fields
  <2>9. ListsComplete'
    BY <1>4, <1>5, <2>1, <2>5, <2>6 DEF ListsComplete
  <2>10. QED
    BY <2>8, <2>9
<1>6. ASSUME NEW p \in Callers, RejectWrites(p), call[p].read = row
      PROVE  HashOK' /\ ListsComplete'
  <2>1. /\ call[p].op = "reject" /\ Writes(p) /\ given' = given
        /\ refused' = Append(refused, call[p].actor)
    BY <1>6 DEF RejectWrites
  <2>2. call[p].actor \in Actors /\ call[p].added \in SUBSET Keys
    BY <2>1, CallFields, CallWaits
  <2> DEFINE next == Rejected(row, call[p].actor, call[p].added)
  <2>3. PICK inOrder \in BOOLEAN :
          row' = [row EXCEPT !.rejectedBy = next.rejectedBy,
                             !.status = next.status, !.evidence = next.evidence,
                             !.hash = Hash(next, inOrder)]
    BY <1>6, Written DEF RejectWritten
  <2>4. Fields(row') = Fields(next)
    BY <1>1, <2>2, <2>3, FieldsWritten
  <2>5. next.rejectedBy = Append(row.rejectedBy, call[p].actor)
    BY <1>1 DEF Rejected, Row
  <2> HIDE DEF next
  <2>6. /\ row'.hash = Hash(next, inOrder) /\ row'.rejectedBy = next.rejectedBy
        /\ row'.approvedBy = row.approvedBy
    BY <1>1, <2>3 DEF Row
  <2>7. row'.hash.of = Fields(next)
    BY <2>6 DEF Hash
  <2>8. HashOK'
    BY <2>4, <2>7 DEF HashOK, Fields
  <2>9. ListsComplete'
    BY <1>4, <1>6, <2>1, <2>5, <2>6 DEF ListsComplete
  <2>10. QED
    BY <2>8, <2>9
<1>7. ASSUME NEW p \in Callers, ExpireWrites(p), row.status = "PENDING", call[p].read = row
      PROVE  HashOK' /\ ListsComplete'
  <2>1. call[p].op = "expire" /\ Writes(p) /\ UNCHANGED <<given, refused>>
    BY <1>7 DEF ExpireWrites
  <2>2. call[p].actor \in Actors /\ call[p].added \in SUBSET Keys
    BY <2>1, CallFields, CallWaits
  <2> DEFINE next == Expired(row)
  <2>3. row' = [row EXCEPT !.status = next.status, !.hash = Hash(next, TRUE)]
    BY <1>7 DEF ExpireWrites
  <2>4. Fields(row') = Fields(next)
    BY <1>1, <2>2, <2>3, FieldsWritten
  <2> HIDE DEF next
  <2>5. /\ row'.hash = Hash(next, TRUE)
        /\ row'.approvedBy = row.approvedBy /\ row'.rejectedBy = row.rejectedBy
    BY <1>1, <2>3 DEF Row
  <2>6. row'.hash.of = Fields(next)
    BY <2>5 DEF Hash
  <2>7. HashOK'
    BY <2>4, <2>6 DEF HashOK, Fields
  <2>8. ListsComplete'
    BY <1>4, <1>7, <2>1, <2>5 DEF ListsComplete
  <2>9. QED
    BY <2>7, <2>8
<1>8. ASSUME NEW p \in Callers, ApproveWrites(p) \/ RejectWrites(p) PROVE HashOK' /\ ListsComplete'
  BY <1>3, <1>5, <1>6, <1>8 DEF ApproveWrites, RejectWrites
<1>9. ASSUME NEW p \in Callers, ExpireWrites(p) PROVE HashOK' /\ ListsComplete'
  BY <1>2, <1>3, <1>7, <1>9 DEF ExpireWrites
<1>10. ASSUME NEW p \in Callers,
              \/ \E actor \in Actors, added \in SUBSET Keys : ApproveReads(p, actor, added)
              \/ \E actor \in Actors, added \in SUBSET {Reason} : RejectReads(p, actor, added)
              \/ ExpireReads(p)
              \/ CallFails(p)
       PROVE  HashOK' /\ ListsComplete'
  BY <1>2, <1>10 DEF ApproveReads, RejectReads, ExpireReads, Reads, CallFails
<1>11. QED
  BY <1>2, <1>8, <1>9, <1>10 DEF Next, vars

\* A row that does not verify was raced, or its evidence was hashed in an order of keys
\* that jsonb does not keep; and without a race no decision is lost (verifyTamperHash).
THEOREM KeptDecisions == Spec => []DecisionsAreKept
<1>1. Init => HashOK /\ ListsComplete
  BY DEF Init, RequestApproval, HashOK, ListsComplete, Hash, Fields
<1>2. TypeOK /\ (HashOK /\ ListsComplete) /\ [Next]_vars => (HashOK /\ ListsComplete)'
  BY HashKept
<1>3. TypeOK /\ HashOK /\ ListsComplete => DecisionsAreKept
  <2>1. ASSUME TypeOK, HashOK, ~stale, row.hash.inOrder PROVE VerifyTamperHash(row)
    <3>1. row.hash \in [of: DecisionFields, inOrder: BOOLEAN] /\ row.hash.of = Fields(row)
      BY <2>1 DEF TypeOK, Row, HashOK
    <3>2. QED
      BY <2>1, <3>1 DEF VerifyTamperHash, Hash
  <2>2. QED
    BY <2>1 DEF ListsComplete, DecisionsAreKept
<1>4. QED
  BY <1>1, <1>2, <1>3, ApprovalTyping, PTL DEF Spec
=============================================================================
