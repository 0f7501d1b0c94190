-------------------------- MODULE ExecutionApproval --------------------------
(***************************************************************************)
(* One row of execution_approvals and the calls that decide it             *)
(* (lib/governance/execution-approval-service.ts).  Each of approve,       *)
(* reject and expire reads the row, computes the decision and a hash of    *)
(* the row as it would then be, and writes some of the columns and the     *)
(* hash, without a transaction: between read and write other calls run.    *)
(* No operation touches two rows.                                          *)
(*                                                                         *)
(* The hash is injective, so it is what was hashed.  Of the evidence only  *)
(* the keys matter: the column is jsonb, which keeps keys in an order of   *)
(* its own, while the hash is taken of the object before it is stored.     *)
(* Identities, events and evidence items recorded after the write are left *)
(* out, since no decision reads them.                                      *)
(***************************************************************************)
EXTENDS Integers, Sequences, FiniteSets

CONSTANTS
  Callers,      \* the calls that can be in flight at once
  Actors,       \* actorIds
  Keys,         \* keys of the evidence that requests and decisions may bring
  Required,     \* requiredApprovals, as requested
  MaxDecisions  \* bound: calls of approve and reject

\* The key reject adds to the evidence, if the request gives a reason.
Reason == "reason"

ASSUME ApprovalAssumption ==
  /\ Reason \in Keys
  /\ Required \in Nat
  /\ MaxDecisions \in Nat

VARIABLES
  row,         \* the row
  call,        \* [Callers -> the call in flight, with the row it has read]
  given,       \* history: who approved, one entry for each approve that was written
  refused,     \* history: who rejected, likewise
  stale,       \* history: the last write was computed from a row that had changed since
  overlapped   \* history: some write was

Statuses == {"PENDING", "APPROVED", "REJECTED", "EXPIRED"}

\* deterministicApprovalFields: what never changes is left out.
Fields(r) ==
  [status |-> r.status, approvedBy |-> r.approvedBy,
   currentApprovals |-> r.currentApprovals, rejectedBy |-> r.rejectedBy,
   evidence |-> r.evidence]

\* approvalTamperHash: of the fields, with the keys of the evidence in the order
\* in which jsonb will return them, or not.
Hash(r, inOrder) == [of |-> Fields(r), inOrder |-> inOrder]

\* verifyTamperHash, on a row as it is stored.
VerifyTamperHash(r) == r.hash = Hash(r, TRUE)

\* The order of merged evidence ({...r.approvalEvidence, ...evidence}): keys new to
\* the row come last, wherever jsonb will put them.
MergedInOrder(keys, added) ==
  IF added \subseteq keys \/ Cardinality(keys \cup added) <= 1 THEN {TRUE} ELSE BOOLEAN

Idle == [op |-> "idle"]
Busy == {p \in Callers : call[p] # Idle}

-----------------------------------------------------------------------------
(* The decisions, as functions on the row that was read.                   *)

\* A bug the checks must notice: one approval too few.
ApprovedEarly(r, actor, added) ==
  [r EXCEPT !.approvedBy = Append(@, actor),
            !.currentApprovals = Len(r.approvedBy) + 1,
            !.status = IF Len(r.approvedBy) + 2 >= Required THEN "APPROVED" ELSE "PENDING",
            !.evidence = @ \cup added]

\* approve: whatever the status is, and whoever approved before.
Approved(r, actor, added) ==
  [r EXCEPT !.approvedBy = Append(@, actor),
            !.currentApprovals = Len(r.approvedBy) + 1,
            !.status = IF Len(r.approvedBy) + 1 >= Required THEN "APPROVED" ELSE "PENDING",
            !.evidence = @ \cup added]

\* reject: whatever the status is.  A request that gives no reason removes one that
\* is there: the key is set to undefined, which neither the hash nor the column holds.
Rejected(r, actor, added) ==
  [r EXCEPT !.rejectedBy = Append(@, actor), !.status = "REJECTED",
            !.evidence = (@ \ {Reason}) \cup added]

\* expire.
Expired(r) == [r EXCEPT !.status = "EXPIRED"]

-----------------------------------------------------------------------------
(* A call reads the row, and writes what it decided some awaits later.     *)

Reads(p, op, actor, added) ==
  /\ call[p] = Idle
  /\ call' = [call EXCEPT ![p] = [op |-> op, actor |-> actor, added |-> added, read |-> row]]
  /\ UNCHANGED <<row, given, refused, stale, overlapped>>

DecisionsLeft == Len(given) + Len(refused) + Cardinality(Busy) < MaxDecisions

ApproveReads(p, actor, added) == DecisionsLeft /\ Reads(p, "approve", actor, added)

RejectReads(p, actor, added) == DecisionsLeft /\ Reads(p, "reject", actor, added)

\* expire names nobody; the actor here stands for none.
ExpireReads(p) == \E actor \in Actors : Reads(p, "expire", actor, {})

Returns(p) == call' = [call EXCEPT ![p] = Idle]

\* A write takes place, over the row as it is by now.
Writes(p) ==
  /\ stale' = (call[p].read # row)
  /\ overlapped' = (overlapped \/ call[p].read # row)

ApproveWrites(p) ==
  LET c == call[p]
      next == Approved(c.read, c.actor, c.added)
  IN
  /\ c.op = "approve"
  /\ \E inOrder \in MergedInOrder(c.read.evidence, c.added) :
       row' = [row EXCEPT !.approvedBy = next.approvedBy,
                          !.currentApprovals = next.currentApprovals,
                          !.status = next.status,
                          !.evidence = next.evidence,
                          !.hash = Hash(next, inOrder)]
  /\ given' = Append(given, c.actor)
  /\ Writes(p) /\ Returns(p)
  /\ UNCHANGED refused

RejectWrites(p) ==
  LET c == call[p]
      next == Rejected(c.read, c.actor, c.added)
  IN
  /\ c.op = "reject"
  /\ \E inOrder \in MergedInOrder(c.read.evidence, c.added) :
       row' = [row EXCEPT !.rejectedBy = next.rejectedBy,
                          !.status = next.status,
                          !.evidence = next.evidence,
                          !.hash = Hash(next, inOrder)]
  /\ refused' = Append(refused, c.actor)
  /\ Writes(p) /\ Returns(p)
  /\ UNCHANGED given

\* A bug the checks must notice: the hash is not computed anew.
ExpireWritesStatusOnly(p) ==
  /\ call[p].op = "expire"
  /\ IF row.status = "PENDING"
     THEN row' = [row EXCEPT !.status = "EXPIRED"] /\ Writes(p)
     ELSE UNCHANGED <<row, stale, overlapped>>
  /\ Returns(p)
  /\ UNCHANGED <<given, refused>>

\* The update asks for a row that is still PENDING, and changes nothing otherwise.
ExpireWrites(p) ==
  LET next == Expired(call[p].read) IN
  /\ call[p].op = "expire"
  /\ IF row.status = "PENDING"
     THEN /\ row' = [row EXCEPT !.status = next.status, !.hash = Hash(next, TRUE)]
          /\ Writes(p)
     ELSE UNCHANGED <<row, stale, overlapped>>
  /\ Returns(p)
  /\ UNCHANGED <<given, refused>>

\* A query fails, or the process that served the call is gone.
CallFails(p) ==
  /\ call[p] # Idle
  /\ Returns(p)
  /\ UNCHANGED <<row, given, refused, stale, overlapped>>

-----------------------------------------------------------------------------
\* requestApproval: the evidence is what the request brings.
RequestApproval ==
  \E keys \in SUBSET Keys, inOrder \in BOOLEAN :
    LET r == [status |-> "PENDING", approvedBy |-> <<>>, currentApprovals |-> 0,
              rejectedBy |-> <<>>, evidence |-> keys]
    IN /\ inOrder \in MergedInOrder({}, keys)
       /\ row = [status |-> r.status, approvedBy |-> r.approvedBy,
                 currentApprovals |-> r.currentApprovals, rejectedBy |-> r.rejectedBy,
                 evidence |-> r.evidence, hash |-> Hash(r, inOrder)]

Init ==
  /\ RequestApproval
  /\ call = [p \in Callers |-> Idle]
  /\ given = <<>> /\ refused = <<>>
  /\ stale = FALSE /\ overlapped = FALSE

vars == <<row, call, given, refused, stale, overlapped>>

Next ==
  \E p \in Callers :
    \/ \E actor \in Actors, added \in SUBSET Keys : ApproveReads(p, actor, added)
    \/ \E actor \in Actors, added \in SUBSET {Reason} : RejectReads(p, actor, added)
    \/ ExpireReads(p)
    \/ ApproveWrites(p)
    \/ RejectWrites(p)
    \/ ExpireWrites(p)
    \/ CallFails(p)

Spec == Init /\ [][Next]_vars

-----------------------------------------------------------------------------
(* What the rows promise.                                                  *)

DecisionFields ==
  [status: Statuses, approvedBy: Seq(Actors), currentApprovals: Nat,
   rejectedBy: Seq(Actors), evidence: SUBSET Keys]

Row ==
  [status: Statuses, approvedBy: Seq(Actors), currentApprovals: Nat,
   rejectedBy: Seq(Actors), evidence: SUBSET Keys,
   hash: [of: DecisionFields, inOrder: BOOLEAN]]

Call == [op: {"approve", "reject", "expire"}, actor: Actors, added: SUBSET Keys,
         read: Row]

TypeOK ==
  /\ row \in Row
  /\ call \in [Callers -> Call \cup {Idle}]
  /\ given \in Seq(Actors) /\ refused \in Seq(Actors)
  /\ stale \in BOOLEAN /\ overlapped \in BOOLEAN

\* The entries of s are entries of t, in the same order.
PickedFrom(s, t) ==
  \E at \in [1..Len(s) -> 1..Len(t)] :
    /\ \A i, j \in 1..Len(s) : i < j => at[i] < at[j]
    /\ \A i \in 1..Len(s) : s[i] = t[at[i]]

\* Overlapping calls may lose approvals but invent none: approvedBy lists approvals
\* that were given, each once and in the order they were written, and the row says
\* APPROVED only if as many as required are listed (approve writes the list, its
\* length and the status from the row it has read).
ApprovalsAreGiven ==
  /\ PickedFrom(row.approvedBy, given)
  /\ row.currentApprovals = Len(row.approvedBy)
  /\ row.status = "APPROVED" => row.currentApprovals >= Required

\* What a hash that does not verify means.  A row verifies after every write that saw
\* the row it replaced, if the keys of its evidence came in jsonb's order, so that
\* only a race, the order of keys or a change out of band can make verifyTamperHash
\* fail; and as long as no two calls overlapped, no decision is lost.
DecisionsAreKept ==
  /\ ~stale /\ row.hash.inOrder => VerifyTamperHash(row)
  /\ ~overlapped => row.approvedBy = given /\ row.rejectedBy = refused
==============================================================================
