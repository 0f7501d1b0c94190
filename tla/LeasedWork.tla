----------------------------- MODULE LeasedWork -----------------------------
(***************************************************************************)
(* What a lock with a time limit promises to those who ask for it, in the  *)
(* abstract.  A resource is granted while nobody holds it, and refused     *)
(* only while somebody does: neither a lock whose time has passed nor one  *)
(* that was forgotten turns anybody away.  Time takes the lock from its    *)
(* holder, whose work goes on regardless; whoever leaves gives back his    *)
(* own lock and never that of another.                                     *)
(*                                                                         *)
(* The locks of lib/distributed-lock-service.ts under runWithLock keep     *)
(* this promise.                                                           *)
(***************************************************************************)
CONSTANTS Resources, Holders

VARIABLES
  working,  \* [Resources -> SUBSET Holders], those granted it and not done
  holding,  \* [Resources -> SUBSET Holders], the one of them who holds it still
  refused   \* [Resources -> SUBSET Holders], those turned away

leaseVars == <<working, holding, refused>>

Init ==
  /\ working = [r \in Resources |-> {}]
  /\ holding = [r \in Resources |-> {}]
  /\ refused = [r \in Resources |-> {}]

Begin(r, h) ==
  /\ holding[r] = {}
  /\ h \notin working[r]
  /\ working' = [working EXCEPT ![r] = @ \cup {h}]
  /\ holding' = [holding EXCEPT ![r] = {h}]
  /\ UNCHANGED refused

Refuse(r, h) ==
  /\ holding[r] # {}
  /\ refused' = [refused EXCEPT ![r] = @ \cup {h}]
  /\ UNCHANGED <<working, holding>>

Expire(r) ==
  /\ holding[r] # {}
  /\ holding' = [holding EXCEPT ![r] = {}]
  /\ UNCHANGED <<working, refused>>

Leave(r, h) ==
  /\ h \in working[r] \cup refused[r]
  /\ working' = [working EXCEPT ![r] = @ \ {h}]
  /\ holding' = [holding EXCEPT ![r] = @ \ {h}]
  /\ refused' = [refused EXCEPT ![r] = @ \ {h}]

Next ==
  \E r \in Resources :
    \/ Expire(r)
    \/ \E h \in Holders : Begin(r, h) \/ Refuse(r, h) \/ Leave(r, h)

Spec == Init /\ [][Next]_leaseVars
=============================================================================
