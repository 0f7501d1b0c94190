----------------------- MODULE DistributedLockService -----------------------
(***************************************************************************)
(* The in-memory lease locks of lib/distributed-lock-service.ts: a Map from *)
(* a lock key to the record of its holder.  Every method is async, but no   *)
(* body awaits, so each call acts on the Map in one step and its caller     *)
(* sees the result in a later one.  Lock ids are fresh numbers here (a      *)
(* timestamp and a random suffix in the code).                              *)
(***************************************************************************)
EXTENDS Integers

CONSTANTS
  LockKeys,   \* makeLockKey values
  Holders,    \* holder ids
  MaxLockIds  \* bound: locks ever granted

ASSUME LockAssumption == MaxLockIds \in Nat

VARIABLES
  locks,      \* the Map: the record of each lock key, or Unlocked
  nextLockId, \* the next fresh lock id
  outlived    \* history: the ids of the locks whose TTL passed while they were held

lockVars == <<locks, nextLockId, outlived>>

LockRecord == [id: Nat, by: Holders, expired: BOOLEAN]
Unlocked   == [id |-> -1]

\* A bug the checks must notice: a live lock is swept with the expired ones.
SweepsLiveLocks(k) == Unlocked

\* A bug the checks must notice: a look-up without expireStale before it.
SweepsNothing(k) == locks[k]

\* The private expireStale on one key.
Swept(k) ==
  IF locks[k] # Unlocked /\ locks[k].expired THEN Unlocked ELSE locks[k]

\* acquireLock refuses a key that is held after the sweep; the sweep stays done.
LockHeld(k) ==
  /\ Swept(k) # Unlocked
  /\ locks' = [m \in LockKeys |-> Swept(m)]
  /\ UNCHANGED <<nextLockId, outlived>>

\* acquireLock grants the key with a fresh id.
AcquireLock(k, h) ==
  /\ Swept(k) = Unlocked
  /\ nextLockId <= MaxLockIds
  /\ locks' = [m \in LockKeys |->
                 IF m = k THEN [id |-> nextLockId, by |-> h, expired |-> FALSE]
                          ELSE Swept(m)]
  /\ nextLockId' = nextLockId + 1
  /\ UNCHANGED outlived

\* A bug the checks must notice: release drops nothing.
ReleasesNothing(id, h) == UNCHANGED lockVars

\* releaseLock: the id and the holder must both match.
ReleaseLock(id, h) ==
  /\ locks' = [k \in LockKeys |->
                 IF locks[k] # Unlocked /\ locks[k].id = id /\ locks[k].by = h
                 THEN Unlocked ELSE locks[k]]
  /\ UNCHANGED <<nextLockId, outlived>>

\* The TTL of a lock passes: the record stays until some call sweeps it.
LockExpires(k) ==
  /\ locks[k] # Unlocked
  /\ ~locks[k].expired
  /\ locks' = [locks EXCEPT ![k].expired = TRUE]
  /\ outlived' = outlived \cup {locks[k].id}
  /\ UNCHANGED nextLockId

LockInit ==
  /\ locks = [k \in LockKeys |-> Unlocked]
  /\ nextLockId = 1
  /\ outlived = {}

LockTypeOK ==
  /\ locks \in [LockKeys -> LockRecord \cup {Unlocked}]
  /\ nextLockId \in Nat
  /\ outlived \subseteq Nat
=============================================================================
