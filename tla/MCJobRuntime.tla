---------------------------- MODULE MCJobRuntime ----------------------------
(* Instances of JobRuntime for TLC.                                        *)
EXTENDS JobRuntime

CONSTANTS sync, verify, w1, w2, lock

\* Two job types over one job key share the lock and a retry budget of two.
MCMaxAttempts == [k \in Keys |-> 2]
MCPriority    == [k \in Keys |-> 0]
MCLockKeyOf   == [k \in Keys |-> lock]
MCServes      == [w \in Workers |-> Keys]

\* w2 has no handler for verification jobs.
MCHandles == [w \in Workers |-> IF w = w2 THEN {sync} ELSE Keys]
MCMaxConcurrent == [w \in Workers |-> 1]

\* Both workers have handlers for everything.
MCAllHandles == [w \in Workers |-> Keys]
=============================================================================
