---------------------------- MODULE MCJobRunner -----------------------------
(* Instances of JobRunner for TLC.                                         *)
EXTENDS JobRunner

CONSTANTS urgent, routine, w1, w2

\* The urgent key is polled first and has a single attempt, the routine one two.
MCMaxAttempts == [k \in Keys |-> IF k = urgent THEN 1 ELSE 2]
MCPriority    == [k \in Keys |-> IF k = urgent THEN 0 ELSE 1]

\* w1 serves and handles everything; w2 polls everything and has no handler
\* for the routine job type.
MCServes  == [w \in Workers |-> Keys]
MCHandles == [w \in Workers |-> IF w = w2 THEN {urgent} ELSE Keys]

\* Every worker has a handler for every job type.
MCAllHandles == [w \in Workers |-> Keys]

\* w1 may take both jobs in one poll; w2 has a single slot.
MCMaxConcurrent == [w \in Workers |-> IF w = w2 THEN 1 ELSE 2]
=============================================================================
