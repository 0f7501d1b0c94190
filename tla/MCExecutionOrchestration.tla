---------------------- MODULE MCExecutionOrchestration ----------------------
(* Instances of ExecutionOrchestration for TLC.                            *)
EXTENDS ExecutionOrchestration

CONSTANTS i1, d1

\* The item waits for the one dependency.
MCDependencyOf == [d \in Deps |-> i1]

\* An item with one attempt that is ready, with its approval or without, and one
\* with three attempts that waits.
MCEnqueued ==
  {[status |-> "READY", maxAttempts |-> 1, unapproved |-> FALSE],
   [status |-> "READY", maxAttempts |-> 1, unapproved |-> TRUE],
   [status |-> "WAITING_DEPENDENCIES", maxAttempts |-> 3, unapproved |-> FALSE]}
=============================================================================
