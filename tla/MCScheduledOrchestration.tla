---------------------- MODULE MCScheduledOrchestration ----------------------
(* Instances of ScheduledOrchestration for TLC.                            *)
EXTENDS ScheduledOrchestration

CONSTANT queueJob

MCTypeOf == [s \in Schedules |-> queueJob]

MCDependencyOf == [d \in Deps |-> NoItem]

\* An item with one attempt that is ready.
MCEnqueued == {[status |-> "READY", maxAttempts |-> 1, unapproved |-> FALSE]}
=============================================================================
