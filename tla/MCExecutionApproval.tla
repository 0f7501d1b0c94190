------------------------- MODULE MCExecutionApproval -------------------------
(***************************************************************************)
(* An instance of ExecutionApproval for TLC: two calls and two actors, all *)
(* of them interchangeable.                                                *)
(***************************************************************************)
EXTENDS ExecutionApproval, TLC

Symmetry == Permutations(Callers) \cup Permutations(Actors)
=============================================================================
