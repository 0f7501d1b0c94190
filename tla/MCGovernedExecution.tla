------------------------- MODULE MCGovernedExecution -------------------------
(***************************************************************************)
(* Instances of GovernedExecution for TLC: two calls and two actors, all   *)
(* of them interchangeable.                                                *)
(***************************************************************************)
EXTENDS GovernedExecution, TLC

Symmetry == Permutations(Callers) \cup Permutations(Actors)
=============================================================================
