---------------------------- MODULE GovernedAction ----------------------------
(***************************************************************************)
(* What governed execution promises about one recommendation, whatever     *)
(* requests run at once and whatever fails.  The provider is acted on only *)
(* in the name of an approved workflow, and the workflow an execution      *)
(* request names never changes.  An execution begins only while there is   *)
(* no outcome, acts at most once, and ends without an answer only if       *)
(* something failed.  The outcome is final, and is true of the execution   *)
(* that recorded it: EXECUTED if that one acted, BLOCKED if it did not.    *)
(*                                                                         *)
(* It promises neither that the provider is acted on once (see the run     *)
(* GovernedRepeats) nor that BLOCKED means it never was: an execution that *)
(* overlaps, or that failed after it acted, may have acted all the same.   *)
(***************************************************************************)
EXTENDS Naturals

CONSTANTS
  Workflows,   \* approval workflows
  NoWorkflow,  \* what a request created outside any workflow names
  Unasked,     \* no execution has been requested
  Executions   \* what may execute at the same time

VARIABLES
  approved,   \* the workflows that were approved
  subject,    \* the workflow in whose name execution is requested
  begun,      \* the executions that have begun and have not acted
  acted,      \* the executions that have acted and are not answered
  performed,  \* how often the provider was acted on
  outcome,    \* the recorded outcome
  failures    \* how often something failed

vars == <<approved, subject, begun, acted, performed, outcome, failures>>

Init ==
  /\ approved = {} /\ subject = Unasked
  /\ begun = {} /\ acted = {}
  /\ performed = 0 /\ outcome = "NONE" /\ failures = 0

Approve(w) ==
  /\ approved' = approved \cup {w}
  /\ UNCHANGED <<subject, begun, acted, performed, outcome, failures>>

Ask(w) ==
  /\ subject = Unasked
  /\ w \in approved \cup {NoWorkflow}
  /\ subject' = w
  /\ UNCHANGED <<approved, begun, acted, performed, outcome, failures>>

Begin(e) ==
  /\ subject # Unasked
  /\ outcome = "NONE"
  /\ e \notin begun \cup acted
  /\ begun' = begun \cup {e}
  /\ UNCHANGED <<approved, subject, acted, performed, outcome, failures>>

Perform(e) ==
  /\ subject \in approved
  /\ e \in begun
  /\ begun' = begun \ {e}
  /\ acted' = acted \cup {e}
  /\ performed' = performed + 1
  /\ UNCHANGED <<approved, subject, outcome, failures>>

\* The first execution to end records what it did; the others end unheard.
End(e) ==
  /\ e \in begun \cup acted
  /\ outcome' = IF outcome # "NONE" THEN outcome
                ELSE IF e \in acted THEN "EXECUTED" ELSE "BLOCKED"
  /\ begun' = begun \ {e}
  /\ acted' = acted \ {e}
  /\ UNCHANGED <<approved, subject, performed, failures>>

Fail ==
  /\ failures' = failures + 1
  /\ begun' \subseteq begun
  /\ acted' \subseteq acted
  /\ UNCHANGED <<approved, subject, performed, outcome>>

Next ==
  \/ \E w \in Workflows : Approve(w)
  \/ \E w \in Workflows \cup {NoWorkflow} : Ask(w)
  \/ \E e \in Executions : Begin(e) \/ Perform(e) \/ End(e)
  \/ Fail

Spec == Init /\ [][Next]_vars
=============================================================================
