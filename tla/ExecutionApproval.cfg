\* Two overlapping calls on a row that needs two approvals.
SPECIFICATION Spec
CONSTANTS
  Callers = {p1, p2}
  Actors = {ann, bob}
  Keys = {"reason", "ticket"}
  Required = 2
  MaxDecisions = 4
SYMMETRY Symmetry
INVARIANTS
  ApprovalsAreGiven
  DecisionsAreKept
