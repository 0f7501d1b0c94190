SPECIFICATION Spec
CONSTANTS
  Risk = "B"
  Confident = TRUE
  MaxWorkflows = 1
  MaxChanges = 1
  Callers = {p1, p2}
  Actors = {ann, bob}
  Submitted = {"A", "B"}
  MaxFaults = 1
  Action = "REMOVE_LICENSE"
  MaxDryRuns = 2
  MaxActs = 5
SYMMETRY Symmetry
INVARIANTS
  TypeOK
  ActsAreApproved
  ActLeavesResult
  ActsAreBounded
  ApprovalsAreSeparate
PROPERTIES
  DirectRequestStays
  ResultIsFinal
  ImplementsGovernedAction
