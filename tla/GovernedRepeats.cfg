SPECIFICATION Spec
CONSTANTS
  Risk = "A"
  Confident = FALSE
  MaxWorkflows = 1
  MaxChanges = 0
  Callers = {p1, p2}
  Actors = {ann, bob}
  Submitted = {"A"}
  MaxFaults = 0
  Action = "REMOVE_LICENSE"
  MaxDryRuns = 1
  MaxActs = 2
INVARIANTS
  ExecutedOnce
