\* Two workflows of one recommendation, submitted and decided by overlapping calls;
\* nothing is executed.
SPECIFICATION FairSpec
CONSTANTS
  Risk = "A"
  Confident = FALSE
  MaxWorkflows = 2
  MaxChanges = 2
  Callers = {p1, p2}
  Actors = {ann}
  Submitted = {"A"}
  MaxFaults = 1
  Action = "REMOVE_LICENSE"
  MaxDryRuns = 0
  MaxActs = 0
INVARIANTS
  LinkIsTruthful
PROPERTIES
  ApprovedGetsRequest
