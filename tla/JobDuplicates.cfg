SPECIFICATION Spec
CONSTANTS
  urgent = urgent
  routine = routine
  w1 = w1
  w2 = w2
  Keys = {urgent, routine}
  CustomKeys = {}
  Workers = {w1, w2}
  MaxAttempts <- MCMaxAttempts
  Priority <- MCPriority
  Serves <- MCServes
  Handles <- MCHandles
  MaxJobs = 3
  MaxLapses = 0
  MaxConcurrent <- MCMaxConcurrent
INVARIANT NoDuplicateActiveJob
