SPECIFICATION FairSpec
CONSTANTS
  urgent = urgent
  routine = routine
  w1 = w1
  w2 = w2
  Keys = {urgent, routine}
  CustomKeys = {}
  Workers = {w1, w2}
  MaxAttempts <- MCMaxAttempts
  Priority <- MCPriority
  Serves <- MCServes
  Handles <- MCAllHandles
  MaxJobs = 1
  MaxLapses = 0
  MaxConcurrent <- MCMaxConcurrent
PROPERTY RetriesAreRun
