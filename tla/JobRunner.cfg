SPECIFICATION FairSpec
CONSTANTS
  urgent = urgent
  routine = routine
  w1 = w1
  w2 = w2
  Keys = {urgent, routine}
  CustomKeys = {}
  Workers = {w1, w2}
  MaxAttempts <- MCMaxAttempts
  Priority <- MCPriority
  Serves <- MCServes
  Handles <- MCHandles
  MaxJobs = 2
  MaxLapses = 1
  MaxConcurrent <- MCMaxConcurrent
INVARIANTS TypeOK OverlapNeedsLostLease RunningIsExecuted SlotsAreUsed OnlyLostLeasesGoUncounted RetryBudget
PROPERTIES SettledIsFinal QueuedJobsAreTaken
