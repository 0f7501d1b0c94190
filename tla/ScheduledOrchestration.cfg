\* Two requests, one schedule of the queue's job, one item.
CONSTANTS
  queueJob = queueJob
  Schedules = {hourly}
  Types = {queueJob}
  TypeOf <- MCTypeOf
  Pinned = {hourly}
  Callers = {c1, c2}
  NoSchedule = NoSchedule
  StormLimit = 1
  MaxRuns = 2
  Items = {i1}
  Deps = {}
  DependencyOf <- MCDependencyOf
  MustSucceed = {}
  Enqueued <- MCEnqueued
  CreatedAs = "READY"
  NoItem = NoItem
  Limit = 1
  MaxPasses = 2
  MaxCalls = 0
  MaxFaults = 1
SPECIFICATION FairScheduledSpec
INVARIANTS ScheduledTypeOK StormsAreBounded RunningRowsAreAwaited
PROPERTIES TicksDuplicateInARace RunsAreSettled LocksAreGivenBack
CHECK_DEADLOCK FALSE
