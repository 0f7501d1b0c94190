\* Two overlapping passes and an operator on one item.
CONSTANTS
  i1 = i1  d1 = d1
  Items = {i1}
  Deps = {d1}
  DependencyOf <- MCDependencyOf
  MustSucceed = {d1}
  Enqueued <- MCEnqueued
  CreatedAs = "PAUSED"
  NoItem = NoItem
  Limit = 1
  MaxPasses = 2
  MaxCalls = 2
  MaxFaults = 1
SPECIFICATION Spec
INVARIANTS TypeOK WorkersExclude EscalatedItemsAreOnRecord HeldLocksHavePasses
PROPERTIES TakenOncePerReadiness RunsAreUndoneInARace
CHECK_DEADLOCK FALSE
