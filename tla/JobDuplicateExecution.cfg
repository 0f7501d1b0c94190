SPECIFICATION RuntimeSpec
CONSTANTS
  sync = sync
  verify = verify
  w1 = w1
  w2 = w2
  lock = lock
  Keys = {sync, verify}
  CustomKeys = {}
  Workers = {w1, w2}
  Holders = {w1, w2}
  Tasks = {t1, t2}
  LockKeys = {lock}
  MaxAttempts <- MCMaxAttempts
  Priority <- MCPriority
  Serves <- MCServes
  Handles <- MCAllHandles
  MaxConcurrent <- MCMaxConcurrent
  LockKeyOf <- MCLockKeyOf
  MaxJobs = 1
  MaxLapses = 0
  MaxLockIds = 2
INVARIANT DuplicateExecutionPrevented
