SPECIFICATION TasksSpec
CONSTANTS
  MaxJobs = 2
  Users = {u1}
  MaxLoops = 2
  MaxTasks = 2
  Retries = 1
  Members = {t1, t2, t3}
  Limits = {0, 1, 2}
  NoLimit = NoLimit
  None = None
INVARIANTS NoOverlap GracefulStopWaits LimitHolds FirstErrorReturned
PROPERTIES GracefulStopReturns DueJobRuns WaitReturns
CHECK_DEADLOCK FALSE
