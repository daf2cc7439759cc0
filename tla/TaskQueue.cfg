SPECIFICATION OneTaskSpec
CONSTANTS
  t1 = t1
  t2 = t2
  s1 = s1
  s2 = s2
  Task = {t1, t2}
  Slot = {s1, s2}
  Service = {"vms", "containers"}
  ServiceOf <- MCServiceOf
  BackupTask = {t1}
  BootOrders <- AnyOrder
  Attempts = 3
  MaxStalledCount = 1
  MaxCrashes = 2
  MaxDbFaults = 2
  NoHandler = NoHandler
  NoTask = NoTask
  NoSlot = NoSlot
INVARIANTS
  FinishedJobHasFinishedRow
  FailedOnlyAfterLastAttempt
PROPERTIES
  KeepsPromise
  JobSettles
CHECK_DEADLOCK FALSE
