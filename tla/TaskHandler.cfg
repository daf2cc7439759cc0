SPECIFICATION Spec
CONSTANTS
  t1 = t1
  t2 = t2
  s1 = s1
  s2 = s2
  Task = {t1, t2}
  Slot = {s1, s2}
  Service = {"vms", "containers"}
  ServiceOf <- MCServiceOf
  BackupTask = {t1}
  BootOrders <- ActualOrder
  Attempts = 3
  MaxStalledCount = 1
  MaxCrashes = 0
  MaxDbFaults = 0
  NoHandler = NoHandler
  NoTask = NoTask
  NoSlot = NoSlot
INVARIANT
  VmTaskReachesItsService
CHECK_DEADLOCK FALSE
