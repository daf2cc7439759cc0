SPECIFICATION Spec
CONSTANTS
  v1 = v1
  v2 = v2
  k1 = k1
  k2 = k2
  k3 = k3
  Vm = {v1, v2}
  Name = {"web"}
  NameOf <- SameName
  Task = {k1, k2, k3}
  PowerKinds = {"start"}
  SlowKinds = {"provision"}
  Attempts = 2
  MaySuspend = {}
  NoVm = NoVm
SYMMETRY EitherFirst
CONSTRAINTS
  OneExcuse
INVARIANTS
  DeletedVmIsGone
PROPERTIES
  KeepsVmPromise
  OnlyTasksDecide
CHECK_DEADLOCK FALSE
