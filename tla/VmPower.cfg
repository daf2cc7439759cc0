SPECIFICATION FairSpec
CONSTANTS
  v1 = v1
  v2 = v2
  k1 = k1
  k2 = k2
  k3 = k3
  Vm = {v1}
  Name = {"web"}
  NameOf <- OneName
  Task = {k1, k2, k3}
  PowerKinds = {"start", "stop", "restart"}
  SlowKinds = {"provision"}
  Attempts = 1
  MaySuspend = {"web"}
  NoVm = NoVm
PROPERTIES
  RowFollowsDomain
  RemovalSettles
CHECK_DEADLOCK FALSE
