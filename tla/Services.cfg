SPECIFICATION ServiceSpec
CONSTANTS
  c1 = c1
  c2 = c2
  a1 = a1
  a2 = a2
  r1 = r1
  d1 = d1
  vm1 = vm1
  vm2 = vm2
  lan = lan
  dmz = dmz
  Call = {c1, c2, a1, a2, r1, d1}
  KindOf <- AllKinds
  TargetVm <- AllVms
  PoolOf <- AllPools
  Pool = {lan, dmz}
  Addr = {1, 2, 3}
  HomePool <- Homes
  Vm = {vm1, vm2}
  NoCall = NoCall
  NoAddr = NoAddr
  Plans = {s1}
  Passes = {p1, p2}
  Interval = 2
  PlanFaults = 1
  Copies = {1, 2, 3}
  KeepLast = 1
  Tries = 2
  Owners = {o1, o2}
  Requests = {q1, q2}
  VmIds = {1, 2, 3}
  Sizes = {1}
  VmLimits = {1}
  NoLimit = 99
  Rules = {r1}
  Hooks = {h1}
  Evaluations = {v1, v2}
  Cooldown = 2
  AlertFaults = 1
  OneTimeTokens = {t1, t2}
  Logins = {q1, q2}
  Secrets = {1}
  Passwords = {1}
  Permissions = {"manage", "view"}
  RoleNames = {"admin", "operator", "guest"}
  SystemRoles <- TwoRoles
  CacheTTL = 2
  ReadTicks = 2
  Installs = {i1, i2, i3}
  Ips = {a1}
  Activates = {q1, q2}
  MaxActivations = 1
  RateWindow = 2
  RateMax = 1
  CharCount = 5
  KeyLength = 3
INVARIANTS
  PrunedHasNewer
  QuotaOverrunIsBounded
  CooldownIsKept
  AdmissionIsBounded
  ActivationsAreBounded
  OneTypoIsCaught
  LockTakesEffect
  SpentTokensAreRefused
  RunsAreSpaced
PROPERTIES
  AddressStays
  RunsForEver
CHECK_DEADLOCK FALSE
