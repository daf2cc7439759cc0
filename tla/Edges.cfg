SPECIFICATION EdgeSpec
CONSTANTS
  j1 = j1
  j2 = j2
  k1 = k1
  v1 = v1
  p1 = p1
  Node = {j1, j2}
  Token = {k1}
  TokenOf <- OneToken
  NameOf <- Names
  Vm = {v1}
  MaxToggles = 2
  NoNode = NoNode
  Download = {d1, d2, d3}
  Size = 2
  Version = {"old", "new"}
  Expected = "old"
  HasChecksum = TRUE
  MaxParallel = 2
  MaxCrashes = 1
  NoFile = NoFile
  Hole = Hole
  Tokens = {t1, t2}
  Guests = {g1}
  Upgrades = {u1, u2}
  TokenLife = 2
  RuleIds = {1, 2}
  RuleKinds <- SomeRules
  Ports = {1, 2, 3}
  Calls = {c1, c2}
  Proposals = {p1, p2}
  PlanSteps = 2
  Backups <- OneBackup
  Executions = {x1, x2}
  MaxVersion = 1
  SocketIds = {1, 2}
  PanelFaults = 1
INVARIANTS
  TokenMakesOneNode
  CachedIsVerified
  TokenTakenOnce
  ChainMeansRules
  PlanIsCarriedOutOnce
PROPERTIES
  SilentNodeGoesOffline
  PanelCatchesUp
CHECK_DEADLOCK FALSE
