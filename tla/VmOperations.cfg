SPECIFICATION UserSpec
CONSTANTS
  Request = {r1, r2, r3, r4}
  Kinds = {"start", "stop", "resize", "grow", "snapshot", "revert",
           "dropSnapshot", "backup", "restore", "migrate", "clone", "mount",
           "unmount"}
  Sizes = {1, 2}
  Home = Home
  Target = Target
  Directory = Directory
  ImageFile = ImageFile
  Attempts = 2
  MaxFaults = 2
  NoRequest = NoRequest
  Grants <- SomeGrants
  NodeOfPool <- PoolsOnNodes
  NetworkOfPool <- PoolsOfNetworks
  MinDiskGb <- TwoTemplates
  FirstTemplate = "small"
  DiskSizes = {20}
  MaxRows = 2
  Nothing = Nothing
SYMMETRY Requests
CONSTRAINTS
  RequestsUnderWay
  DialogsOpen
INVARIANTS
  PanelCoversNode
  SuccessMeansAgreement
  CompletedBackupWasCopied
  OfferedIsAccepted
  FormFits
CHECK_DEADLOCK FALSE
