CONSTANTS
  c1 = c1
  c2 = c2
  w1 = w1
  w2 = w2
  p1 = p1
  Confs = {c1}
  Workloads = {w1, w2, p1}
  Pods = {p1}
  Account <- Accounts
  Images = {"v1", "v2"}
  Plans = {"hourly", "suspended"}
  InitialSpecs <- BothTargets
  SpecEdits <- UpkeepEdits
  Redeployed = {w2}
  MaxChanges = 2
  MaxRefusals = 1
  MaxRestarts = 1
SPECIFICATION FairSpec
INVARIANTS TypeOK SidecarHasAccess NothingLeftBehind
PROPERTIES ConfigurationConverges DeletedConfGoes
CHECK_DEADLOCK FALSE
