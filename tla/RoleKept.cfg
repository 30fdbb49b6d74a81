CONSTANTS
  c1 = c1
  c2 = c2
  w1 = w1
  w2 = w2
  p1 = p1
  Confs = {c1, c2}
  Workloads = {w1, w2, p1}
  Pods = {p1}
  Account <- Accounts
  Images = {"v1", "v2"}
  Plans = {"hourly", "suspended"}
  InitialSpecs <- OneTargetEach
  SpecEdits <- NoEdits
  Redeployed = {}
  MaxChanges = 0
  MaxRefusals = 0
  MaxRestarts = 0
SPECIFICATION Spec
INVARIANT RoleWhileSidecars
CHECK_DEADLOCK FALSE
