CONSTANTS
  s1 = s1
  r1 = r1
  c1 = c1
  c2 = c2
  Sessions = {s1}
  Confs = {c1, c2}
  Restores = {r1}
  Ref <- RefOne
  RestoreRef <- RestoreTwo
  InitialConf <- OneAndTwo
  ConfEdits <- OneTargetEdit
  Calendar <- OneDay
  MaxRestarts = 1
  ApiMayFail = FALSE
  UserDeletes = {}
  ConfDeletes = {}
SPECIFICATION FairNamespaceSpec
PROPERTIES RestoreTerminates RestoreKeepsPromise
CHECK_DEADLOCK FALSE
