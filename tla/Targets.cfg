CONSTANTS
  s1 = s1
  s2 = s2
  s3 = s3
  c1 = c1
  c2 = c2
  Sessions = {s1}
  Confs = {c1}
  Ref <- RefOne
  InitialConf <- ThreeTargets
  ConfEdits <- TargetEdits
  Calendar <- OneDay
  MaxRestarts = 1
  ApiMayFail = TRUE
  UserDeletes = {s1}
  ConfDeletes = {c1}
SPECIFICATION Spec
INVARIANTS TypeOK Pipeline OneBusyTarget SuccessIsBackedUp FailureIsExhausted SnapshotsPurged
PROPERTIES WorkIsNeverUndone KeepsPromise
CHECK_DEADLOCK FALSE
