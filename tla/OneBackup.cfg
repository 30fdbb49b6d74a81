CONSTANTS
  s1 = s1
  s2 = s2
  s3 = s3
  c1 = c1
  c2 = c2
  Sessions = {s1, s2}
  Confs = {c1, c2}
  Ref <- RefTwo
  InitialConf <- OneRetried
  ConfEdits <- NoEdits
  Calendar <- OneDay
  MaxRestarts = 0
  ApiMayFail = FALSE
  UserDeletes = {}
  ConfDeletes = {}
SPECIFICATION Spec
INVARIANT OneBackupAtATime
