CONSTANTS
  s1 = s1
  s2 = s2
  s3 = s3
  c1 = c1
  c2 = c2
  Sessions = {s1, s2, s3}
  Confs = {c1}
  Ref <- RefOne
  InitialConf <- KeepDaily
  ConfEdits <- NoEdits
  Calendar <- Days
  MaxRestarts = 0
  ApiMayFail = FALSE
  UserDeletes = {}
  ConfDeletes = {}
SPECIFICATION BackedupSpec
INVARIANT CleanupSparesNewest
PROPERTY RetentionConverges
