CONSTANTS
  s1 = s1
  c1 = c1
  w1 = w1
  Sessions = {s1}
  Confs = {c1}
  Ref <- RefOne
  Workloads = {w1}
  Account <- Accounts
  InitialSpecs <- OneTarget
  Keep <- KeepOne
  Calendar <- OneDay
  UserDeletes = {}
  MaxChanges = 1
  MaxRefusals = 1
  MaxRestarts = 1
SPECIFICATION FairSpec
PROPERTY NoOrphanSession
PROPERTY SessionsServed
CHECK_DEADLOCK FALSE
