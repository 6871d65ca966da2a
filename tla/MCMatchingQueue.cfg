SPECIFICATION WorkedSpec
CONSTANTS
  u1 = u1  u2 = u2  u3 = u3
  r1 = r1  r2 = r2  r3 = r3
  w1 = w1  w2 = w2

  Users = {u1, u2}
  Requests = {r1, r2}
  Owner <- MCTwoUsers
  Workers = {w1, w2}
  NoRequest = NoRequest  NoWorker = NoWorker  NoJob = NoJob
  Wants <- MCAnyone
  MayBlock <- MCNoCouples
  MayRestrict = {}
  Faults = TRUE
  StaleReads = FALSE
  MaxAttempts = 2
  BatchSize = 1
  AcceptTimeout = 2
  MinWindow = 1
  MinPrep = 1
  Horizon = 0
  SessionDuration = 0
  RecentExclusion = 1
  ExpiredExclusion = 1
  MaxJobs = 1
  MaxLag = 2
  MaxTime = 0
PROPERTIES JobsEnd
CHECK_DEADLOCK FALSE
