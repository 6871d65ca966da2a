SPECIFICATION Spec
CONSTANTS
  u1 = u1  u2 = u2  u3 = u3
  r1 = r1  r2 = r2  r3 = r3
  w1 = w1  w2 = w2

  Users = {u1, u2}
  Requests = {r1, r2}
  Owner <- MCTwoUsers
  Workers = {w1}
  NoRequest = NoRequest  NoWorker = NoWorker  NoJob = NoJob
  Wants <- MCAnyone
  MayBlock <- MCNoCouples
  MayRestrict = {}
  Faults = FALSE
  StaleReads = FALSE
  MaxAttempts = 1
  BatchSize = 1
  AcceptTimeout = 2
  MinWindow = 1
  MinPrep = 1
  Horizon = 0
  SessionDuration = 0
  RecentExclusion = 1
  ExpiredExclusion = 1
  MaxJobs = 1
  MaxLag = 2
  MaxTime = 6
INVARIANT ExpiredPartnersMayMeetAgain
CHECK_DEADLOCK FALSE
