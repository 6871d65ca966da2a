SPECIFICATION Spec
CONSTANTS
  ua = ua  ub = ub
  UserA = ua  UserB = ub
  NoUser = NoUser
  StaleReads = FALSE
  ScheduledStart = 1
  OpenBefore = 1
  CloseAfter = 1
  Base = 2
  Extension = 1
  DecisionWindow = 1
  SoonBefore = 2
  ImminentBefore = 1
  NoShowGrace = 1
  MaxLag = 1
  MaxTime = 5
PROPERTY CancelledMatchIsInert
CHECK_DEADLOCK FALSE
