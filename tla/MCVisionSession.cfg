SPECIFICATION FairSpec
CONSTANTS
  MaxFrames = 3
  MaxBufferedEvents = 2
  MaxBufferedAge = 1
  PacketSize = 1
  MaxEvents = 4
  MaxTime = 2
  MaxFailures = 3
INVARIANTS
  TypeOK
  AnswerFitsFrame
  EventsStayInOrder
  NoEventVanishes
  WaitingIsScheduled
PROPERTIES
  SilentAfterWithdrawal
  WorkerIsReleased
  CaptureGoesOn
CHECK_DEADLOCK FALSE
