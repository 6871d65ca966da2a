SPECIFICATION Spec
CONSTANTS
  MaxFrames = 3
  MaxBufferedEvents = 2
  MaxBufferedAge = 1
  PacketSize = 1
  MaxEvents = 4
  MaxTime = 0
  MaxFailures = 1
INVARIANT LastBatchIsSent
CHECK_DEADLOCK FALSE
