SPECIFICATION Spec
CONSTANTS
  Reasons = {"FACE_MISSING"}
  EntryDuration <- Entry
  GateRecovery <- ByReason
  AnalysisWarmup = 3
  StableDuration = 1
  StableFrames = 2
  TargetUsable = 1
  MinimumFrames = 2
  PartialUsable = 0
  PartialFrames = 1
  SampleGap = 1
  MaximumWall = 3
  SetupTimeout = 4
  LongGap = 1
  AdaptiveWarmup = 1
  EntryTime <- EntryTimes
  EntryFrames <- EntryCounts
  RecoveryTime <- ByDetector
  RecoveryFrames <- Counts
  Cooldown <- ByDetector
  MaximumGap <- Gaps
  SuspensionGrace = 1
  RecoveryWarmup = 1
  ProlongedTime = 2
  MaxStep = 2
  MaxTime = 7
  Stops = {"CAMERA"}
  DetectorsFail = FALSE
INVARIANTS
  TypeOK
  
  EventsAreValid
  EpisodeStartsInClearView
  NoInventedObservation
  UnavailabilityDisjoint
  CalibrationEnds
  OneBaselinePerCandidate
CHECK_DEADLOCK FALSE
