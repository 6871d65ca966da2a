SPECIFICATION FairSpec
CONSTANTS
  Calls <- MCCalls
  MaxTokens = 2
  MaxNotes = 3
  PageSize = 2
  MaxLoads = 2
  Fleeting <- MCFleeting
  Ranks <- MCRanks
  Ttls <- MCTtls
  QueueLimit = 2
  MaxCards = 3
  MaxClock = 3
  MaxAsks = 2
  MaxPairs = 1
  MaxPolls = 1
  MaxLooks = 1
  MaxRequests = 2
  RetakeLimit = 1
  Duration = 3
  Interval = 1
  Questions = 2
  HintTtl = 1
  MaxSmiles = 1
  MaxEdits = 2
  Base = 1
  Extra = 1
  Lead = 1
  Skew = 1
  AnnounceAt <- MCAnnounceAt
  MaxNews = 1
  BeatInterval = 2
  MaxSilences = 2
  MaxTalks = 2
  MaxTries = 2
  MaxSaves = 2
  OverloadWindow = 2
  RecoveryWindow = 4
  ProfileCooldown = 2
  BudgetSteps <- MCSteps
  MaxAnalysed = 10
  SnapshotInterval = 2
  ObservedGaps <- MCObservedGaps
  MaximumFrameGap = 1
  MaxDropped = 1
  HandEntry = 1
  HandRecovery = 1
  FrameSteps <- MCSteps
  MaxMeasured = 4
  Tolerance = 1
  MinAmplitude = 2
  MaxAmplitude = 3
  Reversal = 1
  MinDown = 1
  MinUp = 1
  MaxHold = 2
  MinNod = 2
  MaxNod = 8
  NodCooldown = 1
  FrameGaps <- MCGaps
  MaxNodTime = 10
  Dispatchers <- MCDispatchers
  ReminderLimit = 2
  MaxSends = 2
INVARIANTS TypeOK  
PROPERTIES StepsAreSound 
CHECK_DEADLOCK FALSE
