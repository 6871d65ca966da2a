SPECIFICATION FairSpec
CONSTANTS
  MaxRuns = 2
  MaxLosses = 1
  MaxTurns = 1
INVARIANTS TypeOK NoOrphanRoom
PROPERTIES DeadSessionIsLeft 
CHECK_DEADLOCK FALSE
