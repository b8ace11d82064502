SPECIFICATION FairSpec
CONSTANTS
  Plans <- MCPlans
  GlobalFrames = 4
  ScanLimit = 2
  MaxCalls = 2
  MaxOthers = 2
INVARIANTS TypeOK SchedulerSound LineageRetained NestedNotices ParkedIsQuiet VerdictAgrees
PROPERTIES JoinBarrier KeepsContract Ends
CHECK_DEADLOCK FALSE
