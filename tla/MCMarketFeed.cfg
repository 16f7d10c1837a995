SPECIFICATION FairFeedSpec
CONSTANTS
  QueueSize = 2
  Capacities <- NoneOrTwo
  MaxUpdates = 5
  MaxRuns = 3
INVARIANTS
  FeedTypeOK
  Accounted
  OneLossPerStop
  CountSettled
  OneThreadEach
PROPERTIES
  StopReturns
  UpdatesAreApplied
CHECK_DEADLOCK FALSE
