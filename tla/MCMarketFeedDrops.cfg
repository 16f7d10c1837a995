SPECIFICATION FeedSpec
CONSTANTS
  QueueSize = 1
  Capacities <- OneAsset
  MaxUpdates = 3
  MaxRuns = 1
INVARIANTS
  NoDrops
CHECK_DEADLOCK FALSE
