SPECIFICATION FairSpec
CONSTANTS
  NUM_TICKS = 7
  RING_BUFFER_SIZE = 2
  Latencies <- FastAndSlow
INVARIANTS
  TicksInOrder
  ReportsAllTicks
PROPERTIES
  ProgramEnds
CHECK_DEADLOCK FALSE
