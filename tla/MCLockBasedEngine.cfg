SPECIFICATION FairSpec
CONSTANTS
  Producer = producer
  Consumer = consumer
  Main = main
  Threads <- AllThreads
  Dummy = 0
  MaxTicks = 4
  Values <- Ticks
  NoValue = NoValue
  NoThread = NoThread
  MaxItems = 6
INVARIANTS
  ProcessedInOrder
PROPERTIES
  StopCompletes
CHECK_DEADLOCK FALSE
