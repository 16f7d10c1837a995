SPECIFICATION DepthSpec
CONSTANTS
  Size = 2
  Values <- Items
  NoValue = 0
INVARIANTS
  DepthWasReached
