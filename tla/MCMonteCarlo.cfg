SPECIFICATION Spec
CONSTANTS
  Draws <- UpOrDown
  Spot = 4
  Strike = 16
  Drift = 1
  Vol = 2
  Discount <- Half
  MaxPaths = 4
  MaxSteps = 2
  Values <- Samples
INVARIANTS
  StatsAreExact
  PricesItsDraws
CHECK_DEADLOCK FALSE
