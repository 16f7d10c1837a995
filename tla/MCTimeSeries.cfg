SPECIFICATION SeriesSpec
CONSTANTS
  Lanes = 4
  MaxSize = 14
  capacity_ = 5
  Prices <- PowersOfTen
INVARIANTS
  EachElementOnce
  FaultsAtPassedArrayOnly
PROPERTIES
  ImplementsWindow
CHECK_DEADLOCK FALSE
