SPECIFICATION FairDepthSpec
CONSTANTS
  Size = 2
  Values <- Items
  NoValue = 0
INVARIANTS
  TypeOK
  NoDataRace
  DepthInRange
  ExactUnlessOvertaken
PROPERTIES
  ImplementsFifo
  ItemsArePopped
  FullPasses
