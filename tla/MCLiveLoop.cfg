SPECIFICATION LiveSpec
CONSTANTS
  Capacity = 2
  AssetIds <- Ids
  Values <- Prices
  Zero = 0
  Readers = {r1}
  main = r1
  Threshold = 0
  MaxCycles = 2
  MaxSeq = 4
INVARIANTS
  TypeOK
  NoTornRead
PROPERTIES
  ImplementsAtomicStore
  SnapshotsReturn
  CyclesAreCurrent
CHECK_DEADLOCK FALSE
