SPECIFICATION Spec
CONSTANTS
  NumAssets = 4
  NumSectors = 3
  NumPeriods = 2
INVARIANTS
  IndexIsStableOrder
  NoLookAhead
  SectorNeutral
CHECK_DEADLOCK FALSE
