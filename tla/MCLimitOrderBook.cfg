SPECIFICATION FairSpec
CONSTANTS
  PriceLimit = 3
  Prices <- ThreePrices
  Quantities <- SmallQuantities
  MaxVolume = 6
INVARIANTS
  TypeOK
  Uncrossed
  Balanced
PROPERTIES
  ImplementsOrderBook
  AddOrderReturns
