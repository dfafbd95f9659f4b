SPECIFICATION Spec
CONSTANTS
  Capacity = 3
  Prices = {1, 2}
  MaxPrice = 5
  Quantities = {0, 1, 2}
  QtyMod = 3
  MaxId = 4
  MaxRank = 3
INVARIANTS
  TypeOK
  NoCross
  QueuesAreSound
  PoolIsPartitioned
  TickIsCurrent
PROPERTIES
  PriceTimePriority
  PlaceIsKept
  ImplementsClob
  UsesSlotPool
  MatchingEnds
