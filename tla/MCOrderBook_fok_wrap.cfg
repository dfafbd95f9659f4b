SPECIFICATION Spec
CONSTANTS
  Capacity = 3
  Prices = {1, 2}
  MaxPrice = 5
  Quantities = {0, 1, 2, 3}
  QtyMod = 4
  MaxId = 3
  MaxRank = 3
PROPERTIES
  FokRejectedOnlyIfShort
