SPECIFICATION Spec
CONSTANTS
  Capacity = 3
  Prices = {1, 2}
  MaxPrice = 5
  Quantities = {1}
  QtyMod = 16
  MaxId = 3
  MaxRank = 3
PROPERTIES
  IocRespectsItsPrice
