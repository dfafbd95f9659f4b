SPECIFICATION ReportsSpec
CONSTANTS
  Capacity = 3
  Prices = {1, 2}
  MaxPrice = 5
  Quantities = {0, 1, 2}
  QtyMod = 3
  MaxId = 3
  MaxRank = 3
  MaxCalls = 2
INVARIANTS
  LevelAggregates
  FokCompletes
  VolumeIsConserved
  FillsAreOnTheTape
  QueriesShowTheBook
  AddReturnsItsId
PROPERTIES
  LimitRespected
