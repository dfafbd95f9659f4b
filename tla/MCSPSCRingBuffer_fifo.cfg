SPECIFICATION Spec
CONSTANTS
  Capacity = 4
  Values = {a, b}
  Nothing = nothing
  MaxPush = 6
INVARIANTS
  TypeOK
  NoDataRace
  FirstInFirstOut
PROPERTIES
  ImplementsView
  EverythingGetsThrough
