SPECIFICATION DriverSpec
CONSTANTS
  Controllers = {main}
  Main = main
  Room = 1
  CounterMod = 8
  TickCount = 4
INVARIANTS
  CountersAgreeAtTheEnd
PROPERTIES
  DriverEnds
CHECK_DEADLOCK FALSE
