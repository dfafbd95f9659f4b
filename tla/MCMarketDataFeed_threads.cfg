SPECIFICATION Spec
CONSTANTS
  Controllers = {c1, c2}
  Room = 2
  CounterMod = 5
INVARIANTS
  TypeOK
  NeverAborts
  NothingGetsLost
  HandledInOrder
PROPERTIES
  StopFlushes
  StopReturnsIfPublisherRests
  TicksGetHandled
