SPECIFICATION Spec
CONSTANTS
  Capacity = 3
  Threads = {t1, t2, t3}
  Allocators = {t1}
  SizeMod = 16
  WeakFails = TRUE
INVARIANTS
  TypeOK
  SlotsAreShared
  CounterIsExplained
PROPERTIES
  ImplementsSlotPool
  LockFree
