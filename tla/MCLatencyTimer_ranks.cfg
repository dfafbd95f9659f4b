SPECIFICATION Spec
CONSTANTS
  Nanos = {10, 20}
  MaxSamples = 1001
INVARIANTS
  PercentilesAreNearestRanks
