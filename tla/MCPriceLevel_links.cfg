SPECIFICATION Spec
CONSTANTS
  Slot = {s1, s2, s3, s4}
  Null = null
  Level = {bid, ask}
  QtyMod = 3
INVARIANTS
  TypeOK
  LinksAreSound
  TotalsAddUp
