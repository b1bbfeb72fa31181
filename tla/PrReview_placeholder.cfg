SPECIFICATION Spec
CONSTANTS
  a = a
  b = b
  k1 = k1
  k2 = k2
  t1 = t1
  t2 = t2
  NoText = NoText
  RunCount = 2
  Comments <- SmallSet
  Paths = {a, b}
  MayStop = {}
  Overlapping = FALSE
  StoreSurvives = FALSE
  ReviewBatch = 1
  MaxFresh = 1
  MaxOutdated = 0
  MaxFaults = 0
INVARIANTS CarriedUnchanged
CHECK_DEADLOCK FALSE
