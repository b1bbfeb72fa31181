SPECIFICATION Spec
CONSTANTS
  a = a
  b = b
  k1 = k1
  k2 = k2
  t1 = t1
  t2 = t2
  NoText = NoText
  RunCount = 3
  Comments <- SmallSet
  Paths = {a, b}
  MayStop = {}
  Overlapping = FALSE
  StoreSurvives = TRUE
  ReviewBatch = 1
  MaxFresh = 1
  MaxOutdated = 0
  MaxFaults = 1
INVARIANTS ResolvedStaysGone
CHECK_DEADLOCK FALSE
