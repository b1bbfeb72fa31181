SPECIFICATION Spec
CONSTANTS
  a = a
  b = b
  k1 = k1
  k2 = k2
  t1 = t1
  t2 = t2
  NoText = NoText
  RunCount = 3
  Comments <- WithScanner
  Paths = {a, b}
  MayStop = {}
  Overlapping = FALSE
  StoreSurvives = FALSE
  ReviewBatch = 1
  MaxFresh = 2
  MaxOutdated = 3
  MaxFaults = 1
INVARIANTS PlaceKept
CHECK_DEADLOCK FALSE
