\* Refuted claim: StaleWasResolved, of a comment GitHub lists without a line.
SPECIFICATION Spec
CONSTANTS
  a = a
  b = b
  k1 = k1
  k2 = k2
  t1 = t1
  t2 = t2
  NoText = NoText
  RunCount = 2
  Comments <- SmallSet
  Paths = {a, b}
  MayStop = {}
  Overlapping = FALSE
  StoreSurvives = FALSE
  ReviewBatch = 1
  MaxFresh = 1
  MaxOutdated = 1
  MaxFaults = 0
INVARIANTS StaleWasResolved
CHECK_DEADLOCK FALSE
