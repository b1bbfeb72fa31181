\* Refuted claims, one at a time: exchange the one that is not a comment.
SPECIFICATION Spec
CONSTANTS
  a = a
  b = b
  k1 = k1
  k2 = k2
  t1 = t1
  t2 = t2
  NoText = NoText
  RunCount = 2
  Comments <- SmallSet
  Paths = {a, b}
  MayStop = {a}
  Overlapping = FALSE
  StoreSurvives = TRUE
  ReviewBatch = 1
  MaxFresh = 2
  MaxOutdated = 0
  MaxFaults = 0
PROPERTY DroppedWasReviewed
\* INVARIANT KeyedByFingerprint
CHECK_DEADLOCK FALSE
