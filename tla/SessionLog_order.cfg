SPECIFICATION Spec
CONSTANTS
  NumFiles = 1
  NumJobs = 1
  MaxRuns = 1
  MaxRecords = 6
  MaxFaults = 0
INVARIANT NumberedInOrder
CHECK_DEADLOCK FALSE
