SPECIFICATION Spec
CONSTANTS
  NumFiles = 1
  NumJobs = 0
  MaxRuns = 2
  MaxRecords = 4
  MaxFaults = 0
INVARIANT EndedStaysEnded
CHECK_DEADLOCK FALSE
