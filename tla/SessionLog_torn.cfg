SPECIFICATION Spec
CONSTANTS
  NumFiles = 1
  NumJobs = 0
  MaxRuns = 2
  MaxRecords = 4
  MaxFaults = 1
INVARIANT PriorRecordsIntact
CHECK_DEADLOCK FALSE
