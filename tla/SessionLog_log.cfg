\* A session, a background compression and a resumed log.
SPECIFICATION Spec
CONSTANTS
  NumFiles = 2
  NumJobs = 1
  MaxRuns = 2
  MaxRecords = 4
  MaxFaults = 1
INVARIANTS ChainUnbroken EndIsLast EndCountsAll NumbersUnique RequestWitnessed OneLinePerFault
CHECK_DEADLOCK FALSE
