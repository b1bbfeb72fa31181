\* Edits, failures, cancellation and crashes over two runs.
SPECIFICATION Spec
CONSTANTS
  NumFiles = 3
  Indexable = {1, 2, 3}
  Manifests = {}
  Dirs <- MCDirs
  DirOf <- MCDirOf
  Contents = {tiny, mid}
  Trivial = {tiny}
  Large = {}
  NoDeps = {}
  BatchSize = 2
  Workers = 2
  Modes = {"repo", "full", "diff"}
  None = None
  MaxRuns = 2
  MaxEdits = 1
INVARIANTS SummaryMatchesHash CleanRunIsExact NoChangeIsFree NoSendAfterClose
PROPERTY RowsOutliveFailures
CHECK_DEADLOCK FALSE
