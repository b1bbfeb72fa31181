\* One batch's request times out.
SPECIFICATION Spec
CONSTANTS
  NumFiles = 3
  Indexable = {1, 2, 3}
  Manifests = {}
  Dirs <- MCDirs
  DirOf <- MCDirOf
  Contents = {mid}
  Trivial = {}
  Large = {}
  NoDeps = {}
  BatchSize = 2
  Workers = 2
  Modes = {"repo"}
  None = None
  MaxRuns = 1
  MaxEdits = 0
INVARIANT BadBatchIsolated
CHECK_DEADLOCK FALSE
