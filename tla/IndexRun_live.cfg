\* Every run ends, with fewer slots than batches.
SPECIFICATION FairSpec
CONSTANTS
  NumFiles = 4
  Indexable = {1, 2, 3, 4}
  Manifests = {}
  Dirs <- MCDirs
  DirOf <- MCDirOf
  Contents = {mid, big}
  Trivial = {}
  Large = {big}
  NoDeps = {}
  BatchSize = 3
  Workers = 1
  Modes = {"repo", "full", "diff"}
  None = None
  MaxRuns = 1
  MaxEdits = 0
INVARIANTS SendersNeverBlock
PROPERTY RunEnds
CHECK_DEADLOCK FALSE
