\* A run is killed after its last file and started again.
SPECIFICATION Spec
CONSTANTS
  NumFiles = 2
  Indexable = {1, 2}
  Manifests = {}
  Dirs <- MCDirs
  DirOf <- MCDirOf
  Contents = {mid}
  Trivial = {}
  Large = {}
  NoDeps = {}
  BatchSize = 2
  Workers = 2
  Modes = {"repo"}
  None = None
  MaxRuns = 2
  MaxEdits = 0
INVARIANT DirectoriesResume
CHECK_DEADLOCK FALSE
