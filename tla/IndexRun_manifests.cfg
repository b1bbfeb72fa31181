\* A manifest loses its last dependency between two runs.
SPECIFICATION Spec
CONSTANTS
  NumFiles = 2
  Indexable = {2}
  Manifests = {1}
  Dirs <- MCDirs
  DirOf <- MCDirOf
  Contents = {deps, nodeps}
  Trivial = {deps, nodeps}
  Large = {}
  NoDeps = {nodeps}
  BatchSize = 2
  Workers = 2
  Modes = {"repo"}
  None = None
  MaxRuns = 2
  MaxEdits = 1
INVARIANT ManifestsMirrored
CHECK_DEADLOCK FALSE
