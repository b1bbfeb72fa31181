\* Refuted claim: ReservedHeadersKept.
SPECIFICATION Spec
CONSTANTS
  Worlds <- HeaderWorlds
  MaxTimeoutSec = 60
  KeyCmdTimeout = 2
  KeyCmdWaitDelay = 1
INVARIANT ReservedHeadersKept
CHECK_DEADLOCK FALSE
