\* Configuration files and environments in products, a credential command of any outcome.
SPECIFICATION Spec
CONSTANTS
  Worlds <- AllWorlds
  MaxTimeoutSec = 60
  KeyCmdTimeout = 2
  KeyCmdWaitDelay = 1
INVARIANTS OneSource PromptsAreUsed
CHECK_DEADLOCK FALSE
