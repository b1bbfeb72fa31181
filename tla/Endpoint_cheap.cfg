\* Refuted claims, one at a time: exchange the one that is not a comment.
SPECIFICATION Spec
CONSTANTS
  Worlds <- AllWorlds
  MaxTimeoutSec = 60
  KeyCmdTimeout = 2
  KeyCmdWaitDelay = 1
INVARIANT BrokenCheapKeepsMain
\* INVARIANT NoPromptIsWasted
CHECK_DEADLOCK FALSE
