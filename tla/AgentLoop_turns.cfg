SPECIFICATION Spec
CONSTANTS
  MaxTokens = 20
  MaxToolRequestTimes = 4
  MaxConsecutiveEmpty = 3
  HasTemplate = TRUE
  HasGraceTools = TRUE
  PromptSizes = {9}
  MessageSizes = {1, 3}
  SummarySizes = {1}
  MaxCalls = 1
INVARIANTS NothingLost SnapshotAligned OwnedOrKilled
PROPERTIES ImplementsTranscript
CHECK_DEADLOCK FALSE
