SPECIFICATION Spec
CONSTANTS
  MaxTokens = 10
  MaxToolRequestTimes = 3
  MaxConsecutiveEmpty = 3
  HasTemplate = FALSE
  HasGraceTools = TRUE
  PromptSizes = {2}
  MessageSizes = {1, 3}
  SummarySizes = {1}
  MaxCalls = 1
INVARIANTS NothingLost
CHECK_DEADLOCK FALSE
