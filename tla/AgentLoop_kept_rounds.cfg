SPECIFICATION Spec
CONSTANTS
  MaxTokens = 10
  MaxToolRequestTimes = 4
  MaxConsecutiveEmpty = 3
  HasTemplate = TRUE
  HasGraceTools = TRUE
  PromptSizes = {2}
  MessageSizes = {1, 2, 3}
  SummarySizes = {1}
  MaxCalls = 1
PROPERTIES KeptRoundsFit
CHECK_DEADLOCK FALSE
