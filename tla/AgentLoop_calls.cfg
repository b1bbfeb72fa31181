\* Several calls in an answer, first prompts over the limit, and the loop's end.
SPECIFICATION FairSpec
CONSTANTS
  MaxTokens = 10
  MaxToolRequestTimes = 4
  MaxConsecutiveEmpty = 3
  HasTemplate = TRUE
  HasGraceTools = TRUE
  PromptSizes = {1, 9}
  MessageSizes = {1}
  SummarySizes = {1, 2}
  MaxCalls = 2
INVARIANTS NoOrphanResults RequestFits
PROPERTIES Terminates JobsDrain
CHECK_DEADLOCK FALSE
