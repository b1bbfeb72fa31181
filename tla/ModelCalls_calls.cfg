CONSTANTS
  MaxRetries = 2
  Timeout = 2
  Margin = 1
  Pieces = 2
  MaxTurns = 3
  MaxCalls = 2
  RetryCodes = {402}
  Statuses = {400, 402, 503}
  LoopCap = 200000
  JsonCaps = {1024, 4096}
  Budgets = {0, 1024, 4096}
SPECIFICATION Spec
INVARIANTS OnlyFinishedAnswers CallsArePaired
PROPERTIES SilenceIsNotRetried CallsReturn
CHECK_DEADLOCK FALSE
