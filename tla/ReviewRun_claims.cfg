\* Refuted claims, one at a time: exchange the one that is not a comment.
SPECIFICATION Spec
CONSTANTS
  code = code
  moved = moved
  vendor = vendor
  doc = doc
  leaks = leaks
  rules = rules
  RunCount = 2
  Order <- MCOrder
  Pushes <- MCPushes
  Source = {code, moved, vendor}
  Vendored = {vendor}
  Scanners = {leaks, rules}
  Reports <- MCReports
  Notes <- MCNotes
  Proposals <- MCProposals
  OtherRisk = {"risk/none"}
  MinSeverity = 2
  Suggestions <- MCSuggestions
  UploadSarif = TRUE
  WaitSarif = TRUE
  UploadTimeout = 30
  WaitTimeout = 2
  Attempts = 2
  LongestDelay = 32
  MaxFaults = 1
  MaxEdits = 1
PROPERTY HumanCommentsStay
\* PROPERTY ResolvedWasReviewed
\* INVARIANT OneRiskLabel
\* INVARIANT CriticalBlocksRun
CHECK_DEADLOCK FALSE
