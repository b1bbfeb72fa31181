\* Refuted claims, one at a time: exchange the one that is not a comment.
SPECIFICATION Spec
CONSTANTS
  Null = "/dev/null"
  Paths <- MCPaths
  Order <- MCOrder
  Parts <- MCParts
  Trees <- MCTrees
  Gone <- none
  Binary <- bin
  Repositories <- MCRepositories
  Patterns <- MCPatterns
  Blocked = {"vendor"}
  Indexable = {"a.go", "b.go", "v.go"}
  Skipped = {"dist"}
  MaxTextPerFile = 15
  Hunks <- MCHunks
  ReadMax = 2
  Windows <- MCWindows
  Words = {"y"}
  Calls <- MCCalls
  Excerpts <- MCExcerpts
  Rewrites <- MCRewrites
  MaxEvents = 1
INVARIANT PlacedInsideHunks
\* INVARIANT NewSideFirst
\* INVARIANT FiledUnderReview
\* INVARIANT ToolsReadTheHead
CHECK_DEADLOCK FALSE
