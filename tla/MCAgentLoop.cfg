\* Three prompts of up to two turns, up to two calls in a turn: compaction
\* prunes and condenses rounds that were answered, failed or cut off.
SPECIFICATION FairSpec
CONSTANTS
  read = read
  bash = bash
  reviewer = reviewer
  manager = manager
  Tools = {read, bash}
  CallIds = {c1, c2}
  NoCall = NoCall
  Enabled = TRUE
  MaxTokens = 400
  TargetTokens = 380
  KeepRecentRounds = 1
  MaxToolChars = 100
  Overhead = 30
  CallChars = 20
  AgentRoles = {reviewer, manager}
  InitialRole = reviewer
  RoleTools <- MCRoleTools
  ConvIds = {k1}
  NoConv = NoConv
  PromptSizes = {20}
  AnswerSizes = {10}
  ResultSizes = {50, 500}
  RefusalSize = 40
  SystemSize = 40
  MaxIterations = 2
  MaxCalls = 2
  MaxPrompts = 3
INVARIANTS
  ToolPairing
  RequestHasPrompt
  RoundMatchesCounters
PROPERTIES
  LastRoundOnlyGrows
  RunProgresses
  RunEnds
CHECK_DEADLOCK FALSE
