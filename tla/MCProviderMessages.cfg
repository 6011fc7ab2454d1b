\* Three prompts of up to two turns, up to two calls in a turn.
SPECIFICATION ProviderSpec
CONSTANTS
  reviewer = reviewer
  developer = developer
  Tools = {"read", "bash"}
  CallIds <- MCCallIds
  NoCall = NoCall
  Enabled = TRUE
  MaxTokens = 500
  TargetTokens = 460
  KeepRecentRounds = 1
  MaxToolChars = 100
  Overhead = 30
  CallChars = 20
  AgentRoles = {reviewer, developer}
  InitialRole = reviewer
  RoleTools <- MCRoleTools
  ProviderOf <- MCProviderOf
  ConvIds = {}
  NoConv = NoConv
  PromptSizes = {20}
  AnswerSizes = {0, 10}
  ResultSizes = {50}
  RefusalSize = 40
  SystemSize = 40
  MaxIterations = 2
  MaxCalls = 2
  MaxPrompts = 3
INVARIANTS
  AnthropicTurnsMatch
  GoogleRequestValid
CHECK_DEADLOCK FALSE
