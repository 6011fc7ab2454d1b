\* With compaction; the first and the third prompt have the same text.
SPECIFICATION LogSpec
CONSTANTS
  read = read
  reviewer = reviewer
  developer = developer
  Tools = {read}
  CallIds = {c1, c2}
  NoCall = NoCall
  Enabled = TRUE
  MaxTokens = 400
  TargetTokens = 380
  KeepRecentRounds = 1
  MaxToolChars = 100
  Overhead = 30
  CallChars = 20
  AgentRoles = {reviewer, developer}
  InitialRole = reviewer
  RoleTools <- MCRoleTools
  ConvIds = {conv}
  NoConv = NoConv
  PromptSizes = {20}
  AnswerSizes = {10}
  ResultSizes = {50, 500}
  RefusalSize = 40
  SystemSize = 40
  MaxIterations = 2
  MaxCalls = 1
  MaxPrompts = 3
  TextOf <- MCAlternatingTexts
INVARIANTS
  ReplayFaithful
  NothingLost
CHECK_DEADLOCK FALSE
