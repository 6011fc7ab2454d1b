\* Three steps, with or without a prompt, two of which may raise.
SPECIFICATION Spec
CONSTANTS
  read = read
  bash = bash
  c1 = c1
  c2 = c2
  Tools = {read, bash}
  CallIds = {c1, c2}
  NoCall = NoCall
  Enabled = TRUE
  MaxTokens = 300
  TargetTokens = 280
  KeepRecentRounds = 1
  MaxToolChars = 100
  Overhead = 30
  CallChars = 20
  Permitted = {read}
  Answers <- MCAnswers
  PromptSizes = {20}
  AnswerSizes = {10}
  ResultSizes = {150}
  RefusalSize = 40
  SystemSize = 40
  MaxIterations = 2
  MaxSteps = 3
  MaxFaults = 2
INVARIANTS
  TypeOK
  DamageLocal
  HooksRemember
CHECK_DEADLOCK FALSE
