\* Every history of at most six messages over these sizes.
SPECIFICATION CodeSpec
CONSTANTS
  Tools = {read}
  CallIds = {c1}
  NoCall = NoCall
  Enabled = TRUE
  MaxTokens = 300
  TargetTokens = 230
  KeepRecentRounds = 1
  MaxToolChars = 100
  Overhead = 30
  CallChars = 20
  UserSizes = {20}
  ToolSizes = {50, 120, 500}
  MaxMessages = 6
INVARIANTS
  LoopsAgree
  PrunedAsNeeded
  CompactionKeepsPairing
CHECK_DEADLOCK FALSE
