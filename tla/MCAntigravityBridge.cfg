\* Two chats, up to two role switches, four conversations, so that one chat can
\* meet an expiry at each attempt, and one process more than a chat may start.
SPECIFICATION Spec
CONSTANTS
  WithRole = TRUE
  MaxChats = 2
  MaxProcesses = 7
  MaxConvs = 4
INVARIANTS
  OneProcess
  AnswerMatchesPrompt
  ReplyRecorded
  ConversationNotLost
  LeftoversBounded
CHECK_DEADLOCK FALSE
