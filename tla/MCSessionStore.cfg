\* Header ensured first, three events, two crashes, an unlimited number of
\* conversations announced.
SPECIFICATION Spec
CONSTANTS
  k1 = k1
  k2 = k2
  ConvIds = {k1, k2}
  NoConv = NoConv
  EnsuresHeader = TRUE
  MaxEvents = 3
  MaxLines = 5
  MaxCrashes = 2
INVARIANTS
  EventsInOrder
  LossBounded
  ConversationKept
PROPERTIES
  HeaderStays
CHECK_DEADLOCK FALSE
