SPECIFICATION FairMessageSpec
CONSTANTS
  q1 = q1
  t1 = t1
  NoTask = NoTask
  NoSession = NoSession
  Session <- MCSession
  Private <- MCSession
  MaxMessage = 3
  Task <- MCTask
  Handled <- MCHandled
  MaxRetries = 1
  DlqMayFail = TRUE
INVARIANTS FifoConservation ConversationOrder
PROPERTY EveryMessageEnds
CHECK_DEADLOCK FALSE
