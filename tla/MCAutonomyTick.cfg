SPECIFICATION FairSpec
CONSTANTS
  wake = wake
  fact = fact
  sense = sense
  Queued <- MCQueued
  Wake <- MCWake
  Sensed <- MCSensed
  MaxJob = 2
  Cap = 1
  MaxMessages = 1
  MaxCuts = 1
INVARIANTS TypeOK AtMostOneTalk UnansweredCap WakeNotReplayed ToldOnce
PROPERTY OwnerServed
CHECK_DEADLOCK FALSE
