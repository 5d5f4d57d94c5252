SPECIFICATION Spec
CONSTANTS
  Turn = {1, 2}
  Trigger = {}
  Rewritten = {1}
  Earlier = 2
  MaxMid = 2
  MinDue = 2
  Attempts = 2
  MaxSweeps = 1
  MaxRequests = 1
  MaxFaults = 2
  MaxCrashes = 1
INVARIANTS TypeOK CapturedOnce OneEpisodePerTurn FedIsKept
CHECK_DEADLOCK FALSE
