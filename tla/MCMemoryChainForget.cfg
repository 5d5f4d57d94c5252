SPECIFICATION Spec
CONSTANTS
  Turn = {1, 2}
  Trigger = {}
  Rewritten = {}
  Earlier = 1
  MaxMid = 2
  MinDue = 1
  Attempts = 1
  MaxSweeps = 0
  MaxRequests = 1
  MaxFaults = 0
  MaxCrashes = 0
INVARIANTS ForgottenStays
CHECK_DEADLOCK FALSE
