SPECIFICATION Spec
CONSTANTS
  MaxEntries = 2
  MaxRounds = 2
  Char = {a, b}
  MinReplies = 1
  MaxReplies = 2
  MaxChain = 1
  MaxFaults = 0
  MaxCrashes = 0
INVARIANTS NeverBoth
CHECK_DEADLOCK FALSE
