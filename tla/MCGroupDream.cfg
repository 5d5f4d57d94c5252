SPECIFICATION Spec
CONSTANTS
  MaxEntries = 2
  MaxRounds = 2
  Char = {a, b}
  MinReplies = 1
  MaxReplies = 2
  MaxChain = 1
  MaxFaults = 1
  MaxCrashes = 1
INVARIANTS TypeOK ExitWins RoundInOneDream ExitStopsRound MarkerIsLive
PROPERTY RoundEnds
CHECK_DEADLOCK FALSE
