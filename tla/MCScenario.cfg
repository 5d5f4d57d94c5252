SPECIFICATION ScenarioSpec
CONSTANTS
  e1 = e1
  w1 = w1
  Overlap = FALSE
  Wakers <- OneWaker
  Enterers <- OneEnterer
  MaxDream = 3
  MaxTurn = 3
  MaxFaults = 1
  MaxCrashes = 1
  RetainMinTurns = 1
  MaxStage = 3
  Concurrent = 2
  MaxVersion = 10
INVARIANT HardExitLeaves
PROPERTIES ClosedNotWritten ImplementsDreamLife OneStagePerTurn
CHECK_DEADLOCK FALSE
