SPECIFICATION ScenarioSpec
CONSTANTS
  e1 = e1
  w1 = w1
  Overlap = FALSE
  Wakers <- OneWaker
  Enterers <- OneEnterer
  MaxDream = 1
  MaxTurn = 3
  MaxFaults = 0
  MaxCrashes = 1
  RetainMinTurns = 1
  MaxStage = 3
  Concurrent = 2
  MaxVersion = 12
PROPERTIES SignsOfTheStage
CHECK_DEADLOCK FALSE
