SPECIFICATION Spec
CONSTANTS
  e1 = e1
  e2 = e2
  w1 = w1
  Overlap = TRUE
  Wakers <- OneWaker
  Enterers <- TwoEnterers
  MaxDream = 2
  MaxTurn = 3
  MaxFaults = 2
  MaxCrashes = 1
  RetainMinTurns = 1
SYMMETRY Interchangeable
INVARIANTS TypeOK TurnsKept CloseSeals RetainedOnce
CHECK_DEADLOCK FALSE
