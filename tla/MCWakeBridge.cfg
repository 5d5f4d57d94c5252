SPECIFICATION FairSpec
CONSTANTS
  Published = 1
  garden = garden
  Hint <- MCHint
  MaxRuns = 2
  Allowed <- MCAllowed
INVARIANTS TypeOK ToldOnceUnlessLost NothingSkipped
PROPERTY EveryEventEnds
CHECK_DEADLOCK FALSE
