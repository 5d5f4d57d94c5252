SPECIFICATION Spec
CONSTANTS
  k1 = k1
  k2 = k2
  Turn <- TwoTurns
  MaxExec = 2
  Msg = {1, 2, 3}
  Page = 1
  MaxItems = 2
  Allowed <- MCAllowed
SYMMETRY Interchangeable
INVARIANTS TypeOK ExecutedOnce ReplyOnPhone
PROPERTIES VerdictStands ImplementsMailbox
CHECK_DEADLOCK FALSE
