CONSTANTS
  MaxStats = 6
  MAX_INS = 3
  Full = 2
  Scenes <- Sound
  Board = {b1, b2}
  Text = {x, y}
  NoText = NoText
  MAX_STAT = 3
  PastLoss = FALSE
SPECIFICATION MCSpec
SYMMETRY Alike
INVARIANTS BoardWhole DeadRespawn KnockersRead ProgramsKept
PROPERTIES NothingLost LocksHold TurnsEnd
CHECK_DEADLOCK FALSE
