SPECIFICATION Spec
CONSTANTS
  c1 = c1  c2 = c2  sq = sq
  Client <- Two
  Cell <- OneSquare  StatCell = sq  MAX_BOARD = 1
  MaxWrites = 2  MaxEdits = 2
CHECK_DEADLOCK FALSE
INVARIANTS TypeOK GateHolds DiffsInOrder
PROPERTY EditsGoOut
