CONSTANTS
  Player = {1, 2}
  Board = {1, 2}
  StoredBoard <- TwoBoards
  MAX_STAT = 6
  MaxBusy = 2
  Lookups = {1}
  ReplyTo = {2}
  MaxLabel = 1
  MaxReplies = 2
  PastBlur = FALSE
  Pointer = {11, 12, 13, 14, 15, 16}
  Nobody = Nobody
  Nowhere = Nowhere
  Null = Null
SPECIFICATION Spec
INVARIANT PlayersKeepTheirState
