CONSTANTS
  Player = {1, 2}
  Board = {1}
  StoredBoard <- OneBoard
  MAX_STAT = 3
  MaxBusy = 0
  Lookups = {}
  ReplyTo = {2}
  MaxLabel = 1
  MaxReplies = 1
  PastBlur = FALSE
  Pointer = {11, 12, 13, 14, 15, 16, 17}
  Nobody = Nobody
  Nowhere = Nowhere
  Null = Null
SPECIFICATION Spec
PROPERTY StepsEnd
