CONSTANTS
  Player = {1, 2}
  Board = {1, 2}
  StoredBoard <- TwoBoards
  MAX_STAT = 4
  MaxBusy = 2
  Lookups = {1}
  ReplyTo = {2}
  MaxLabel = 1
  MaxReplies = 1
  PastBlur = FALSE
  Pointer = {11, 12, 13, 14, 15, 16, 17}
  Nobody = Nobody
  Nowhere = Nowhere
  Null = Null
SPECIFICATION Spec
INVARIANTS TypeOK MembershipAgrees IdentityKept
PROPERTIES KeepsWhereabouts
