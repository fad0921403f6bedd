CONSTANTS
  Player = {p1}
  Nowhere = Nowhere
  NoWorld = NoWorld
  MAX_BOARD = 0
SPECIFICATION RestoreSpec
INVARIANT NobodyLeftBehind
