CONSTANTS
  p1 = p1
  p2 = p2
  Player = {p1, p2}
  Nowhere = Nowhere
  NoWorld = NoWorld
  MAX_BOARD = 1
  d1 = d1
  d2 = d2
  alice = alice
  Guest = Guest
  Nobody = Nobody
  NoName = NoName
  classic = classic
  castle = castle
  castle2 = castle2
  Job = {d1, d2}
  Account = {alice, Guest}
  Family <- Stem
  Canonical = {classic}
  MaxConcurrent = 2
SPECIFICATION WorldsSpec
INVARIANTS WorldKept HeldByDreams
PROPERTIES LastingIsSaved JobsEnd
CHECK_DEADLOCK FALSE
