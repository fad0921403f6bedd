CONSTANTS
  owner1 = owner1
  c1 = c1
  c2 = c2
  olga = olga
  gil = gil
  ann = ann
  bob = bob
  Guest = Guest
  h1 = h1
  h2 = h2
  NoHandle = NoHandle
  Client = {owner1, c1, c2}
  Account = {olga, gil}
  Nobody = Nobody
  AccountOf <- Signed
  MAX_BOARD = 1
  MaxSeats = 2
  Speaker = {c1, c2}
  ChatAccount = {ann, bob}
  MaxLines = 1
  DoorConn = {c1, c2}
  DoorAccount = {gil}
  Operator = {1, 2}
  PrefAccount = {ann, bob}
  Handle = {h1, h2}
  Request = {c1, c2}
SPECIFICATION PeopleSpec
SYMMETRY Alike
INVARIANTS TokensAgree RightsKept NothingMissed SanctionsStand HandlesUnique
PROPERTIES BlocksHold
CHECK_DEADLOCK FALSE
