SPECIFICATION Spec
CONSTANTS
  town = town  caves = caves  nosuch = nosuch
  c1 = c1  c2 = c2
  World <- Worlds  Default = town  Unhosted = nosuch
  Conn <- TwoConns
  MaxPlayer = 2  MaxInst = 3  Gates = 1
  Grace = 1  IdleLimit = 1
  Blockers <- Nobody  SignedIn <- Nobody  None = None
SYMMETRY SwapConns
INVARIANTS TypeOK OneAvatar AvatarsAttended TokensReclaim
