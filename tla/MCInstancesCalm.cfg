SPECIFICATION FairSpec
CONSTANTS
  town = town  caves = caves  nosuch = nosuch
  c1 = c1  c2 = c2
  World <- Worlds  Default = town  Unhosted = nosuch
  Conn <- TwoConns
  MaxPlayer = 2  MaxInst = 2  Gates = 0
  Grace = 1  IdleLimit = 1
  Blockers <- First  SignedIn <- Nobody  None = None
INVARIANTS NoGhosts
PROPERTIES DetachedResolve WorldsReleased
