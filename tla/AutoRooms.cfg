SPECIFICATION FairSpec
CONSTANTS
  None = None
  Tracked = {"map"}
  Place = {"x"}
  Group = {"g1", "g2"}
  Account = {"me", "anna", "bert"}
  Me = "me"
  Others <- MCOthers
  Key = {"good", "bad"}
  Owner <- MCOwner
  MaxMoves = 3
  MaxDrops = 1
INVARIANTS IInv OnlyOwnRooms LeftByHand VerdictIsOfKey
PROPERTY GroupIsReached
