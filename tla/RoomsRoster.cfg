SPECIFICATION Spec
CONSTANTS
  Peer = {p1, p2, p3}
  RoomId = {r1}
  Account = {}
  Instance = {i1, i2, i3}
  MaxConnectionsPerAccount = 1
  None = None
SYMMETRY Symmetry
INVARIANT RosterIsComplete
