SPECIFICATION Spec
CONSTANTS
  Peer = {p1, p2}
  RoomId = {r1, r2}
  Account = {a1, a2}
  Instance = {i1, i2, i3}
  MaxConnectionsPerAccount = 1
  None = None
SYMMETRY Symmetry
INVARIANTS IInv MutualAwareness NoLeakedRoom NoSlotLeak ListedNameIsBound
