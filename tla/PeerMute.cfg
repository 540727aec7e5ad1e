SPECIFICATION Spec
CONSTANTS
  Peer = {p1, p2}
  Room = {r1, r2}
  Named = {p1}
  None = None
  MaxSteps = 5
  MaxLoads = 1
SYMMETRY Symmetry
INVARIANTS TypeOK MuteHolds
CHECK_DEADLOCK FALSE
