SPECIFICATION Spec
CONSTANTS
  Peer = {p1, p2}
  Room = {r1}
  EventCap = 2
  DirectCap = 2
  Pending = 1
INVARIANTS TypeOK ChangesAreSeen MembersAreSeen
SYMMETRY Alike
