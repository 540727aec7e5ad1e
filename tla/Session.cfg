SPECIFICATION SeSpec
CONSTANTS
  Nobody = Nobody
  Conn = {c1, c2}
  IdleTimeout = 2
  SweepInterval = 2
  RequestTime = 1
INVARIANTS SeInv DroppedInTime KickIsEarned
PROPERTIES SilentIsGone
