SPECIFICATION SRSpec
CONSTANTS
  Session = {s1, s2}
  Group <- MCGroup
  ClusterId = {c1, c2, c3}
  MinOverlap = 2
  Ttl = 1
  MaxClock = 2
  None = None
SYMMETRY Symmetry
INVARIANTS SRInv NoFusion
