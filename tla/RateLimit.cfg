SPECIFICATION Spec
CONSTANTS
  Kind <- MCKind
  Unit = 2
  Rate <- MCRate
  Burst <- MCBurst
  OverageWindow = 2
  OverageThreshold = 2
  MaxTime = 4
INVARIANTS AdmissionBound RefusalBound
PROPERTIES RefusalIsDue IsEager
