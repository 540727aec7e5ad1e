SPECIFICATION SpSpec
CONSTANTS
  map = map
  squad = squad
  older = older
  Room <- MCRoom
  Type <- MCType
  Key = {"map", "squad"}
  VoiceThreshold = 2
  SilenceThreshold = 2
  Sound = {"voice", "silence"}
  CaptureCapacity = 1
  OutCapacity = 2
  None = None
  MaxFrames = 4
  MaxKeys = 3
  MaxSteps = 3
SYMMETRY Symmetry
INVARIANTS SpInv VoiceGateIsHysteresis
PROPERTIES GoesWhereAsked
CHECK_DEADLOCK FALSE
