SPECIFICATION Spec
CONSTANTS
  Frame = 4
  Ahead = 3
  Burst = 8
  Target = 3
  JitterMax = 10
  ChannelCap = 32
  BufferCap = 25
  Offset = 2
  InFlight = 2
  MaxSleep = 2
  MaxHold = 1
  Far = 64
INVARIANTS IInv NoGap DelayIsBounded DeafIsSilent LossIsBounded
