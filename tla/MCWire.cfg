SPECIFICATION FairSpec
CONSTANTS
  LastType = 2
  Size <- Sizes
  MaxFramePayload = 2
  MaxFrames = 2
  MaxDamage = 2
INVARIANTS
  WireTypeOK
PROPERTIES
  ImplementsChannel
  EndIsNoticed
  SoundFrameHandled
CHECK_DEADLOCK FALSE
