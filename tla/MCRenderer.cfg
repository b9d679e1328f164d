SPECIFICATION FairSpec
CONSTANTS
  MaxFrames = 3
  MaxResizes = 2
INVARIANTS
  TypeOK
  BitmapOwned
PROPERTIES
  NeverBackwards
  FrameShown
  CloseReturns
CHECK_DEADLOCK FALSE
