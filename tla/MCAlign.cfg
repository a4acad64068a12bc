SPECIFICATION FairSpec
CONSTANTS
  Arm = {left, right}
  HoldFrames = 2
  MaxQueue = 2
INVARIANTS SlowWhileStreaming RestoredAfterAlign
PROPERTY AlignEnds
CHECK_DEADLOCK FALSE
