CONSTANTS
  Full = 3
  CloseLimit = 3
  MinDelta = 2
  ResendGap = 1
  ResendEvery = 2
  FeedbackEvery = 2
  LineFails = TRUE
SPECIFICATION RunningSpec
PROPERTY HeldTargetReached
CHECK_DEADLOCK FALSE
