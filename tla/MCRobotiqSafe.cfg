CONSTANTS
  Full = 4
  CloseLimit = 3
  MinDelta = 2
  ResendGap = 1
  ResendEvery = 2
  FeedbackEvery = 2
  LineFails = TRUE
SPECIFICATION Spec
INVARIANT CleanMeansSent
PROPERTY NoWriteBeginsAfterStop
CHECK_DEADLOCK FALSE
