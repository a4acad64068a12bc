CONSTANTS
  None = none
  MinSyncHold = 1
  SyncTimeout = 2
  Fallback = 1
  ReturnCommand = "switch_stop"
  PolicyStamp = {}
  FeedbackMayStop = TRUE
  Resyncs <- Either
  Depth = 2
  MaxMeddle = 1
  Timely = FALSE
SPECIFICATION Spec
INVARIANT HandoverInv
PROPERTY ImplementsHandover
