CONSTANTS
  None = none
  MinSyncHold = 1
  SyncTimeout = 2
  Fallback = 1
  ReturnCommand = "switch_sync"
  PolicyStamp = {"before"}
  FeedbackMayStop = FALSE
  Resyncs <- Aligns
  Depth = 2
  MaxMeddle = 2
  Timely = TRUE
SPECIFICATION Spec
INVARIANT FreshTargets
PROPERTIES HandoverCompletes ReturnGateOpens
