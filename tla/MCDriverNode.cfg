CONSTANTS
  ControlMode = {position, imp_joint}
  Idle = idle
  None = none
  Rate = {full}
  ReachLeft = {0}
  ReachRight = {0}
  MayFail <- AnyCall
  Timeout = 2
  Lo = 0
  Hi = 0
  MaxDelta = 1
  Frame = {0}
  Streamed = {"left", "right"}
SPECIFICATION Spec
INVARIANTS OneOwner SessionSeeded ReadyMeansInMode StoppedStaysIdle
PROPERTIES ImplementsArmOwner SilentStreamEnds
