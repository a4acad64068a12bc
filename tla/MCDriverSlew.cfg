CONSTANTS
  ControlMode = {position}
  Idle = idle
  None = none
  Rate = {slow, full}
  ReachLeft = {0, 1, 2, 3, 4}
  ReachRight = {0}
  MayFail <- SwitchesAndStops
  Timeout = 2
  Lo = 1
  Hi = 3
  MaxDelta = 1
  Frame = {0, 1, 2, 3, 4}
  Streamed = {"left"}
SPECIFICATION Spec
INVARIANTS TypeOK LastIsTarget RateFollowsConfig
PROPERTY FrameStepBounded
