CONSTANTS
  ControlMode = {position}
  Idle = idle
  None = none
  Rate = {full}
  ReachLeft = {0, 1, 2, 3, 4}
  ReachRight = {0}
  MayFail <- CommandsOnly
  Timeout = 1
  Lo = 1
  Hi = 3
  MaxDelta = 1
  Frame = {0, 1, 2, 3, 4}
  Streamed = {"left"}
SPECIFICATION Spec
PROPERTY FrameStepBounded
