SPECIFICATION CaptureSpec
CONSTANTS
  Realsense = {"wrist"}
  Tactile = {"tactile"}
  MaxLaunches = 2
  MaxFrames = 3
  MaxSaves = 2
  Side <- MCSide
  UseArm <- MCUseArm
INVARIANTS EpisodesApart WorkersDoomed
CHECK_DEADLOCK FALSE
