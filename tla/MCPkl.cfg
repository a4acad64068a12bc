SPECIFICATION Spec
CONSTANTS
  NoFile = NoFile
  Partial = Partial
  OutputFile = OutputFile
  MaxEpisodes = 2
  MaxFrames = 2
  MaxRuns = 2
  MaxSignals = 1
  Plans <- MCPlans
  Repeats = 2
  SyncSteps = 3
  MaxPrep = 1
  MaxInterrupts = 2
INVARIANTS WholeEpisode StopFollowsJoints ReplayedAsRecorded
PROPERTIES FilesKept QuitEnds
CHECK_DEADLOCK FALSE
