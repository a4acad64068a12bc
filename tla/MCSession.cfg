CONSTANTS
  None = None
  Starters = {first, second}
  Modes = {"teleop_record", "dagger"}
  Override <- ShortPlaybook
  Fault = {"image"}
SPECIFICATION FairSpec
INVARIANTS HintFollowable OwnDriver AtMostOneEscapes LeaderReleased ModeFollowsSession
PROPERTIES ImplementsLifecycle StopEnds StartResolves
CHECK_DEADLOCK FALSE
