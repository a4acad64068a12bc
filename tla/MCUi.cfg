SPECIFICATION FairSpec
CONSTANTS
  None = None
  Teleop = teleop_record
  Dagger = dagger
  Modes <- MCModes
  Workers = {w1}
  Ops <- MCOps
  Published <- MCPublished
  MaxQueue = 2
INVARIANT NoStaleMailbox
PROPERTIES FlagTruth GateFrozen DispatchReturns
