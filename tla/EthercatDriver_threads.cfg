CONSTANTS
  NaN = NaN
  NumModules = 2
  Inverted <- None
  RightSide <- First
  Overriding <- First
  Velocities <- NoVelocity
  Measurements <- Still
  DefaultVelocity = 0
  max_startup_cycles = 3
  check_state_frequency_ = 2
  MaxActivations = 2
  MaxFailures = 2
SPECIFICATION FairSpec
CHECK_DEADLOCK FALSE
INVARIANT TypeOK
INVARIANT PassesAreExclusive
INVARIANT SendsAreReceived
INVARIANT OperationalKnownInTime
INVARIANT FramesOnlyAfterSdo
PROPERTY ActivationReturns
PROPERTY FramesKeepFlowing
