CONSTANTS
  NaN = NaN
  NumModules = 2
  Inverted <- Second
  RightSide <- First
  Overriding <- None
  Velocities <- DriveOrNaN
  Measurements <- EitherWay
  DefaultVelocity = 0
  max_startup_cycles = 2
  check_state_frequency_ = 1
  MaxActivations = 2
  MaxFailures = 0
SPECIFICATION Spec
CHECK_DEADLOCK FALSE
INVARIANT CommandsCarried
INVARIANT FeedbackMatchesCommand
