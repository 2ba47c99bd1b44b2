CONSTANTS
  NaN = NaN
  Infinity = 9
  Speeds <- NotANumber
  Epsilon = 2
  max_linear_x = 3
  max_angular_z = 2
  command_timeout = 2
  publish_zero_on_timeout = TRUE
  QueueDepth = 1
SPECIFICATION Spec
INVARIANT NotFiniteIsZero
