CONSTANTS
  NaN = NaN
  Channels <- RoverChannels
  NumMapped = 4
  CommandInterfaces <- ResetInterface
  CommandValues <- ControllerValues
  auto_fault_reset_ = FALSE
  auto_state_transitions_ = TRUE
  DefaultControlWord <- NoBits
  DefaultPosition = NaN
  ConfiguredMode = 8
  PosFactor = 1
  PosOffset = 0
  ActFactor = 1
  ActOffset = 0
  check_state_frequency_ = 2
  StatusExtras <- PlainStatus
  Positions <- OnePosition
  MaxFaults = 2
  MaxLosses = 1
  MaxDrops = 1
  MaxPresses = 2
SPECIFICATION Spec
INVARIANT TypeOK
INVARIANT ResetsNeverExceedPresses
INVARIANT EnabledOnlyKnowingly
INVARIANT StateIsCurrent
PROPERTY DriverNeverDisables
