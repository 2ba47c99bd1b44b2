CONSTANTS
  NaN = NaN
  Channels <- PositionChannels
  NumMapped = 6
  CommandInterfaces <- PositionInterfaces
  CommandValues <- ControllerValues
  auto_fault_reset_ = TRUE
  auto_state_transitions_ = TRUE
  DefaultControlWord <- NoBits
  DefaultPosition = NaN
  ConfiguredMode = 8
  PosFactor <- Backwards
  PosOffset = 1
  ActFactor <- Backwards
  ActOffset = 1
  check_state_frequency_ = 2
  StatusExtras <- PlainStatus
  Positions <- TwoPositions
  MaxFaults = 0
  MaxLosses = 1
  MaxDrops = 0
  MaxPresses = 0
SPECIFICATION Spec
INVARIANT HoldsOutsideCsp
