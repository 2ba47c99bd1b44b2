SPECIFICATION FairSpec
CONSTANTS
  Arguments <- MCArguments
  Paths = {"", "rover_real_map.yaml"}
  Delays = {0}
  Periods = {0, 3}
  Timeouts = {2}
  Runs = {r1, r2}
  MaxOrphans = 1
  Nobody = Nobody
  Off = Off
INVARIANTS
  TypeOK
  SavesComeInTime
  OneMapSource
  ManagerComesLast
PROPERTIES
  SavesGoOn
CHECK_DEADLOCK FALSE
