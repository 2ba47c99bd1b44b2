SPECIFICATION FairSpec
CONSTANTS
  NaN = NaN
  ByteBits = 2
  Resolution = 2
  Setups <- MCSetups
  CommandValues <- MCCommandValues
  Samples <- MCSamples
INVARIANTS
  TypeOK
  
  ShownStatesAreCurrent
  SdosApplied
PROPERTIES
  ObjectsExchanged
  SoundSetupsRun
CHECK_DEADLOCK FALSE
