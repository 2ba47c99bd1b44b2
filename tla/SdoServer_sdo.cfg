CONSTANTS
  ByteBits = 3
  DoubleBits = 20
  Numbers <- EdgeNumbers
  Text = Text
  TextSize = 2
  NaN = NaN
  FloatPattern <- FloatBytes
  DoublePattern <- DoubleBytes
  RequestedTypes <- SomeTypes
  ObjectSizes <- NativeSizes
SPECIFICATION Spec
CHECK_DEADLOCK FALSE
INVARIANT TypeOK
INVARIANT GetReturnsWhatWasSet
INVARIANT OutOfRangeRefused
INVARIANT NothingHeldWhenIdle
INVARIANT SuccessMeansExchanged
