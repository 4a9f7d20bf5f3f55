CONSTANTS
  EepromBytes = 2
  MaxTicks = 2
  LowRange = 2
  Byte <- MCByte
  Blank = 1
  Garbage = 0
SPECIFICATION VerifySpec
INVARIANT SuccessMeansNoError
CHECK_DEADLOCK FALSE
