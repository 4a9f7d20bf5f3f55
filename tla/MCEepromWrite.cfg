CONSTANTS
  EepromBytes = 4
  MaxTicks = 2
  LowRange = 2
  Byte <- MCByte
  Blank = 1
  Garbage = 0
SPECIFICATION MCSpec
INVARIANTS CleanPrefix CleanSuccess VerifiedMeansEeprom NoFalseAlarm
PROPERTIES NoOverlap Returns
\* the call has returned
CHECK_DEADLOCK FALSE
