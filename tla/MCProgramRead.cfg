CONSTANTS
  Bytes = 4
  Sizes <- MCSizes
  Byte <- MCByte
  Blank = 255
  Garbage = 7
  ConfigAddress = 100
  ConfigBytes = 3
  EepromBytes = 4
  LowRange = 2
SPECIFICATION MCSpec
INVARIANTS DoneMeansRead StaysInBuffer PrintedIsDevice
PROPERTY ProgressIsHonest
\* the call has returned
CHECK_DEADLOCK FALSE
