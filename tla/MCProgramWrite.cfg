CONSTANTS
  b1 = b1
  Bits <- MCBits
  CodeMemorySize = 8
  WordsPerWrite = 2
  PageSize = 4
  AddrSpace = 8
SPECIFICATION Spec
INVARIANTS OldOrTarget DoneMeansWritten BlockIsOneRow IInv
PROPERTIES ImplementsPrefixWrite RunEnds
\* a run that has returned 1 is over
CHECK_DEADLOCK FALSE
