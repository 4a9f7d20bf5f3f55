CONSTANTS
  ConfigBytes = 3
  ImageBytes = 4
  Byte <- MCByte
SPECIFICATION Spec
INVARIANTS IInv OldOrGiven DoneMeansGiven
\* a write that has returned 1 is over
CHECK_DEADLOCK FALSE
