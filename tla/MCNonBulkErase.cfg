CONSTANTS
  b1 = b1
  Bits <- MCBits
  CodeMemorySize = 10
  WordsPerWrite = 2
  PageSize = 4
SPECIFICATION Spec
INVARIANTS IInv OnlyErases PagesInOrder LeavesReady
PROPERTY Returns
\* the call has returned
CHECK_DEADLOCK FALSE
