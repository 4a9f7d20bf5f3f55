CONSTANTS
  b1 = b1
  Bits <- MCBits
  CodeMemorySize = 10
  WordsPerWrite = 2
  PageSize = 4
SPECIFICATION Spec
INVARIANT SuccessMeansErased
\* the call has returned
CHECK_DEADLOCK FALSE
